------------------------------- MODULE MCModbus -------------------------------
(***************************************************************************)
(* Two servers with three addresses, and menus of a few calls each that    *)
(* between them use every function code.                                   *)
(***************************************************************************)
EXTENDS ModbusSystem, Crc16

MCCrc(bytes) == nmbs_crc_calc(bytes)
MCInputBit(s, a) == (s + a) % 2
MCInputRegister(s, a) == 10 * s + a
MCCallbackFaults == {[at |-> 1, err |-> "TRANSPORT"], [at |-> 2, err |-> "ILLEGAL_DATA_VALUE"]}

To(s, c) == [to |-> s, c |-> c]
TwoRecords == nmbs_send_raw_pdu(21, <<18, 6>> \o Word(1) \o Word(0) \o Word(1) \o Word(7)
                                    \o <<6>> \o Word(1) \o Word(2) \o Word(1) \o Word(8), 19)

Registers == {To(1, nmbs_read_holding_registers(0, 1)), To(1, nmbs_write_single_register(0, 7)),
              To(2, nmbs_read_holding_registers(0, 1)), To(1, nmbs_write_single_register(0, 9))}
ManyRegisters == {To(1, nmbs_write_multiple_registers(0, <<7, 8>>)),
                  To(1, nmbs_write_multiple_registers(0, <<8, 7>>)),
                  To(2, nmbs_read_write_registers(0, 2, 1, <<300>>)),
                  To(1, nmbs_read_holding_registers(2, 2))}
Coils == {To(1, nmbs_write_single_coil(1, TRUE)), To(2, nmbs_write_multiple_coils(0, <<1, 0, 1>>)),
          To(2, nmbs_read_coils(1, 2)), To(1, nmbs_read_discrete_inputs(0, 3))}
Files == {To(1, nmbs_write_file_record(1, 1, <<7, 8>>)), To(1, nmbs_read_file_record(1, 0, 2)),
          To(2, TwoRecords)}
Broadcasts == {To(0, nmbs_write_single_register(2, 9)), To(2, nmbs_read_input_registers(1, 1)),
               To(1, nmbs_write_multiple_registers(0, <<1, 2, 3, 4>>)),
               To(2, nmbs_read_holding_registers(2, 1))}
MCMenus(t) == {Registers, ManyRegisters, Coils, Files} \cup (IF t = "RTU" THEN {Broadcasts} ELSE {})
===============================================================================
