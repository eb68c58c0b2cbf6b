----------------------------- MODULE JSONMessages -----------------------------
(***************************************************************************)
(* The messages of main.cpp: what it makes of a press of a button and of a *)
(* message that has come.  Each operator returns the heap as h and as lost *)
(* the blocks that nobody will free any more.                              *)
(***************************************************************************)
EXTENDS JSONGrammar

CONSTANTS
  Names,     \* the literals "topic", "payload", "led" and "state"
  Pins,      \* the pin of each of "D1", "D2" and "D3"
  Commands,  \* the texts of "ON", "OFF" and "TOGGLE"
  JsonString \* sizeof json_string, in which a message is parsed

\* A string is added to an object under a name.  Neither need be there; an item
\* that cannot be added is lost, with its string.
AddString(m, name, s) ==
  LET Added(new, added) ==
        [m EXCEPT !.h = added.h,
                  !.lost = @ \cup IF added.r \/ new.r = NULL THEN {} ELSE {new.r, new.h[new.r].value}]
      Made(new) == Added(new, add_item_to_object(new.h, m.json, name, new.r, FALSE))
  IN Made(CreateString(m.h, "String", s))

\* Slip: both under one name.
create_json_message_OneName(h, topic, message) ==
  LET Printed(m, text) == [h |-> cJSON_Delete(text.h, m.json), r |-> text.r, lost |-> m.lost]
      Filled(m) == Printed(m, cJSON_PrintUnformatted(m.h, m.json))
      Made(new) == Filled(AddString(AddString([h |-> new.h, json |-> new.r, lost |-> {}],
                                              Names.topic, topic), Names.topic, message))
  IN Made(Create(h, "Object", 0))
create_json_message(h, topic, message) ==
  LET Printed(m, text) == [h |-> cJSON_Delete(text.h, m.json), r |-> text.r, lost |-> m.lost]
      Filled(m) == Printed(m, cJSON_PrintUnformatted(m.h, m.json))
      Made(new) == Filled(AddString(AddString([h |-> new.h, json |-> new.r, lost |-> {}],
                                              Names.topic, topic), Names.payload, message))
  IN Made(Create(h, "Object", 0))

\* What is published of a text: none, or one topic and payload, its zero byte included.
parse_and_publish_message(h, p) ==
  LET Both(json, topic, payload) ==
        [h |-> cJSON_Delete(json.h, json.r),
         published |-> IF topic = NULL \/ payload = NULL THEN <<>>
                       ELSE << <<StringAt(json.h, json.h[topic].value),
                                 StringAt(json.h, json.h[payload].value) \o <<0>> >> >>]
      Parsed(json) ==
        IF json.r = NULL THEN [h |-> json.h, published |-> <<>>]
        ELSE Both(json, get_object_item(json.h, json.r, StringAt(h, Names.topic), FALSE),
                        get_object_item(json.h, json.r, StringAt(h, Names.payload), FALSE))
  IN IF p = NULL THEN [h |-> h, published |-> <<>>] ELSE Parsed(cJSON_Parse(h, StringAt(h, p)))

\* The button's branch of main and the three of send_temperatures.
SendMessage(h, topic, message) ==
  LET Sent(text, sent) == [h |-> deallocate(sent.h, text.r), published |-> sent.published, lost |-> text.lost]
      Made(text) == Sent(text, parse_and_publish_message(text.h, text.r))
  IN Made(create_json_message(h, topic, message))

IsString(h, p) == p # NULL /\ h[p].type = "String"

\* The pins after a command for one of them; other names and commands do nothing.
Switched(leds, led, state) ==
  [pin \in DOMAIN leds |->
     IF led \notin DOMAIN Pins \/ Pins[led] # pin THEN leds[pin]
     ELSE CASE state = Commands.on -> TRUE
            [] state = Commands.off -> FALSE
            [] state = Commands.toggle -> ~leds[pin]
            [] OTHER -> leds[pin]]

\* The payload is cut to json_string and ends at its first zero byte.  The root of
\* a command that has been obeyed is not deleted.
messageArrived(h, leds, payload) ==
  LET cut == IF Len(payload) < JsonString THEN payload ELSE SubSeq(payload, 1, JsonString - 1)
      Found(root, led, state) ==
        IF ~IsString(root.h, led) \/ ~IsString(root.h, state)
        THEN [h |-> cJSON_Delete(root.h, root.r), leds |-> leds, lost |-> {}]
        ELSE [h |-> root.h, lost |-> Used(root.h) \ Used(h),
              leds |-> Switched(leds, StringAt(root.h, root.h[led].value), StringAt(root.h, root.h[state].value))]
      Parsed(root) ==
        IF root.r = NULL THEN [h |-> root.h, leds |-> leds, lost |-> {}]
        ELSE Found(root, get_object_item(root.h, root.r, StringAt(h, Names.led), FALSE),
                         get_object_item(root.h, root.r, StringAt(h, Names.state), FALSE))
  IN Parsed(cJSON_Parse(h, UptoZero(cut)))

===============================================================================
