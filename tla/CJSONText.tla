------------------------------- MODULE CJSONText -------------------------------
(***************************************************************************)
(* cJSON's texts: printing a tree, parsing a text into a tree and taking   *)
(* the blanks out of one (cJSON.c).  A text is a sequence of bytes; C's    *)
(* offsets count from 0.  Numbers are whole and short: %d writes them and  *)
(* strtod reads them.                                                      *)
(***************************************************************************)
EXTENDS CJSON

Quote == 34
Backslash == 92
Blank == 32
Newline == 10
Tab == 9
Comma == 44
Colon == 58
OpenArray == 91
CloseArray == 93
OpenObject == 123
CloseObject == 125

TextNull == <<110, 117, 108, 108>>
TextFalse == <<102, 97, 108, 115, 101>>
TextTrue == <<116, 114, 117, 101>>

(***************************************************************************)
(* Printing.  A buffer has the text so far and its size, which is final if *)
(* fixed; over says that something was written beyond it.                  *)
(***************************************************************************)
Buffer(size, fixed) == [ok |-> TRUE, text |-> <<>>, size |-> size, fixed |-> fixed, over |-> FALSE]

\* Slip: the end of the string is not counted.
ensure_NoEnd(b, needed) ==
  LET n == needed + Len(b.text) - 1
  IN IF ~b.ok \/ (b.size > 0 /\ Len(b.text) >= b.size) THEN [b EXCEPT !.ok = FALSE]
     ELSE IF n <= b.size THEN b
     ELSE IF b.fixed THEN [b EXCEPT !.ok = FALSE] ELSE [b EXCEPT !.size = 2 * n]
ensure(b, needed) ==
  LET n == needed + Len(b.text) + 1
  IN IF ~b.ok \/ (b.size > 0 /\ Len(b.text) >= b.size) THEN [b EXCEPT !.ok = FALSE]
     ELSE IF n <= b.size THEN b
     ELSE IF b.fixed THEN [b EXCEPT !.ok = FALSE] ELSE [b EXCEPT !.size = 2 * n]

\* Text s with z zero bytes behind it, after needed bytes have been ensured.
Put(b, needed, s, z) ==
  LET Into(e) == IF e.ok THEN [e EXCEPT !.text = @ \o s, !.over = @ \/ Len(e.text) + Len(s) + z > e.size]
                 ELSE e
  IN Into(ensure(b, needed))

RECURSIVE Digits(_), Joined(_)
Digits(n) == IF n < 10 THEN <<48 + n>> ELSE Digits(n \div 10) \o <<48 + (n % 10)>>
Decimal(n) == IF n < 0 THEN <<45>> \o Digits(-n) ELSE Digits(n)
Joined(ss) == IF ss = <<>> THEN <<>> ELSE ss[1] \o Joined(Tail(ss))

HexDigit(d) == IF d < 10 THEN 48 + d ELSE 87 + d
\* The letters of the escapes, by the byte they stand for.
Escapes == { <<8, 98>>, <<12, 102>>, <<10, 110>>, <<13, 114>>, <<9, 116>>,
             <<Quote, Quote>>, <<Backslash, Backslash>> }
Escaped(c) ==
  IF \E e \in Escapes : e[1] = c THEN <<Backslash, (CHOOSE e \in Escapes : e[1] = c)[2]>>
  ELSE IF c < 32 THEN <<Backslash, 117, 48, 48, HexDigit(c \div 16), HexDigit(c % 16)>>
  ELSE <<c>>

\* A missing string is printed as an empty one.
print_string_ptr(b, s) ==
  LET Quoted(text) == Put(b, Len(text) + 3, <<Quote>> \o text \o <<Quote>>, 1)
  IN Quoted(Joined([i \in DOMAIN s |-> Escaped(s[i])]))
\* A word, its zero byte behind it.
PutWord(b, word) == Put(b, Len(word) + 1, word, 1)

Tabs(n) == [i \in 1..n |-> Tab]

RECURSIVE print_value(_, _, _, _, _), PrintElements(_, _, _, _, _), PrintMembers(_, _, _, _, _)
PrintElements(h, p, b, format, depth) ==
  LET value == print_value(h, p, b, format, depth)
      sep == IF format THEN <<Comma, Blank>> ELSE <<Comma>>
  IN IF p = NULL \/ ~b.ok THEN b
     ELSE PrintElements(h, h[p].next,
                        IF h[p].next = NULL THEN value ELSE Put(value, Len(sep) + 1, sep, 1),
                        format, depth)

PrintMembers(h, p, b, format, depth) ==
  LET indented == IF format THEN Put(b, depth, Tabs(depth), 0) ELSE b
      key == print_string_ptr(indented, IF h[p].key = NULL THEN <<>> ELSE StringAt(h, h[p].key))
      colon == IF format THEN <<Colon, Tab>> ELSE <<Colon>>
      value == print_value(h, p, Put(key, Len(colon), colon, 0), format, depth)
      end == (IF h[p].next = NULL THEN <<>> ELSE <<Comma>>) \o (IF format THEN <<Newline>> ELSE <<>>)
  IN IF p = NULL \/ ~b.ok THEN b
     ELSE PrintMembers(h, h[p].next, Put(value, Len(end) + 1, end, 1), format, depth)

print_array(h, p, b, format, depth) ==
  Put(PrintElements(h, h[p].child, Put(b, 1, <<OpenArray>>, 0), format, depth + 1),
      2, <<CloseArray>>, 1)

print_object(h, p, b, format, depth) ==
  LET open == IF format THEN <<OpenObject, Newline>> ELSE <<OpenObject>>
      members == PrintMembers(h, h[p].child, Put(b, Len(open) + 1, open, 0), format, depth + 1)
  IN Put(members, IF format THEN depth + 2 ELSE 2,
         (IF format THEN Tabs(depth) ELSE <<>>) \o <<CloseObject>>, 1)

print_value(h, p, b, format, depth) ==
  LET item == h[p]
      no == [b EXCEPT !.ok = FALSE]
  IN IF p = NULL \/ ~b.ok THEN no
     ELSE CASE item.type \in {"Null", "False", "True", "Number", "Raw"} ->
                 IF item.type = "Raw" /\ item.value = NULL THEN no
                 ELSE PutWord(b, CASE item.type = "Null" -> TextNull
                                   [] item.type = "False" -> TextFalse
                                   [] item.type = "True" -> TextTrue
                                   [] item.type = "Number" -> Decimal(item.number)
                                   [] item.type = "Raw" -> StringAt(h, item.value))
            [] item.type = "String" ->
                 print_string_ptr(b, IF item.value = NULL THEN <<>> ELSE StringAt(h, item.value))
            [] item.type = "Array" -> print_array(h, p, b, format, depth)
            [] item.type = "Object" -> print_object(h, p, b, format, depth)
            [] OTHER -> no

\* print's buffer is a block of its own, that holds the text in the end.
print(h, p, format) ==
  LET Printed(b, block) ==
        IF b.ok THEN Ok([block.h EXCEPT ![block.r].s = b.text], block.r) ELSE Failed(h)
      In(block) ==
        IF block.r = NULL THEN block ELSE Printed(print_value(h, p, Buffer(256, FALSE), format, 0), block)
  IN In(allocate(h, Chars(<<>>)))
cJSON_Print(h, p) == print(h, p, TRUE)
cJSON_PrintUnformatted(h, p) == print(h, p, FALSE)
cJSON_PrintBuffered(h, p, prebuffer, format) == print_value(h, p, Buffer(prebuffer, FALSE), format, 0)
cJSON_PrintPreallocated(h, p, length, format) == print_value(h, p, Buffer(length, TRUE), format, 0)

(***************************************************************************)
(* Parsing.  A text t ends in the zero byte, if the caller counts that.    *)
(***************************************************************************)
Has(t, off) == off < Len(t)
At(t, off) == t[off + 1]
Sees(t, off, c) == Has(t, off) /\ At(t, off) = c
Reads(t, off, word) == off + Len(word) <= Len(t) /\ SubSeq(t, off + 1, off + Len(word)) = word

\* The zero byte is a blank too; of a text of blanks the last stays.
skip_whitespace(t, off) ==
  LET end == CHOOSE e \in off..Len(t) : /\ e = Len(t) \/ At(t, e) > Blank
                                        /\ \A i \in off..(e - 1) : At(t, i) <= Blank
  IN IF ~Has(t, off) THEN off ELSE IF end = Len(t) THEN end - 1 ELSE end

Yes(h, off) == [ok |-> TRUE, h |-> h, off |-> off]
No(h) == [ok |-> FALSE, h |-> h, off |-> 0]

HexValue(c) ==
  CASE c \in 48..57 -> c - 48 [] c \in 65..70 -> c - 55 [] c \in 97..102 -> c - 87 [] OTHER -> 16
\* 0 if a digit is none.
parse_hex4(t, off) ==
  LET Number(d) == IF \E i \in 1..4 : d[i] = 16 THEN 0
                   ELSE 4096 * d[1] + 256 * d[2] + 16 * d[3] + d[4]
  IN Number([i \in 1..4 |-> HexValue(At(t, off + i - 1))])

Six(c) == 128 + (c % 64)
UTF8(c) ==
  IF c < 128 THEN <<c>>
  ELSE IF c < 2048 THEN <<192 + c \div 64, Six(c)>>
  ELSE IF c < 65536 THEN <<224 + c \div 4096, Six(c \div 64), Six(c)>>
  ELSE <<240 + c \div 262144, Six(c \div 4096), Six(c \div 64), Six(c)>>

\* The escape \u at off in a string that ends at end: its bytes and its length,
\* 0 for none.
utf16_literal_to_utf8(t, off, end) ==
  LET none == [s |-> <<>>, len |-> 0]
      Pair(first, second) ==
        IF \/ At(t, off + 6) # Backslash \/ At(t, off + 7) # 117
           \/ second \notin 56320..57343
        THEN none
        ELSE [s |-> UTF8(65536 + 1024 * (first % 1024) + (second % 1024)), len |-> 12]
      Code(first) ==
        IF first \in 56320..57343 THEN none
        ELSE IF first \notin 55296..56319 THEN [s |-> UTF8(first), len |-> 6]
        ELSE IF end - off < 12 THEN none ELSE Pair(first, parse_hex4(t, off + 8))
  IN IF end - off < 6 THEN none ELSE Code(parse_hex4(t, off + 2))

\* Where the string that begins behind off ends: at its quote, or at the length.
RECURSIVE StringEnd(_, _), Unescape(_, _, _)
StringEnd(t, off) ==
  IF ~Has(t, off) \/ At(t, off) = Quote THEN off
  ELSE IF At(t, off) = Backslash
  THEN IF Has(t, off + 1) THEN StringEnd(t, off + 2) ELSE Len(t)
  ELSE StringEnd(t, off + 1)

\* The byte or the escape at off.
Unescaped(t, off, end) ==
  LET e == At(t, off + 1)
  IN IF At(t, off) # Backslash THEN [s |-> <<At(t, off)>>, len |-> 1]
     ELSE IF e = 117 THEN utf16_literal_to_utf8(t, off, end)
     ELSE IF e = 47 THEN [s |-> <<e>>, len |-> 2]
     ELSE IF \E x \in Escapes : x[2] = e THEN [s |-> <<(CHOOSE x \in Escapes : x[2] = e)[1]>>, len |-> 2]
     ELSE [s |-> <<>>, len |-> 0]

\* What the bytes from off to end stand for.
Unescape(t, off, end) ==
  LET Then(s, rest) == [rest EXCEPT !.s = s \o @]
      From(u) == IF u.len = 0 THEN [ok |-> FALSE, s |-> <<>>]
                 ELSE Then(u.s, Unescape(t, off + u.len, end))
  IN IF off >= end THEN [ok |-> TRUE, s |-> <<>>] ELSE From(Unescaped(t, off, end))

\* What a string holds ends at its first zero byte.
UptoZero(s) == SubSeq(s, 1, Len(SelectSeq([i \in DOMAIN s |-> \A j \in 1..i : s[j] # 0], LAMBDA x : x)))

\* The bytes are written into a block of their own, that is freed when they are wrong.
parse_string(h, p, t, off) ==
  LET Copied(read, copy, end) ==
        IF copy.r = NULL \/ ~read.ok THEN No(h)
        ELSE Yes([copy.h EXCEPT ![p].type = "String", ![p].value = copy.r,
                                ![copy.r].s = UptoZero(read.s)], end + 1)
      Ending(end) ==
        IF ~Has(t, end) THEN No(h)
        ELSE Copied(Unescape(t, off + 1, end), allocate(h, Chars(<<>>)), end)
  IN IF At(t, off) # Quote THEN No(h) ELSE Ending(StringEnd(t, off + 1))

\* What strtod takes of the at most 63 bytes: a sign and digits.
RECURSIVE DigitsEnd(_, _), NumberOf(_, _, _)
DigitsEnd(t, off) == IF Has(t, off) /\ At(t, off) \in 48..57 THEN DigitsEnd(t, off + 1) ELSE off
NumberOf(t, off, end) == IF off = end THEN 0 ELSE 10 * NumberOf(t, off, end - 1) + At(t, end - 1) - 48

parse_number(h, p, t, off) ==
  LET from == IF At(t, off) = 45 THEN off + 1 ELSE off
      end == DigitsEnd(t, from)
      n == NumberOf(t, from, end)
  IN IF end = from THEN No(h)
     ELSE Yes([h EXCEPT ![p].type = "Number", ![p].number = IF from = off THEN n ELSE -n], end)

RECURSIVE parse_value(_, _, _, _, _), Elements(_, _, _, _, _, _)

\* The value of a new element, with its key in an object; off is in front of it.
\* Slip: the colon may be missing.
Element_NoColon(h, p, t, off, depth, keyed) ==
  LET Value(g, o) == parse_value(g, p, t, skip_whitespace(t, o + 1), depth)
      AfterColon(g, colon) == Value(g, IF Sees(t, colon, Colon) THEN colon ELSE colon - 1)
      AfterKey(key) ==
        IF ~key.ok THEN key
        ELSE AfterColon([key.h EXCEPT ![p].key = key.h[p].value, ![p].value = NULL],
                        skip_whitespace(t, key.off))
  IN IF ~keyed THEN Value(h, off)
     ELSE IF ~Has(t, off + 1) THEN No(h)
     ELSE AfterKey(parse_string(h, p, t, skip_whitespace(t, off + 1)))
Element(h, p, t, off, depth, keyed) ==
  LET Value(g, o) == parse_value(g, p, t, skip_whitespace(t, o + 1), depth)
      AfterColon(g, colon) == IF Sees(t, colon, Colon) THEN Value(g, colon) ELSE No(g)
      AfterKey(key) ==
        IF ~key.ok THEN key
        ELSE AfterColon([key.h EXCEPT ![p].key = key.h[p].value, ![p].value = NULL],
                        skip_whitespace(t, key.off))
  IN IF ~keyed THEN Value(h, off)
     ELSE IF ~Has(t, off + 1) THEN No(h)
     ELSE AfterKey(parse_string(h, p, t, skip_whitespace(t, off + 1)))

\* The elements from off on, linked behind last; head is the first of them all.
Elements(h, head, last, t, off, arg) ==
  LET Ended(g, first, p, end) ==
        IF Sees(t, end, Comma) THEN Elements(g, first, p, t, end, arg)
        ELSE IF ~Sees(t, end, arg.close) THEN No(cJSON_Delete(g, first))
        ELSE [ok |-> TRUE, h |-> [g EXCEPT ![first].prev = p], off |-> end, head |-> first]
      Parsed(element, first, p) ==
        IF ~element.ok THEN No(cJSON_Delete(element.h, first))
        ELSE Ended(element.h, first, p, skip_whitespace(t, element.off))
      Linked(new) ==
        Parsed(Element(IF last = NULL THEN new.h ELSE suffix_object(new.h, last, new.r),
                       new.r, t, off, arg.depth, arg.keyed),
               IF head = NULL THEN new.r ELSE head, new.r)
      New(new) == IF new.r = NULL THEN No(cJSON_Delete(h, head)) ELSE Linked(new)
  IN New(cJSON_New_Item(h))

\* parse_array and parse_object, the nesting of which is counted together.
ParseList(h, p, t, off, depth, type) ==
  LET close == IF type = "Array" THEN CloseArray ELSE CloseObject
      Filled(list) ==
        IF ~list.ok THEN No(list.h)
        ELSE Yes([list.h EXCEPT ![p].type = type, ![p].child = list.head], list.off + 1)
      From(from) ==
        IF Sees(t, from, close) THEN Yes([h EXCEPT ![p].type = type, ![p].child = NULL], from + 1)
        ELSE IF ~Has(t, from) THEN No(h)
        ELSE Filled(Elements(h, NULL, NULL, t, from - 1,
                             [depth |-> depth + 1, keyed |-> type = "Object", close |-> close]))
  IN IF depth >= NestingLimit THEN No(h) ELSE From(skip_whitespace(t, off + 1))

parse_value(h, p, t, off, depth) ==
  LET Is(type) == [h EXCEPT ![p].type = type]
  IN CASE Reads(t, off, TextNull) -> Yes(Is("Null"), off + 4)
       [] Reads(t, off, TextFalse) -> Yes(Is("False"), off + 5)
       [] Reads(t, off, TextTrue) -> Yes(Is("True"), off + 4)
       [] Sees(t, off, Quote) -> parse_string(h, p, t, off)
       [] Has(t, off) /\ At(t, off) \in {45} \cup 48..57 -> parse_number(h, p, t, off)
       [] Sees(t, off, OpenArray) \/ Sees(t, off, OpenObject) ->
            ParseList(h, p, t, off, depth, IF At(t, off) = OpenArray THEN "Array" ELSE "Object")
       [] OTHER -> No(h)

ByteOrderMark == <<239, 187, 191>>

\* exact asks for the zero byte behind the value and what blanks follow it.
cJSON_ParseWithLengthOpts(h, t, exact) ==
  LET Read(value, root) ==
        IF ~value.ok \/ (exact /\ ~Sees(t, skip_whitespace(t, value.off), 0))
        THEN Failed(cJSON_Delete(value.h, root))
        ELSE Ok(value.h, root)
      from == IF Has(t, 4) /\ Reads(t, 0, ByteOrderMark) THEN 3 ELSE 0
      New(root) ==
        IF root.r = NULL THEN root
        ELSE Read(parse_value(root.h, root.r, t, skip_whitespace(t, from), 0), root.r)
  IN IF t = <<>> THEN Failed(h) ELSE New(cJSON_New_Item(h))
cJSON_Parse(h, s) == cJSON_ParseWithLengthOpts(h, s \o <<0>>, FALSE)
cJSON_ParseWithLength(h, s) == cJSON_ParseWithLengthOpts(h, s, FALSE)

(***************************************************************************)
(* cJSON_Minify: blanks and comments go, strings stay, but a quote behind  *)
(* any backslash is taken into the string.                                 *)
(***************************************************************************)
RECURSIVE Minified(_, _), MinifiedString(_, _), AfterLine(_, _), AfterComment(_, _)
AfterLine(s, i) == IF i > Len(s) THEN i ELSE IF s[i] = Newline THEN i + 1 ELSE AfterLine(s, i + 1)
AfterComment(s, i) ==
  IF i > Len(s) THEN i
  ELSE IF Reads(s, i - 1, <<42, 47>>) THEN i + 2 ELSE AfterComment(s, i + 1)

MinifiedString(s, i) ==
  IF i > Len(s) THEN <<>>
  ELSE IF s[i] = Quote THEN <<Quote>> \o Minified(s, i + 1)
  ELSE IF Reads(s, i - 1, <<Backslash, Quote>>) THEN <<Backslash, Quote>> \o MinifiedString(s, i + 2)
  ELSE <<s[i]>> \o MinifiedString(s, i + 1)

Minified(s, i) ==
  IF i > Len(s) THEN <<>>
  ELSE IF s[i] \in {Blank, Tab, 13, Newline} THEN Minified(s, i + 1)
  ELSE IF Reads(s, i - 1, <<47, 47>>) THEN Minified(s, AfterLine(s, i + 2))
  ELSE IF Reads(s, i - 1, <<47, 42>>) THEN Minified(s, AfterComment(s, i + 2))
  ELSE IF s[i] = 47 THEN Minified(s, i + 1)
  ELSE IF s[i] = Quote THEN <<Quote>> \o MinifiedString(s, i + 1)
  ELSE <<s[i]>> \o Minified(s, i + 1)
cJSON_Minify(s) == Minified(s, 1)

================================================================================
