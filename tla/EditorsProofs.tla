----------------------------- MODULE EditorsProofs -----------------------------
(***************************************************************************)
(* The codec: what is encoded is decoded again without a change, what is   *)
(* decoded is a configuration, and what is sent is MIDI whatever the       *)
(* message holds.  Then the editors: a page that could notice every change *)
(* shows what the device has.                                              *)
(***************************************************************************)
EXTENDS Editors, TLAPS, FiniteSetTheorems, SequenceTheorems

LEMMA GlobalFields ==
    ASSUME NEW g \in Global
    PROVE  /\ g.midi_channel \in Byte
           /\ g.tuner_message \in Message /\ g.tap_message \in Message
           /\ g.user_function_a \in MessageList /\ g.user_function_b \in MessageList
           /\ g.long_press_short_ms \in Uint32 /\ g.long_press_long_ms \in Uint32
           /\ g.browse_timeout_ms \in Uint32 /\ g.boot_resume \in BOOLEAN
           /\ g.display_brightness \in Byte /\ g.led_brightness \in Byte
           /\ g.expression \in [adc_min : Word, adc_max : Word, curve : Curve,
                                smoothing : Numbers]
           /\ g = [midi_channel |-> g.midi_channel, tuner_message |-> g.tuner_message,
                   tap_message |-> g.tap_message, user_function_a |-> g.user_function_a,
                   user_function_b |-> g.user_function_b,
                   long_press_short_ms |-> g.long_press_short_ms,
                   long_press_long_ms |-> g.long_press_long_ms,
                   browse_timeout_ms |-> g.browse_timeout_ms,
                   boot_resume |-> g.boot_resume,
                   display_brightness |-> g.display_brightness,
                   led_brightness |-> g.led_brightness, expression |-> g.expression]
  BY DEF Global

LEMMA WordRemainder ==
    ASSUME NEW n \in Int, 0 <= n, n < 65536
    PROVE  n % 65536 = n
  OBVIOUS

USE DEF Number, String, Bool, Array, Object, Null, Absent, Get, IsNone, AtMost,
        Byte, Word, Uint8, Uint16

LEMMA Bounds ==
    /\ ProgramsPerBank \in Nat \ {0}
    /\ MaxBanks \in Nat \ {0, 1}
    /\ MaxMessages \in Nat \ {0}
  BY CodecAssumption

(* Messages *)

LEMMA MessageRoundTrip ==
    ASSUME NEW m \in Message
    PROVE  MessageOk(EncodeMessage(m)) /\ MessageOf(EncodeMessage(m)) = m
  <1>1. CASE m.type = "PC"
    <2>1. m \in [type : {"PC"}, num : Byte, val : {0}, ch : Byte]
      BY <1>1 DEF Message
    <2>2. m = [type |-> "PC", num |-> m.num, val |-> 0, ch |-> m.ch]
      BY <2>1
    <2> QED  BY <1>1, <2>1, <2>2 DEF EncodeMessage, MessageOk, MessageOf, IsType
  <1>2. CASE m.type # "PC"
    <2>1. m \in [type : {"CC"}, num : Byte, val : Byte, ch : Byte]
      BY <1>2 DEF Message
    <2> QED  BY <1>2, <2>1 DEF EncodeMessage, MessageOk, MessageOf, IsType
  <1> QED  BY <1>1, <1>2

(* Every message the firmware can hold is sent as two or three bytes of     *)
(* MIDI, a channel out of range as channel 1 (midi_out.c:42-65).            *)
THEOREM WireBytesAreMidi ==
    ASSUME NEW m \in Message
    PROVE  IsMidi(m)
  <1>1. ChannelNibble(m.ch) \in 0..15
    BY DEF ChannelNibble, Message
  <1>2. m.num \in Byte /\ m.val \in Byte
    BY DEF Message
  <1>3. CASE m.type = "PC"
    BY <1>1, <1>2, <1>3 DEF IsMidi, WireBytes
  <1>4. CASE m.type # "PC"
    BY <1>1, <1>2, <1>4 DEF IsMidi, WireBytes
  <1> QED  BY <1>3, <1>4

(* Lists of messages *)

LEMMA LeastNatural ==
    ASSUME NEW T, T \subseteq Nat, T # {}
    PROVE  \E x \in T : \A y \in T : x <= y
  <1> DEFINE Less == {pair \in Nat \X Nat : pair[1] < pair[2]}
  <1>1. IsWellFoundedOn(Less, Nat)
    BY NatLessThanWellFounded DEF OpToRel
  <1>2. PICK x \in T : \A y \in T : ~(<<y, x>> \in Less)
    BY ONLY <1>1, WFMin, T \subseteq Nat, T # {}
  <1>3. \A y \in T : ~(y < x)
    BY <1>2
  <1> QED  BY <1>3

LEMMA GreatestNatural ==
    ASSUME NEW n \in Nat, NEW S, S \subseteq 0..n, S # {}
    PROVE  \E x \in S : \A y \in S : y <= x
  <1> DEFINE T == {n - x : x \in S}
  <1>1. PICK t \in T : \A y \in T : t <= y
    <2>1. \A x \in S : n - x \in Nat
      OBVIOUS
    <2>2. \E x \in S : TRUE
      OBVIOUS
    <2>3. T \subseteq Nat /\ T # {}
      BY <2>1, <2>2
    <2> QED  BY <2>3, LeastNatural
  <1>2. PICK x \in S : t = n - x
    OBVIOUS
  <1>3. \A y \in S : n - x <= n - y
    BY <1>1, <1>2
  <1> QED  BY <1>2, <1>3

(* Decoding a list gives a prefix of well-formed messages, never longer     *)
(* than there is room for.                                                  *)
LEMMA ListOfArray ==
    ASSUME NEW json, json.kind = "array", Len(json.items) \in Nat
    PROVE  \E count \in 0..ListLength(json) :
              /\ \A i \in 1..count : MessageOk(json.items[i])
              /\ ListOk(json) => count = ListLength(json)
              /\ ListOf(json) = [i \in 1..count |-> MessageOf(json.items[i])]
  <1> DEFINE max == ListLength(json)
             Greatest(n) == n \in WellFormed(json)
                               /\ \A k \in WellFormed(json) : k <= n
             count == CHOOSE n \in WellFormed(json) : \A k \in WellFormed(json) : k <= n
  <1>0. max \in Nat
    BY Bounds DEF ListLength
  <1>1. WellFormed(json) \subseteq 0..max /\ 0 \in WellFormed(json)
    BY <1>0 DEF WellFormed
  <1>2. \E n \in WellFormed(json) : \A k \in WellFormed(json) : k <= n
    BY <1>0, <1>1, GreatestNatural
  <1>3. count \in WellFormed(json) /\ \A k \in WellFormed(json) : k <= count
    BY <1>2
  <1>4. count \in 0..max /\ \A i \in 1..count : MessageOk(json.items[i])
    BY <1>3 DEF WellFormed
  <1>5. ListOk(json) => count = max
    <2> SUFFICES ASSUME ListOk(json)  PROVE count = max
      OBVIOUS
    <2>1. max \in WellFormed(json)
      BY <1>0 DEF WellFormed, ListOk
    <2> QED  BY <2>1, <1>0, <1>3, <1>4
  <1>6. ListOf(json) = [i \in 1..count |-> MessageOf(json.items[i])]
    BY DEF ListOf
  <1> QED  BY <1>4, <1>5, <1>6

LEMMA LenOfFunction ==
    ASSUME NEW n \in Nat, NEW f, f = [i \in 1..n |-> f[i]]
    PROVE  Len(f) = n /\ DOMAIN f = 1..n
  <1> DEFINE S == {f[i] : i \in 1..n}
  <1>1. f \in [1..n -> S] /\ DOMAIN f = 1..n
    OBVIOUS
  <1>2. f \in Seq(S)
    BY <1>1, SeqDef
  <1>3. DOMAIN f = 1..Len(f) /\ Len(f) \in Nat
    BY <1>2, LenProperties
  <1> QED  BY <1>1, <1>3

LEMMA ListRoundTrip ==
    ASSUME NEW list \in MessageList
    PROVE  ListOk(EncodeList(list)) /\ ListOf(EncodeList(list)) = list
  <1> DEFINE json == EncodeList(list)
             n == Len(list)
  <1>1. n \in 0..MaxMessages /\ list \in [1..n -> Message] /\ MaxMessages \in Nat
    <2>1. list \in Seq(Message) /\ n <= MaxMessages
      BY DEF MessageList
    <2> QED  BY <2>1, Bounds
  <1> DEFINE items == [i \in 1..n |-> EncodeMessage(list[i])]
  <1>2. json.kind = "array" /\ json.items = items
    BY DEF EncodeList
  <1>3. Len(items) = n
    <2>1. items = [i \in 1..n |-> items[i]]
      OBVIOUS
    <2> HIDE DEF items
    <2> QED  BY <1>1, <2>1, LenOfFunction
  <1>4. ListLength(json) = n
    <2> HIDE DEF json, items, n
    <2> QED  BY <1>1, <1>2, <1>3 DEF ListLength
  <1>5. \A i \in 1..n : json.items[i] = EncodeMessage(list[i]) /\ list[i] \in Message
    BY <1>1, <1>2
  <1>6. ListOk(json)
    BY <1>2, <1>4, <1>5, MessageRoundTrip DEF ListOk
  <1>7. ListOf(json) = [i \in 1..n |-> MessageOf(json.items[i])]
    <2> HIDE DEF json, items
    <2>1. Len(json.items) \in Nat
      BY <1>1, <1>2, <1>3
    <2> QED  BY <1>2, <1>4, <1>6, <2>1, ListOfArray
  <1>8. \A i \in 1..n : MessageOf(json.items[i]) = list[i]
    BY <1>5, MessageRoundTrip
  <1>9. ListOf(json) = [i \in 1..n |-> list[i]]
    BY <1>7, <1>8
  <1>10. [i \in 1..n |-> list[i]] = list
    BY <1>1
  <1> QED  BY <1>6, <1>9, <1>10

LEMMA TargetRoundTrip ==
    ASSUME NEW t \in Target
    PROVE  TargetOk(EncodeTarget(t)) /\ TargetOf(EncodeTarget(t)) = t
  <1>1. CASE t = NoTarget
    BY <1>1 DEF NoTarget, EncodeTarget, TargetOk, TargetOf
  <1>2. CASE t \in [present : {TRUE}, cc : Byte, ch : Byte]
    <2>1. t.present = TRUE /\ t = [present |-> TRUE, cc |-> t.cc, ch |-> t.ch]
      BY <1>2
    <2>2. EncodeTarget(t) = Object([cc |-> Number(t.cc), ch |-> Number(t.ch)])
      BY <2>1 DEF EncodeTarget
    <2>3. t.cc \in 0..255 /\ t.ch \in 0..255
      BY <1>2
    <2> QED  BY <2>1, <2>2, <2>3 DEF TargetOk, TargetOf
  <1> QED  BY <1>1, <1>2 DEF Target

(* Payloads and slots *)

LEMMA NoTextInTexts == NoText \in Texts /\ Cut \in [Texts -> Texts]
                       /\ \A t \in Texts : Cut[Cut[t]] = Cut[t]
  BY CodecAssumption

LEMMA NameRead ==
    ASSUME NEW name \in Name, NEW read \in [Texts -> Texts]
    PROVE  /\ name \in Texts
           /\ CutAfter(read)[name] = Cut[read[name]]
           /\ Cut[read[name]] \in Name
  <1>1. name \in Texts
    BY NoTextInTexts DEF Name
  <1> QED  BY <1>1 DEF CutAfter, Name

LEMMA EmptyName ==
    ASSUME NEW read \in [Texts -> Texts], read[NoText] = NoText
    PROVE  CutAfter(read)[NoText] = NoText
  BY CodecAssumption DEF CutAfter

LEMMA PayloadRoundTrip ==
    ASSUME NEW p \in Payload, NEW read \in [Texts -> Texts]
    PROVE  LET renamed == RenamedPayload(p, CutAfter(read))
           IN  /\ PayloadOk(EncodePayload(p, read))
               /\ PayloadOf(EncodePayload(p, read)) = renamed
               /\ renamed \in Payload
  <1> DEFINE json == EncodePayload(p, read)
             list == EncodeList(p.messages)
             target == EncodeTarget(p.expression)
             name == Cut[read[p.name]]
             renamed == RenamedPayload(p, CutAfter(read))
  <1>1. /\ p.name \in Name /\ p.messages \in MessageList /\ p.expression \in Target
        /\ p = [name |-> p.name, messages |-> p.messages, expression |-> p.expression]
    BY DEF Payload
  <1>2. /\ json.kind = "object"
        /\ Get(json, "name") = String(read[p.name])
        /\ Get(json, "messages") = list
        /\ Get(json, "expression") = target
    <2> HIDE DEF list, target
    <2> QED  BY DEF EncodePayload, list, target
  <1>3. ListOk(list) /\ ListOf(list) = p.messages
    BY <1>1, ListRoundTrip
  <1>4. TargetOk(target) /\ TargetOf(target) = p.expression
    BY <1>1, TargetRoundTrip
  <1>5. CutAfter(read)[p.name] = name /\ name \in Name
    BY <1>1, NameRead
  <1> HIDE DEF json, list, target, name, Get
  <1>6. renamed = [name |-> name, messages |-> p.messages, expression |-> p.expression]
    BY <1>1, <1>5 DEF RenamedPayload
  <1>7. NameOf(json) = name
    BY <1>2 DEF NameOf, name
  <1> HIDE DEF renamed
  <1>8. PayloadOk(json)
    BY <1>2, <1>3, <1>4 DEF PayloadOk
  <1>9. PayloadOf(json) = renamed
    BY <1>2, <1>3, <1>4, <1>6, <1>7 DEF PayloadOf
  <1>10. renamed \in Payload
    BY <1>1, <1>5, <1>6 DEF Payload
  <1> QED  BY <1>8, <1>9, <1>10 DEF json, renamed

LEMMA SlotRoundTrip ==
    ASSUME NEW s \in Slot, NEW read \in [Texts -> Texts], read[NoText] = NoText
    PROVE  LET renamed == RenamedSlot(s, CutAfter(read))
           IN  /\ SlotOk(EncodeSlot(s, read)) /\ SlotOf(EncodeSlot(s, read)) = renamed
               /\ renamed \in Slot
  <1> DEFINE json == EncodeSlot(s, read)
             payload == EncodePayload(s.primary, read)
             other == EncodePayload(s.alternative, read)
             first == RenamedPayload(s.primary, CutAfter(read))
             second == RenamedPayload(s.alternative, CutAfter(read))
             renamed == RenamedSlot(s, CutAfter(read))
  <1>1. /\ s.primary \in Payload
        /\ s = [primary |-> s.primary, has_alternative |-> s.has_alternative,
                alternative |-> s.alternative, alt_persistence |-> s.alt_persistence]
    BY DEF Slot
  <1>2. /\ Get(json, "name") = Get(payload, "name")
        /\ Get(json, "messages") = Get(payload, "messages")
        /\ Get(json, "expression") = Get(payload, "expression")
        /\ json.kind = "object" /\ payload.kind = "object"
    BY DEF EncodeSlot, EncodePayload
  <1>3. PayloadOk(payload) /\ PayloadOf(payload) = first /\ first \in Payload
    BY <1>1, PayloadRoundTrip
  <1>4. PayloadOk(json) /\ PayloadOf(json) = first
    <2> HIDE DEF json, payload, first, Get
    <2> QED  BY <1>2, <1>3 DEF PayloadOk, PayloadOf, NameOf
  <1>7. renamed = [primary |-> first, has_alternative |-> s.has_alternative,
                   alternative |-> second, alt_persistence |-> s.alt_persistence]
    <2>1. renamed = [s EXCEPT !.primary = first, !.alternative = second]
      BY Zenon DEF RenamedSlot
    <2> HIDE DEF renamed, first, second
    <2> QED  BY <1>1, <2>1
  <1>5. CASE s.has_alternative = TRUE
    <2>1. s.alternative \in Payload /\ s.alt_persistence \in {"permanent", "one_time"}
      <3>1. s \in [primary : Payload, has_alternative : {TRUE}, alternative : Payload,
                   alt_persistence : {"permanent", "one_time"}]
        BY <1>5 DEF Slot
      <3> QED  BY <3>1
    <2>2. /\ Get(json, "alternative") = other
          /\ Get(json, "alt_persistence") = String(s.alt_persistence)
          /\ other.kind = "object"
      BY <1>5 DEF EncodeSlot, WritesAlternative, EncodePayload
    <2>3. PayloadOk(other) /\ PayloadOf(other) = second /\ second \in Payload
      BY <2>1, PayloadRoundTrip
    <2> HIDE DEF json, payload, other, first, second, renamed, Get
    <2>4. HasAlternative(json) = TRUE
      BY <2>2 DEF HasAlternative
    <2>5. PersistenceOf(json) = s.alt_persistence
      BY <2>1, <2>2, <2>4 DEF PersistenceOf
    <2>6. SlotOk(json)
      BY <1>4, <2>2, <2>3 DEF SlotOk
    <2>7. SlotOf(json) = renamed
      BY <1>4, <1>5, <1>7, <2>2, <2>3, <2>4, <2>5 DEF SlotOf
    <2>8. renamed \in Slot
      BY <1>3, <1>5, <1>7, <2>1, <2>3 DEF Slot
    <2> QED  BY <2>6, <2>7, <2>8 DEF json, renamed
  <1>6. CASE s.has_alternative # TRUE
    <2>1. s.alternative = EmptyPayload /\ s.alt_persistence = "permanent"
          /\ s.has_alternative = FALSE
      <3>1. s \in [primary : Payload, has_alternative : {FALSE},
                   alternative : {EmptyPayload}, alt_persistence : {"permanent"}]
        BY <1>6 DEF Slot
      <3> QED  BY <3>1
    <2>2. Get(json, "alternative") = Null
      BY <2>1 DEF EncodeSlot, WritesAlternative, EncodePayload
    <2>7. second = EmptyPayload
      BY <2>1, EmptyName DEF RenamedPayload, EmptyPayload
    <2> HIDE DEF json, payload, other, first, second, renamed, Get
    <2>3. HasAlternative(json) = FALSE
      BY <2>2 DEF HasAlternative
    <2>4. PersistenceOf(json) = "permanent"
      BY <2>3 DEF PersistenceOf
    <2>5. SlotOk(json)
      BY <1>4, <2>3 DEF SlotOk
    <2>6. SlotOf(json) = renamed
      BY <1>4, <1>7, <2>1, <2>3, <2>4, <2>7 DEF SlotOf
    <2>8. renamed \in Slot
      BY <1>3, <1>7, <2>1, <2>7 DEF Slot
    <2> QED  BY <2>5, <2>6, <2>8 DEF json, renamed
  <1> QED  BY <1>5, <1>6

(* Banks, the global settings and the whole configuration *)

LEMMA BankRoundTrip ==
    ASSUME NEW b \in Bank, NEW read \in [Texts -> Texts], read[NoText] = NoText
    PROVE  /\ BankOk(EncodeBank(b, read))
           /\ BankOf(EncodeBank(b, read)) = RenamedBank(b, CutAfter(read))
  <1> DEFINE json == EncodeBank(b, read)
             items == EncodeSlots(b, read)
             target == EncodeTarget(b.expression_default)
             name == Cut[read[b.name]]
             renamed == [i \in 1..ProgramsPerBank |->
                            RenamedSlot(b.programs[i], CutAfter(read))]
  <1>1. /\ b.name \in Name /\ b.expression_default \in Target
        /\ b.programs \in [1..ProgramsPerBank -> Slot]
        /\ b = [name |-> b.name, expression_default |-> b.expression_default,
                programs |-> b.programs]
    BY DEF Bank
  <1>2. /\ Get(json, "name") = String(read[b.name])
        /\ Get(json, "expression_default") = target
        /\ Get(json, "programs") = Array(items)
    <2> HIDE DEF items, target
    <2> QED  BY DEF EncodeBank, BankWith, items, target
  <1>3. TargetOk(target) /\ TargetOf(target) = b.expression_default
    BY <1>1, TargetRoundTrip
  <1>4. Len(items) = ProgramsPerBank
    <2>1. items = [i \in 1..ProgramsPerBank |-> items[i]]
      BY DEF EncodeSlots
    <2> HIDE DEF items
    <2> QED  BY <2>1, Bounds, LenOfFunction
  <1>5. \A i \in 1..ProgramsPerBank : SlotOk(items[i]) /\ SlotOf(items[i]) = renamed[i]
    <2>1. \A i \in 1..ProgramsPerBank :
             /\ items[i] = EncodeSlot(b.programs[i], read)
             /\ renamed[i] = RenamedSlot(b.programs[i], CutAfter(read))
      BY DEF EncodeSlots
    <2> HIDE DEF items, renamed
    <2> QED  BY <1>1, <2>1, SlotRoundTrip
  <1>6. CutAfter(read)[b.name] = name
    BY <1>1, NameRead
  <1>7. RenamedBank(b, CutAfter(read)) =
           [name |-> name, expression_default |-> b.expression_default,
            programs |-> renamed]
    <2>1. RenamedBank(b, CutAfter(read)) = [b EXCEPT !.name = name, !.programs = renamed]
      BY <1>6, Zenon DEF RenamedBank
    <2> HIDE DEF name, renamed
    <2> QED  BY <1>1, <2>1
  <1>8. renamed = [i \in 1..ProgramsPerBank |-> renamed[i]]
    OBVIOUS
  <1> HIDE DEF json, items, target, name, renamed, Get
  <1>9. BankOk(json)
    BY <1>2, <1>3, <1>4, <1>5, Bounds DEF BankOk
  <1>10. NameOf(json) = name
    BY <1>2 DEF NameOf, name
  <1>11. \A i \in 1..ProgramsPerBank : i <= Len(items)
    BY <1>4, Bounds
  <1>12. BankOf(json).programs = [i \in 1..ProgramsPerBank |-> renamed[i]]
    BY <1>2, <1>5, <1>11 DEF BankOf
  <1>13. BankOf(json) = [name |-> name, expression_default |-> b.expression_default,
                         programs |-> renamed]
    BY <1>2, <1>3, <1>8, <1>10, <1>12 DEF BankOf
  <1> QED  BY <1>7, <1>9, <1>13 DEF json

LEMMA UserFunctionRoundTrip ==
    ASSUME NEW list \in MessageList
    PROVE  ListOf(EncodeUserFunction(list)) = list
  <1>1. CASE list = <<>>
    BY <1>1 DEF EncodeUserFunction, ListOf
  <1>2. CASE list # <<>>
    BY <1>2, ListRoundTrip DEF EncodeUserFunction
  <1> QED  BY <1>1, <1>2

LEMMA CastOfUint32 == \A n \in Uint32 : CastUint32[n] = n
  BY CodecAssumption

LEMMA GlobalRoundTrip ==
    ASSUME NEW g \in Global
    PROVE  GlobalOf(EncodeGlobal(g)) = g
  <1> DEFINE json == EncodeGlobal(g)
             expression == Object([adc_min |-> Number(g.expression.adc_min),
                                   adc_max |-> Number(g.expression.adc_max),
                                   curve |-> String(g.expression.curve),
                                   smoothing |-> Number(g.expression.smoothing)])
  <1> HIDE DEF Byte, Word
  <1>1. /\ g.midi_channel \in Byte
        /\ g.tuner_message \in Message /\ g.tap_message \in Message
        /\ g.user_function_a \in MessageList /\ g.user_function_b \in MessageList
        /\ g.long_press_short_ms \in Uint32 /\ g.long_press_long_ms \in Uint32
        /\ g.browse_timeout_ms \in Uint32 /\ g.boot_resume \in BOOLEAN
        /\ g.display_brightness \in Byte /\ g.led_brightness \in Byte
    BY GlobalFields
  <1>2. /\ g.expression.adc_min \in Word /\ g.expression.adc_max \in Word
        /\ g.expression.curve \in Curve
        /\ g.expression = [adc_min |-> g.expression.adc_min,
                           adc_max |-> g.expression.adc_max,
                           curve |-> g.expression.curve,
                           smoothing |-> g.expression.smoothing]
    BY GlobalFields
  <1>3. g = [midi_channel |-> g.midi_channel, tuner_message |-> g.tuner_message,
             tap_message |-> g.tap_message, user_function_a |-> g.user_function_a,
             user_function_b |-> g.user_function_b,
             long_press_short_ms |-> g.long_press_short_ms,
             long_press_long_ms |-> g.long_press_long_ms,
             browse_timeout_ms |-> g.browse_timeout_ms, boot_resume |-> g.boot_resume,
             display_brightness |-> g.display_brightness,
             led_brightness |-> g.led_brightness, expression |-> g.expression]
    BY GlobalFields
  <1>4. /\ Get(json, "midi_channel") = Number(g.midi_channel)
        /\ Get(json, "tuner_message") = EncodeMessage(g.tuner_message)
        /\ Get(json, "tap_message") = EncodeMessage(g.tap_message)
        /\ Get(json, "user_function_a") = EncodeUserFunction(g.user_function_a)
        /\ Get(json, "user_function_b") = EncodeUserFunction(g.user_function_b)
        /\ Get(json, "long_press_short_ms") = Number(g.long_press_short_ms)
        /\ Get(json, "long_press_long_ms") = Number(g.long_press_long_ms)
        /\ Get(json, "browse_timeout_ms") = Number(g.browse_timeout_ms)
        /\ Get(json, "boot_resume") = Bool(g.boot_resume)
        /\ Get(json, "display_brightness") = Number(g.display_brightness)
        /\ Get(json, "led_brightness") = Number(g.led_brightness)
        /\ Get(json, "expression") = expression
    <2> HIDE DEF expression
    <2> QED  BY DEF EncodeGlobal, expression
  <1>5. /\ Get(expression, "adc_min") = Number(g.expression.adc_min)
        /\ Get(expression, "adc_max") = Number(g.expression.adc_max)
        /\ Get(expression, "curve") = String(g.expression.curve)
        /\ Get(expression, "smoothing") = Number(g.expression.smoothing)
    OBVIOUS
  <1>6. \A n \in Byte : \A d : ByteOr(Number(n), d) = n
    BY DEF ByteOr, Byte
  <1>7. \A n \in Word : \A d : WordOr(Number(n), d) = n
    <2> SUFFICES ASSUME NEW n \in Word, NEW d  PROVE WordOr(Number(n), d) = n
      OBVIOUS
    <2>1. n \in Int /\ 0 <= n /\ n < 65536
      BY DEF Word
    <2> QED  BY <2>1, WordRemainder DEF WordOr
  <1>8. \A m \in Message : \A d : MessageOr(EncodeMessage(m), d) = m
    BY MessageRoundTrip DEF MessageOr
  <1>9. \A n \in Uint32 : \A d : Uint32Or(Number(n), d) = n
    BY CastOfUint32 DEF Uint32Or
  <1> HIDE DEF json, expression, Get
  <1>10. GlobalOf(json).expression = g.expression
    <2>1. GlobalOf(json).expression =
             [adc_min |-> WordOr(Number(g.expression.adc_min), 200),
              adc_max |-> WordOr(Number(g.expression.adc_max), 3900),
              curve |-> g.expression.curve, smoothing |-> g.expression.smoothing]
      BY <1>2, <1>4, <1>5 DEF GlobalOf, DefaultGlobal
    <2> QED  BY <1>2, <1>7, <2>1
  <1>11. /\ GlobalOf(json).boot_resume = g.boot_resume
         /\ GlobalOf(json).user_function_a = g.user_function_a
         /\ GlobalOf(json).user_function_b = g.user_function_b
    BY <1>1, <1>4, UserFunctionRoundTrip DEF GlobalOf
  <1>12. /\ GlobalOf(json).midi_channel = g.midi_channel
         /\ GlobalOf(json).display_brightness = g.display_brightness
         /\ GlobalOf(json).led_brightness = g.led_brightness
         /\ GlobalOf(json).tuner_message = g.tuner_message
         /\ GlobalOf(json).tap_message = g.tap_message
    <2> HIDE DEF Number
    <2> QED  BY <1>1, <1>4, <1>6, <1>8 DEF GlobalOf
  <1>13. /\ GlobalOf(json).long_press_short_ms = g.long_press_short_ms
         /\ GlobalOf(json).long_press_long_ms = g.long_press_long_ms
         /\ GlobalOf(json).browse_timeout_ms = g.browse_timeout_ms
    <2> HIDE DEF Number
    <2> QED  BY <1>1, <1>4, <1>9 DEF GlobalOf
  <1>14. GlobalOf(json) = [midi_channel |-> GlobalOf(json).midi_channel,
             tuner_message |-> GlobalOf(json).tuner_message,
             tap_message |-> GlobalOf(json).tap_message,
             user_function_a |-> GlobalOf(json).user_function_a,
             user_function_b |-> GlobalOf(json).user_function_b,
             long_press_short_ms |-> GlobalOf(json).long_press_short_ms,
             long_press_long_ms |-> GlobalOf(json).long_press_long_ms,
             browse_timeout_ms |-> GlobalOf(json).browse_timeout_ms,
             boot_resume |-> GlobalOf(json).boot_resume,
             display_brightness |-> GlobalOf(json).display_brightness,
             led_brightness |-> GlobalOf(json).led_brightness,
             expression |-> GlobalOf(json).expression]
    BY DEF GlobalOf
  <1> QED  BY ONLY <1>3, <1>10, <1>11, <1>12, <1>13, <1>14 DEF json

(* The positions of the banks that are kept *)

LEMMA NthMember ==
    ASSUME NEW n \in Nat, NEW S, S \subseteq 1..n, NEW k \in 1..Cardinality(S)
    PROVE  \E i \in S : Cardinality(S \cap 1..i) = k
  <1> DEFINE Count(i) == Cardinality(S \cap 1..i)
             T == {i \in 0..n : k <= Count(i)}
  <1>0. IsFiniteSet(S) /\ \A i : IsFiniteSet(S \cap 1..i)
    <2>1. IsFiniteSet(1..n)
      BY FS_Interval
    <2> QED  BY <2>1, FS_Subset
  <1>1. Cardinality(S) \in Nat /\ \A i : Count(i) \in Nat
    BY <1>0, FS_CardinalityType
  <1>k. k \in Nat /\ k <= Cardinality(S)
    BY <1>1
  <1>2. S \cap 1..n = S
    OBVIOUS
  <1>3. T \subseteq Nat /\ n \in T
    BY <1>1, <1>2
  <1>4. PICK i \in T : \A j \in T : i <= j
    BY <1>3, LeastNatural
  <1>5. Count(0) = 0
    <2>1. S \cap 1..0 = {}
      OBVIOUS
    <2> QED  BY <2>1, FS_EmptySet
  <1>6. i \in 1..n /\ k <= Count(i)
    <2>1. i # 0
      BY <1>1, <1>4, <1>5
    <2> QED  BY <1>4, <2>1
  <1>7. Count(i - 1) < k
    <2>1. ~(i - 1 \in T)
      BY <1>4, <1>6
    <2>2. i - 1 \in 0..n
      BY <1>6
    <2>3. Count(i - 1) \in Nat /\ ~(k <= Count(i - 1))
      BY <2>1, <2>2, <1>1
    <2> HIDE DEF Count
    <2> QED  BY <2>3, <1>k
  <1>c. Count(i) \in Nat /\ Count(i - 1) \in Nat
    BY <1>1
  <1>8. CASE i \in S
    <2>1. S \cap 1..i = (S \cap 1..(i - 1)) \cup {i} /\ ~(i \in S \cap 1..(i - 1))
      BY <1>6, <1>8
    <2>2. Count(i) = Count(i - 1) + 1
      BY <1>0, <2>1, FS_AddElement
    <2>3. Count(i) = k
      <3> HIDE DEF Count
      <3> QED  BY <1>c, <1>k, <1>6, <1>7, <2>2
    <2> QED  BY <1>8, <2>3
  <1>9. CASE ~(i \in S)
    <2>1. S \cap 1..i = S \cap 1..(i - 1)
      BY <1>6, <1>9
    <2>2. Count(i) = Count(i - 1)
      BY <2>1
    <2> HIDE DEF Count
    <2> QED  BY <2>2, <1>c, <1>k, <1>6, <1>7
  <1> QED  BY <1>8, <1>9

LEMMA OriginIsKept ==
    ASSUME NEW items, Len(items) \in Nat, NEW k \in 1..Cardinality(Kept(items))
    PROVE  /\ Origin(items, k) \in Kept(items)
           /\ Cardinality(Kept(items) \cap 1..Origin(items, k)) = k
  <1> DEFINE n == AtMost(Len(items), MaxBanks)
  <1>1. n \in Nat /\ Kept(items) \subseteq 1..n
    BY Bounds DEF Kept
  <1> HIDE DEF n
  <1>2. \E i \in Kept(items) : Cardinality(Kept(items) \cap 1..i) = k
    BY <1>1, NthMember
  <1> QED  BY <1>2 DEF Origin, Nth

(* A configuration that is encoded and decoded is the same except for names *)
(* that are not the same to who reads them, and these are cut again         *)
(* (config_store.c:30-351).                                                 *)
THEOREM ConfigRoundTrip ==
    ASSUME NEW c \in Config, NEW read \in [Texts -> Texts], read[NoText] = NoText
    PROVE  /\ ConfigOk(EncodeConfig(c, read))
           /\ ConfigOf(EncodeConfig(c, read)) = Renamed(c, CutAfter(read))
  <1> DEFINE json == EncodeConfig(c, read)
             n == Len(c.banks)
             items == [i \in 1..n |-> EncodeBank(c.banks[i], read)]
             global == EncodeGlobal(c.global)
             renamed == [k \in 1..n |-> RenamedBank(c.banks[k], CutAfter(read))]
  <1>1. /\ c.global \in Global /\ c.banks \in Seq(Bank) /\ n \in 1..MaxBanks
        /\ c = [global |-> c.global, banks |-> c.banks]
    BY DEF Config
  <1>2. n \in Nat \ {0} /\ n <= MaxBanks /\ c.banks \in [1..n -> Bank]
    BY <1>1, Bounds
  <1>3. /\ json.kind = "object"
        /\ Get(json, "global") = global
        /\ Get(json, "banks") = Array(items)
    <2> HIDE DEF items, global
    <2> QED  BY DEF EncodeConfig, ConfigWith, items, global
  <1>4. GlobalOf(global) = c.global
    BY <1>1, GlobalRoundTrip
  <1>5. \A i \in 1..n : items[i] = EncodeBank(c.banks[i], read)
    OBVIOUS
  <1>6. Len(items) = n
    <2>1. items = [i \in 1..n |-> items[i]]
      OBVIOUS
    <2> HIDE DEF items, n
    <2> QED  BY <1>2, <2>1, LenOfFunction
  <1>a. renamed = [k \in 1..n |-> renamed[k]]
    OBVIOUS
  <1>b. \A k \in 1..n : renamed[k] = RenamedBank(c.banks[k], CutAfter(read))
    OBVIOUS
  <1>d. Renamed(c, CutAfter(read)) = [global |-> c.global, banks |-> renamed]
    <2>1. Renamed(c, CutAfter(read)) = [c EXCEPT !.banks = renamed]
      BY Zenon DEF Renamed
    <2> HIDE DEF renamed
    <2> QED  BY <1>1, <2>1
  <1> HIDE DEF json, items, global, n, renamed, Get
  <1>7. \A i \in 1..n : BankOk(items[i]) /\ BankOf(items[i]) = renamed[i]
    BY <1>2, <1>5, <1>b, BankRoundTrip
  <1>8. Kept(items) = 1..n
    BY <1>2, <1>6, <1>7, Bounds DEF Kept
  <1>9. \A i \in 0..n : Cardinality(1..i) = i
    BY <1>2, FS_Interval
  <1>10. \A k \in 1..n : Origin(items, k) = k
    <2> SUFFICES ASSUME NEW k \in 1..n  PROVE Origin(items, k) = k
      OBVIOUS
    <2> DEFINE o == Origin(items, k)
    <2>1. k \in 1..Cardinality(Kept(items)) /\ Len(items) \in Nat
      BY <1>2, <1>6, <1>8, <1>9
    <2>2. o \in 1..n /\ Cardinality((1..n) \cap (1..o)) = k
      BY <1>8, <2>1, OriginIsKept
    <2> HIDE DEF o
    <2>3. (1..n) \cap (1..o) = 1..o
      BY <1>2, <2>2
    <2>4. Cardinality(1..o) = k
      BY <2>2, <2>3, Zenon
    <2>5. o \in 0..n
      BY <1>2, <2>2
    <2> QED  BY <1>9, <2>4, <2>5 DEF o
  <1>11. ConfigOf(json) = [global |-> c.global,
                           banks |-> [k \in 1..n |-> BankOf(items[Origin(items, k)])]]
    <2>1. Get(json, "banks").items = items
      BY <1>3
    <2>2. Cardinality(Kept(items)) = n
      BY <1>2, <1>8, <1>9
    <2>3. Kept(items) # {}
      <3>1. 1 \in 1..n
        BY <1>2
      <3> QED  BY <1>8, <3>1, Zenon
    <2>4. Get(json, "global") = global
      BY <1>3
    <2>5. ConfigOf(json) =
             [global |-> GlobalOf(global),
              banks |-> [k \in 1..Cardinality(Kept(items)) |->
                            BankOf(items[Origin(items, k)])]]
      BY <2>1, <2>3, <2>4, Zenon DEF ConfigOf
    <2> QED  BY <1>4, <2>2, <2>5
  <1>12. [k \in 1..n |-> BankOf(items[Origin(items, k)])] = renamed
    BY <1>2, <1>7, <1>10, <1>a
  <1>13. ConfigOf(json) = Renamed(c, CutAfter(read))
    BY <1>11, <1>12, <1>d
  <1>14. ConfigOk(json)
    BY <1>3 DEF ConfigOk
  <1> QED  BY <1>13, <1>14 DEF json

(* The firmware reads back its own names as they are. *)
LEMMA NothingRenamed ==
    ASSUME NEW c \in Config
    PROVE  /\ AsIs \in [Texts -> Texts] /\ AsIs[NoText] = NoText
           /\ Renamed(c, CutAfter(AsIs)) = c
  <1> DEFINE f == CutAfter(AsIs)
  <1>1. AsIs \in [Texts -> Texts] /\ AsIs[NoText] = NoText
    BY NoTextInTexts DEF AsIs
  <1>2. \A name \in Name : f[name] = name
    <2>1. \A name \in Name : name \in Texts /\ Cut[name] = name
      BY NoTextInTexts DEF Name
    <2> QED  BY <2>1 DEF CutAfter, AsIs
  <1> HIDE DEF f
  <1>3. ASSUME NEW p \in Payload  PROVE RenamedPayload(p, f) = p
    BY <1>2 DEF RenamedPayload, Payload
  <1>4. EmptyPayload \in Payload
    <2>1. NoText \in Name
      BY CodecAssumption DEF Name
    <2>2. <<>> \in MessageList
      BY Bounds DEF MessageList
    <2> QED  BY <2>1, <2>2 DEF EmptyPayload, Payload, Target
  <1>5. ASSUME NEW s \in Slot  PROVE RenamedSlot(s, f) = s
    <2>1. s.primary \in Payload /\ s.alternative \in Payload
      BY <1>4 DEF Slot
    <2>2. s = [primary |-> s.primary, has_alternative |-> s.has_alternative,
               alternative |-> s.alternative, alt_persistence |-> s.alt_persistence]
      BY DEF Slot
    <2>3. RenamedSlot(s, f) = [s EXCEPT !.primary = s.primary, !.alternative = s.alternative]
      BY <1>3, <2>1, Zenon DEF RenamedSlot
    <2> QED  BY <2>2, <2>3
  <1>6. ASSUME NEW b \in Bank  PROVE RenamedBank(b, f) = b
    <2>1. /\ b.name \in Name /\ b.programs \in [1..ProgramsPerBank -> Slot]
          /\ b = [name |-> b.name, expression_default |-> b.expression_default,
                  programs |-> b.programs]
      BY DEF Bank
    <2> DEFINE programs == [i \in 1..ProgramsPerBank |-> RenamedSlot(b.programs[i], f)]
    <2>2. programs = b.programs
      BY <1>5, <2>1
    <2>3. RenamedBank(b, f) = [b EXCEPT !.name = b.name, !.programs = programs]
      BY <1>2, <2>1, Zenon DEF RenamedBank
    <2> HIDE DEF programs
    <2> QED  BY <2>1, <2>2, <2>3
  <1>7. /\ Len(c.banks) \in Nat /\ c.banks \in [1..Len(c.banks) -> Bank]
        /\ c = [global |-> c.global, banks |-> c.banks]
    BY DEF Config
  <1> DEFINE banks == [k \in 1..Len(c.banks) |-> RenamedBank(c.banks[k], f)]
  <1>8. banks = c.banks
    BY <1>6, <1>7
  <1>9. Renamed(c, f) = [c EXCEPT !.banks = banks]
    BY Zenon DEF Renamed
  <1> HIDE DEF banks
  <1> QED  BY <1>1, <1>7, <1>8, <1>9 DEF f


-------------------------------------------------------------------------------
(* What decoding gives, for any JSON a page may hold *)
Value == Json \cup {Absent}

LEMMA Values ==
    ASSUME NEW json \in Value
    PROVE  /\ json.kind = "number" => json.num \in Numbers /\ json.num \in Int
           /\ json.kind = "string" => json.str \in Texts
           /\ json.kind = "bool" => json.bool \in BOOLEAN
           /\ json.kind = "array" => json.items \in Seq(Json)
           /\ \A name : Get(json, name) \in Value
  <1>1. CASE json = Absent
    BY <1>1 DEF Value
  <1>2. CASE json \in Json
    <2>1. /\ json.kind = "number" => json.num \in Numbers
          /\ json.kind = "string" => json.str \in Texts
          /\ json.kind = "bool" => json.bool \in BOOLEAN
          /\ json.kind = "array" => json.items \in Seq(Json)
          /\ json.kind = "object" => json.fields \in [DOMAIN json.fields -> Json]
      BY <1>2, JsonAssumption
    <2>2. Numbers \subseteq Int
      BY CodecAssumption
    <2>3. ASSUME NEW name  PROVE Get(json, name) \in Value
      BY ONLY <2>1 DEF Get, Value
    <2> QED  BY ONLY <2>1, <2>2, <2>3
  <1> QED  BY <1>1, <1>2 DEF Value

LEMMA MessageTyped ==
    ASSUME NEW json \in Value, MessageOk(json)
    PROVE  MessageOf(json) \in Message
  <1> HIDE DEF Get
  <1>1. /\ Get(json, "num").kind = "number" => Get(json, "num").num \in Int
        /\ Get(json, "ch").kind = "number" => Get(json, "ch").num \in Int
        /\ Get(json, "val").kind = "number" => Get(json, "val").num \in Int
    BY Values
  <1>2. \A n \in Int : n % 256 \in Byte
    OBVIOUS
  <1>3. CASE IsType(json, "PC")
    BY <1>1, <1>2, <1>3 DEF MessageOk, MessageOf, IsType, Message
  <1>4. CASE ~IsType(json, "PC")
    <2>1. Get(json, "type").str = "CC" /\ Get(json, "val").kind = "number"
      BY <1>4 DEF MessageOk, IsType
    <2> QED  BY <1>1, <1>2, <1>4, <2>1 DEF MessageOk, MessageOf, Message
  <1> QED  BY <1>3, <1>4

LEMMA ListTyped ==
    ASSUME NEW json \in Value
    PROVE  ListOf(json) \in MessageList
  <1>1. CASE json.kind # "array"
    <2>1. ListOf(json) = <<>>
      BY <1>1 DEF ListOf
    <2>2. <<>> \in Seq(Message) /\ Len(<<>>) = 0
      OBVIOUS
    <2> QED  BY <2>1, <2>2, Bounds DEF MessageList
  <1>2. CASE json.kind = "array"
    <2>1. json.items \in Seq(Json)
      BY <1>2, Values
    <2>2. Len(json.items) \in Nat
      BY <2>1
    <2>3. PICK count \in 0..ListLength(json) :
             /\ \A i \in 1..count : MessageOk(json.items[i])
             /\ ListOf(json) = [i \in 1..count |-> MessageOf(json.items[i])]
      BY <1>2, <2>2, ListOfArray
    <2>4. count \in Nat /\ count <= MaxMessages /\ count <= Len(json.items)
      BY <2>2, <2>3, Bounds DEF ListLength
    <2>5. \A i \in 1..count : MessageOf(json.items[i]) \in Message
      <3> SUFFICES ASSUME NEW i \in 1..count  PROVE MessageOf(json.items[i]) \in Message
        OBVIOUS
      <3>1. json.items[i] \in Value
        BY <2>1, <2>4 DEF Value
      <3> QED  BY <2>3, <3>1, MessageTyped
    <2> DEFINE list == ListOf(json)
    <2>6. list \in [1..count -> Message]
      BY <2>3, <2>5
    <2>7. list \in Seq(Message)
      BY <2>4, <2>6, SeqDef
    <2>8. Len(list) = count
      BY <2>4, <2>6, <2>7
    <2> QED  BY <2>4, <2>7, <2>8 DEF MessageList
  <1> QED  BY <1>1, <1>2

LEMMA TargetTyped ==
    ASSUME NEW json \in Value, TargetOk(json)
    PROVE  TargetOf(json) \in Target
  <1>1. CASE IsNone(json)
    BY <1>1 DEF TargetOf, Target
  <1>2. CASE ~IsNone(json)
    <2> HIDE DEF Get, IsNone
    <2>1. Get(json, "cc").num \in Int /\ Get(json, "ch").num \in Int
      BY <1>2, Values DEF TargetOk
    <2>2. \A n \in Int : n % 256 \in Byte
      OBVIOUS
    <2>3. TargetOf(json) = [present |-> TRUE, cc |-> Uint8(Get(json, "cc")),
                            ch |-> Uint8(Get(json, "ch"))]
      BY <1>2 DEF TargetOf
    <2> QED  BY <2>1, <2>2, <2>3 DEF Target
  <1> QED  BY <1>1, <1>2

LEMMA NameTyped ==
    ASSUME NEW json \in Value
    PROVE  NameOf(json) \in Name
  <1> HIDE DEF Get
  <1>1. Get(json, "name").kind = "string" => Get(json, "name").str \in Texts
    BY Values
  <1>2. NoText \in Name
    BY CodecAssumption DEF Name
  <1> QED  BY <1>1, <1>2 DEF NameOf, Name

LEMMA PayloadTyped ==
    ASSUME NEW json \in Value, PayloadOk(json)
    PROVE  PayloadOf(json) \in Payload
  <1> HIDE DEF Get
  <1>1. Get(json, "messages") \in Value /\ Get(json, "expression") \in Value
    BY Values
  <1>2. ListOf(Get(json, "messages")) \in MessageList
    BY <1>1, ListTyped
  <1>3. TargetOf(Get(json, "expression")) \in Target
    BY <1>1, TargetTyped DEF PayloadOk
  <1> QED  BY <1>2, <1>3, NameTyped DEF PayloadOf, Payload

LEMMA SlotTyped ==
    ASSUME NEW json \in Value, SlotOk(json)
    PROVE  SlotOf(json) \in Slot
  <1> HIDE DEF Get, IsNone
  <1>1. PayloadOf(json) \in Payload
    BY PayloadTyped DEF SlotOk
  <1>2. CASE HasAlternative(json) = TRUE
    <2>1. PayloadOf(Get(json, "alternative")) \in Payload
      BY <1>2, Values, PayloadTyped DEF SlotOk
    <2>2. PersistenceOf(json) \in {"permanent", "one_time"}
      BY DEF PersistenceOf
    <2> QED  BY <1>1, <1>2, <2>1, <2>2 DEF SlotOf, Slot
  <1>3. CASE HasAlternative(json) = FALSE
    BY <1>1, <1>3 DEF SlotOf, Slot, PersistenceOf
  <1> QED  BY <1>2, <1>3 DEF HasAlternative, IsNone

LEMMA DefaultGlobalFields ==
    /\ DefaultGlobal.midi_channel \in Byte
    /\ DefaultGlobal.tuner_message \in Message /\ DefaultGlobal.tap_message \in Message
    /\ DefaultGlobal.long_press_short_ms \in Uint32
    /\ DefaultGlobal.long_press_long_ms \in Uint32
    /\ DefaultGlobal.browse_timeout_ms \in Uint32
    /\ DefaultGlobal.boot_resume \in BOOLEAN
    /\ DefaultGlobal.display_brightness \in Byte /\ DefaultGlobal.led_brightness \in Byte
    /\ DefaultGlobal.expression \in [adc_min : Word, adc_max : Word, curve : Curve,
                                     smoothing : Numbers]
  <1>1. /\ DefaultGlobal.tuner_message \in [type : {"CC"}, num : Byte, val : Byte, ch : Byte]
        /\ DefaultGlobal.tap_message \in [type : {"CC"}, num : Byte, val : Byte, ch : Byte]
    BY DEF DefaultGlobal
  <1>2. 0..65535 \subseteq Numbers /\ {500, 1500, 10000} \subseteq Uint32
    BY CodecAssumption
  <1>3. DefaultGlobal.expression = [adc_min |-> 200, adc_max |-> 3900,
                                    curve |-> "linear", smoothing |-> 20]
    BY DEF DefaultGlobal
  <1>4. 20 \in Numbers
    BY <1>2
  <1>5. /\ DefaultGlobal.midi_channel = 1
        /\ DefaultGlobal.display_brightness = 200 /\ DefaultGlobal.led_brightness = 128
        /\ DefaultGlobal.long_press_short_ms = 500
        /\ DefaultGlobal.long_press_long_ms = 1500
        /\ DefaultGlobal.browse_timeout_ms = 10000
    BY DEF DefaultGlobal
  <1>6. DefaultGlobal.expression \in [adc_min : Word, adc_max : Word, curve : Curve,
                                      smoothing : Numbers]
    <2>1. 200 \in Word /\ 3900 \in Word /\ "linear" \in Curve
      BY DEF Curve
    <2> HIDE DEF Word
    <2> QED  BY <1>3, <1>4, <2>1
  <1>7. 1 \in Byte /\ 200 \in Byte /\ 128 \in Byte
    OBVIOUS
  <1>8. DefaultGlobal.tuner_message \in Message /\ DefaultGlobal.tap_message \in Message
    BY <1>1 DEF Message
  <1>9. DefaultGlobal.boot_resume \in BOOLEAN
    BY DEF DefaultGlobal
  <1>10. 500 \in Uint32 /\ 1500 \in Uint32 /\ 10000 \in Uint32
    BY <1>2
  <1> HIDE DEF Byte, Word
  <1>11. /\ DefaultGlobal.midi_channel \in Byte
         /\ DefaultGlobal.display_brightness \in Byte
         /\ DefaultGlobal.led_brightness \in Byte
    BY ONLY <1>5, <1>7
  <1>12. /\ DefaultGlobal.long_press_short_ms \in Uint32
         /\ DefaultGlobal.long_press_long_ms \in Uint32
         /\ DefaultGlobal.browse_timeout_ms \in Uint32
    BY ONLY <1>5, <1>10
  <1> QED  BY ONLY <1>6, <1>8, <1>9, <1>11, <1>12

LEMMA GlobalTyped ==
    ASSUME NEW json \in Value
    PROVE  GlobalOf(json) \in Global
  <1> HIDE DEF Get, Byte, Word, IsNone
  <1> DEFINE expr == Get(json, "expression")
             curve == Get(expr, "curve")
             smoothing == Get(expr, "smoothing")
             default == DefaultGlobal
  <1>1. ASSUME NEW j \in Value, NEW d \in Byte  PROVE ByteOr(j, d) \in Byte
    <2>1. \A n \in Int : n % 256 \in Byte
      BY DEF Byte
    <2> QED  BY <1>1, <2>1, Values DEF ByteOr
  <1>2. ASSUME NEW j \in Value, NEW d \in Word  PROVE WordOr(j, d) \in Word
    <2>1. \A n \in Int : n % 65536 \in Word
      BY DEF Word
    <2> QED  BY <1>2, <2>1, Values DEF WordOr
  <1>3. ASSUME NEW j \in Value, NEW d \in Message  PROVE MessageOr(j, d) \in Message
    BY <1>3, MessageTyped DEF MessageOr
  <1>4. ASSUME NEW j \in Value, NEW d \in Uint32  PROVE Uint32Or(j, d) \in Uint32
    <2>1. CastUint32 \in [Numbers -> Uint32]
      BY CodecAssumption
    <2>2. j.kind = "number" => j.num \in Numbers
      BY <1>4, Values
    <2> QED  BY <1>4, <2>1, <2>2 DEF Uint32Or
  <1>5. /\ expr \in Value /\ curve \in Value /\ smoothing \in Value
        /\ Get(expr, "adc_min") \in Value /\ Get(expr, "adc_max") \in Value
    <2>1. expr \in Value
      BY Values
    <2> HIDE DEF expr
    <2> QED  BY <2>1, Values
  <1>6. \A name : Get(json, name) \in Value
    BY Values
  <1>7. /\ default.midi_channel \in Byte
        /\ default.display_brightness \in Byte /\ default.led_brightness \in Byte
        /\ default.tuner_message \in Message /\ default.tap_message \in Message
        /\ default.boot_resume \in BOOLEAN
        /\ default.expression.adc_min \in Word /\ default.expression.adc_max \in Word
        /\ default.expression.curve \in Curve
    BY DefaultGlobalFields
  <1>8. /\ default.long_press_short_ms \in Uint32
        /\ default.long_press_long_ms \in Uint32
        /\ default.browse_timeout_ms \in Uint32
    BY DefaultGlobalFields
  <1>9. default.expression.smoothing \in Numbers
    BY DefaultGlobalFields
  <1> DEFINE expression ==
         [adc_min |-> WordOr(Get(expr, "adc_min"), default.expression.adc_min),
          adc_max |-> WordOr(Get(expr, "adc_max"), default.expression.adc_max),
          curve |-> IF curve.kind = "string" /\ curve.str \in Curve
                    THEN curve.str ELSE default.expression.curve,
          smoothing |-> IF smoothing.kind = "number" THEN smoothing.num
                        ELSE default.expression.smoothing]
  <1>10. expression \in [adc_min : Word, adc_max : Word, curve : Curve,
                         smoothing : Numbers]
    <2>1. smoothing.kind = "number" => smoothing.num \in Numbers
      BY <1>5, Values
    <2> HIDE DEF expr, curve, smoothing, default
    <2> QED  BY <1>2, <1>5, <1>7, <1>9, <2>1
  <1>11. ListOf(Get(json, "user_function_a")) \in MessageList
         /\ ListOf(Get(json, "user_function_b")) \in MessageList
    BY <1>6, ListTyped
  <1> DEFINE boot == IF Get(json, "boot_resume").kind = "bool"
                     THEN Get(json, "boot_resume").bool ELSE default.boot_resume
  <1>12. boot \in BOOLEAN
    BY <1>6, <1>7, Values
  <1>13. GlobalOf(json) =
            [midi_channel |-> ByteOr(Get(json, "midi_channel"), default.midi_channel),
             tuner_message |->
                 MessageOr(Get(json, "tuner_message"), default.tuner_message),
             tap_message |-> MessageOr(Get(json, "tap_message"), default.tap_message),
             user_function_a |-> ListOf(Get(json, "user_function_a")),
             user_function_b |-> ListOf(Get(json, "user_function_b")),
             long_press_short_ms |->
                 Uint32Or(Get(json, "long_press_short_ms"), default.long_press_short_ms),
             long_press_long_ms |->
                 Uint32Or(Get(json, "long_press_long_ms"), default.long_press_long_ms),
             browse_timeout_ms |->
                 Uint32Or(Get(json, "browse_timeout_ms"), default.browse_timeout_ms),
             boot_resume |-> boot,
             display_brightness |->
                 ByteOr(Get(json, "display_brightness"), default.display_brightness),
             led_brightness |->
                 ByteOr(Get(json, "led_brightness"), default.led_brightness),
             expression |-> expression]
    BY Zenon DEF GlobalOf
  <1> HIDE DEF expr, curve, smoothing, default, expression, boot
  <1> QED  BY <1>1, <1>3, <1>4, <1>6, <1>7, <1>8, <1>10, <1>11, <1>12, <1>13 DEF Global

(* A slot without anything is what the page adds where programs are missing. *)
LEMMA EmptyTyped ==
    /\ NoText \in Name
    /\ EmptyPayload \in Payload
    /\ EmptySlot \in Slot
    /\ EmptyBank \in Bank
    /\ DefaultGlobal \in Global
  <1>1. NoText \in Name
    BY CodecAssumption DEF Name
  <1>2. <<>> \in MessageList
    <2>1. <<>> \in Seq(Message) /\ Len(<<>>) = 0
      OBVIOUS
    <2> QED  BY <2>1, Bounds DEF MessageList
  <1>3. EmptyPayload \in Payload
    BY <1>1, <1>2 DEF EmptyPayload, Payload, Target
  <1>4. EmptySlot \in Slot
    BY <1>3 DEF EmptySlot, Slot
  <1>5. EmptyBank \in Bank
    BY <1>1, <1>4 DEF EmptyBank, Bank, Target
  <1>6. DefaultGlobal \in Global
    <2>1. /\ DefaultGlobal.user_function_a \in MessageList
          /\ DefaultGlobal.user_function_b \in MessageList
      BY <1>2 DEF DefaultGlobal
    <2>2. DefaultGlobal =
             [midi_channel |-> DefaultGlobal.midi_channel,
              tuner_message |-> DefaultGlobal.tuner_message,
              tap_message |-> DefaultGlobal.tap_message,
              user_function_a |-> DefaultGlobal.user_function_a,
              user_function_b |-> DefaultGlobal.user_function_b,
              long_press_short_ms |-> DefaultGlobal.long_press_short_ms,
              long_press_long_ms |-> DefaultGlobal.long_press_long_ms,
              browse_timeout_ms |-> DefaultGlobal.browse_timeout_ms,
              boot_resume |-> DefaultGlobal.boot_resume,
              display_brightness |-> DefaultGlobal.display_brightness,
              led_brightness |-> DefaultGlobal.led_brightness,
              expression |-> DefaultGlobal.expression]
      BY DEF DefaultGlobal
    <2> HIDE DEF DefaultGlobal, Byte, Word
    <2> QED  BY <2>1, <2>2, DefaultGlobalFields DEF Global
  <1> QED  BY <1>1, <1>3, <1>4, <1>5, <1>6

LEMMA OneBankTyped ==
    ASSUME NEW b \in Bank, NEW c \in Bank
    PROVE  <<b, c>> \in Seq(Bank) /\ Len(<<b, c>>) = 2
  OBVIOUS

LEMMA DefaultsTyped == Defaults \in Config
  <1>1. /\ Demo \in Name /\ DemoAlt \in Name
    <2>1. Cut[Demo] = Demo /\ Cut[DemoAlt] = DemoAlt /\ Demo \in Texts /\ DemoAlt \in Texts
      BY CodecAssumption
    <2> QED  BY <2>1 DEF Name
  <1>2. ASSUME NEW m \in Message  PROVE <<m>> \in MessageList
    <2>1. <<m>> \in Seq(Message) /\ Len(<<m>>) = 1
      OBVIOUS
    <2> QED  BY <2>1, Bounds DEF MessageList
  <1>3. DemoSlot \in Slot
    <2>1. /\ [type |-> "PC", num |-> 10, val |-> 0, ch |-> 1] \in Message
          /\ [type |-> "PC", num |-> 11, val |-> 0, ch |-> 1] \in Message
      BY DEF Message
    <2> DEFINE first == <<[type |-> "PC", num |-> 10, val |-> 0, ch |-> 1]>>
               second == <<[type |-> "PC", num |-> 11, val |-> 0, ch |-> 1]>>
    <2>2. first \in MessageList /\ second \in MessageList
      BY <1>2, <2>1
    <2> HIDE DEF first, second
    <2>3. /\ [EmptyPayload EXCEPT !.name = Demo, !.messages = first] \in Payload
          /\ [EmptyPayload EXCEPT !.name = DemoAlt, !.messages = second] \in Payload
      BY <1>1, <2>2, EmptyTyped DEF Payload
    <2> QED  BY <2>3 DEF DemoSlot, Slot, first, second
  <1>4. [EmptyBank EXCEPT !.programs[1] = DemoSlot] \in Bank
    BY <1>3, EmptyTyped DEF Bank
  <1>5. Defaults.banks \in Seq(Bank) /\ Len(Defaults.banks) = 2
    BY <1>4, EmptyTyped, OneBankTyped DEF Defaults
  <1>6. Defaults.global \in Global
    BY EmptyTyped DEF Defaults
  <1>7. Defaults = [global |-> Defaults.global, banks |-> Defaults.banks]
    BY DEF Defaults
  <1>8. Defaults.banks \in {banks \in Seq(Bank) : Len(banks) \in 1..MaxBanks}
    <2>1. 2 \in 1..MaxBanks
      BY Bounds
    <2> QED  BY ONLY <1>5, <2>1
  <1> QED  BY ONLY <1>6, <1>7, <1>8 DEF Config

-------------------------------------------------------------------------------
(* Lists *)
IsList(s) == Len(s) \in Nat /\ s = [i \in 1..Len(s) |-> s[i]]

LEMMA FunctionIsList ==
    ASSUME NEW n \in Nat, NEW f, f = [i \in 1..n |-> f[i]]
    PROVE  IsList(f) /\ Len(f) = n /\ DOMAIN f = 1..n
  BY LenOfFunction DEF IsList

LEMMA ListDomain ==
    ASSUME NEW s, IsList(s)
    PROVE  Len(s) \in Nat /\ DOMAIN s = 1..Len(s)
  <1>1. DOMAIN [i \in 1..Len(s) |-> s[i]] = 1..Len(s)
    OBVIOUS
  <1> QED  BY ONLY <1>1, IsList(s), Zenon DEF IsList

LEMMA SeqIsList ==
    ASSUME NEW S, NEW s \in Seq(S)
    PROVE  IsList(s) /\ Len(s) \in Nat /\ DOMAIN s = 1..Len(s)
           /\ \A i \in 1..Len(s) : s[i] \in S
  <1>1. /\ Len(s) \in Nat /\ s \in [1..Len(s) -> S]
        /\ DOMAIN s = 1..Len(s)
    BY LenProperties
  <1>2. s = [i \in 1..Len(s) |-> s[i]]
    BY <1>1
  <1> QED  BY <1>1, <1>2 DEF IsList

LEMMA ListIsSeq ==
    ASSUME NEW s, IsList(s), NEW S, \A i \in 1..Len(s) : s[i] \in S
    PROVE  s \in Seq(S)
  <1> DEFINE n == Len(s)
  <1>1. n \in Nat /\ s = [i \in 1..n |-> s[i]] /\ \A i \in 1..n : s[i] \in S
    BY DEF IsList
  <1> HIDE DEF n
  <1>2. s \in [1..n -> S]
    BY <1>1
  <1> QED  BY <1>1, <1>2, SeqDef

LEMMA AppendToList ==
    ASSUME NEW s, IsList(s), NEW e
    PROVE  /\ IsList(Append(s, e))
           /\ Len(Append(s, e)) = Len(s) + 1
           /\ \A i \in 1..Len(s) : Append(s, e)[i] = s[i]
           /\ Append(s, e)[Len(s) + 1] = e
  <1> DEFINE S == {s[i] : i \in 1..Len(s)} \cup {e}
  <1>1. s \in Seq(S)
    BY ListIsSeq
  <1>2. e \in S
    OBVIOUS
  <1> HIDE DEF S
  <1>3. /\ Append(s, e) \in Seq(S)
        /\ Len(Append(s, e)) = Len(s) + 1
        /\ \A i \in 1..Len(s) : Append(s, e)[i] = s[i]
        /\ Append(s, e)[Len(s) + 1] = e
    BY <1>1, <1>2, AppendProperties
  <1> QED  BY <1>3, SeqIsList

LEMMA WithoutInSeq ==
    ASSUME NEW S, NEW s \in Seq(S), NEW k \in 1..Len(s)
    PROVE  /\ WithoutIndex(s, k) \in Seq(S)
           /\ Len(WithoutIndex(s, k)) = Len(s) - 1
           /\ \A i \in 1..(Len(s) - 1) :
                 WithoutIndex(s, k)[i] = IF i < k THEN s[i] ELSE s[i + 1]
  <1> DEFINE n == Len(s)
             head == SubSeq(s, 1, k - 1)
             tail == SubSeq(s, k + 1, n)
  <1>1. n \in Nat /\ k \in 1..n
    OBVIOUS
  <1>2. /\ head \in Seq(S) /\ Len(head) = k - 1
        /\ \A i \in 1..(k - 1) : head[i] = s[i]
    BY <1>1, SubSeqProperties
  <1>3. /\ tail \in Seq(S) /\ Len(tail) = n - k
        /\ \A i \in 1..(n - k) : tail[i] = s[k + i]
    <2>1. IF k + 1 <= n + 1 THEN TRUE ELSE FALSE
      BY <1>1
    <2> QED  BY <1>1, SubSeqProperties
  <1> HIDE DEF head, tail
  <1>4. /\ head \o tail \in Seq(S)
        /\ Len(head \o tail) = Len(head) + Len(tail)
        /\ \A i \in 1..(Len(head) + Len(tail)) : (head \o tail)[i] =
              IF i <= Len(head) THEN head[i] ELSE tail[i - Len(head)]
    BY <1>2, <1>3, ConcatProperties
  <1>5. WithoutIndex(s, k) = head \o tail
    BY DEF WithoutIndex, head, tail
  <1>6. Len(head) + Len(tail) = n - 1
    BY <1>1, <1>2, <1>3
  <1>7. ASSUME NEW i \in 1..(n - 1)
        PROVE  (head \o tail)[i] = IF i < k THEN s[i] ELSE s[i + 1]
    <2>1. CASE i < k
      <3>1. i <= Len(head) /\ i \in 1..(k - 1)
        BY <1>1, <1>2, <2>1
      <3> QED  BY <1>2, <1>4, <1>6, <2>1, <3>1
    <2>2. CASE ~(i < k)
      <3>1. ~(i <= Len(head)) /\ i - Len(head) \in 1..(n - k)
            /\ k + (i - Len(head)) = i + 1
        BY <1>1, <1>2, <2>2
      <3>2. tail[i - Len(head)] = s[i + 1]
        BY <1>3, <3>1
      <3> QED  BY <1>4, <1>6, <2>2, <3>1, <3>2
    <2> QED  BY <2>1, <2>2
  <1> QED  BY <1>4, <1>5, <1>6, <1>7

LEMMA WithoutInList ==
    ASSUME NEW s, IsList(s), NEW k \in 1..Len(s)
    PROVE  /\ IsList(WithoutIndex(s, k))
           /\ Len(WithoutIndex(s, k)) = Len(s) - 1
           /\ \A i \in 1..(Len(s) - 1) :
                 WithoutIndex(s, k)[i] = IF i < k THEN s[i] ELSE s[i + 1]
  <1> DEFINE S == {s[i] : i \in 1..Len(s)}
  <1>1. s \in Seq(S)
    BY ListIsSeq
  <1> HIDE DEF S
  <1> QED  BY <1>1, WithoutInSeq, SeqIsList

-------------------------------------------------------------------------------
(* Documents whose configuration is one the firmware can hold *)
GoodSlot(json) == SlotOk(json) => SlotOf(json) \in Slot

GoodBank(json) ==
    /\ json = Object(json.fields)
    /\ NameOf(json) \in Name
    /\ TargetOk(Get(json, "expression_default")) =>
          TargetOf(Get(json, "expression_default")) \in Target
    /\ Get(json, "programs").kind = "array"
    /\ IsList(Get(json, "programs").items)
    /\ \A i \in 1..Len(Get(json, "programs").items) :
          GoodSlot(Get(json, "programs").items[i])

GoodBanks(items) == IsList(items) /\ \A k \in 1..Len(items) : GoodBank(items[k])

GoodDoc(json) ==
    /\ json = Object(json.fields)
    /\ Get(json, "banks").kind = "array"
    /\ GoodBanks(Banks(json))
    /\ GlobalOf(Get(json, "global")) \in Global

LEMMA BankTyped ==
    ASSUME NEW json, GoodBank(json), BankOk(json)
    PROVE  BankOf(json) \in Bank
  <1> DEFINE programs == Get(json, "programs").items
  <1>1. Len(programs) \in Nat
    BY ListDomain DEF GoodBank
  <1>2. /\ TargetOf(Get(json, "expression_default")) \in Target
        /\ NameOf(json) \in Name
    BY DEF GoodBank, BankOk
  <1>3. /\ \A i \in 1..Len(programs) : SlotOk(programs[i]) => SlotOf(programs[i]) \in Slot
        /\ \A i \in 1..AtMost(Len(programs), ProgramsPerBank) : SlotOk(programs[i])
    BY DEF GoodBank, GoodSlot, BankOk
  <1> HIDE DEF programs, Get
  <1>4. ASSUME NEW i \in 1..ProgramsPerBank
        PROVE  (IF i <= Len(programs) THEN SlotOf(programs[i]) ELSE EmptySlot) \in Slot
    <2>1. CASE i <= Len(programs)
      <3>1. i \in 1..Len(programs) /\ i \in 1..AtMost(Len(programs), ProgramsPerBank)
        BY <1>1, <2>1, Bounds
      <3> QED  BY <1>3, <2>1, <3>1
    <2>2. CASE ~(i <= Len(programs))
      BY <2>2, EmptyTyped
    <2> QED  BY <2>1, <2>2
  <1>5. BankOf(json) =
           [name |-> NameOf(json),
            expression_default |-> TargetOf(Get(json, "expression_default")),
            programs |-> [i \in 1..ProgramsPerBank |->
                IF i <= Len(programs) THEN SlotOf(programs[i]) ELSE EmptySlot]]
    BY DEF BankOf, programs
  <1> QED  BY <1>2, <1>4, <1>5 DEF Bank

(* Whatever is posted, the firmware ends up with a configuration that it    *)
(* can hold (config_store.c:322-351).                                       *)
LEMMA ConfigTyped ==
    ASSUME NEW json, GoodDoc(json)
    PROVE  ConfigOf(json) \in Config
  <1> DEFINE items == Get(json, "banks").items
             n == Cardinality(Kept(items))
  <1>1. IsList(items) /\ \A k \in 1..Len(items) : GoodBank(items[k])
    BY DEF GoodDoc, GoodBanks, Banks
  <1>2. Len(items) \in Nat
    BY <1>1, ListDomain
  <1>3. GlobalOf(Get(json, "global")) \in Global
    BY DEF GoodDoc
  <1> HIDE DEF items, Get
  <1>4. CASE Kept(items) = {}
    BY <1>4, DefaultsTyped DEF ConfigOf, items
  <1>5. CASE Kept(items) # {}
    <2>1. /\ IsFiniteSet(Kept(items)) /\ n \in Nat /\ n <= MaxBanks /\ n # 0
      <3>1. Kept(items) \subseteq 1..MaxBanks /\ IsFiniteSet(1..MaxBanks)
            /\ Cardinality(1..MaxBanks) = MaxBanks
        <4>1. Kept(items) \subseteq 1..MaxBanks
          BY <1>2, Bounds DEF Kept
        <4> QED  BY <4>1, Bounds, FS_Interval
      <3>2. IsFiniteSet(Kept(items)) /\ n <= MaxBanks
        BY <3>1, FS_Subset
      <3> QED  BY <1>5, <3>2, FS_CardinalityType, FS_EmptySet
    <2>2. ASSUME NEW k \in 1..n  PROVE BankOf(items[Origin(items, k)]) \in Bank
      <3> DEFINE i == Origin(items, k)
      <3>1. i \in Kept(items)
        BY <1>2, OriginIsKept
      <3> HIDE DEF i
      <3>2. i \in 1..Len(items) /\ BankOk(items[i])
        BY <1>2, <3>1, Bounds DEF Kept
      <3>3. BankOf(items[i]) \in Bank
        BY <1>1, <3>2, BankTyped
      <3> QED  BY <3>3 DEF i
    <2> DEFINE banks == [k \in 1..n |-> BankOf(items[Origin(items, k)])]
    <2>3. banks \in [1..n -> Bank]
      BY <2>2
    <2>4. ConfigOf(json) = [global |-> GlobalOf(Get(json, "global")), banks |-> banks]
      BY <1>5, Zenon DEF ConfigOf, items
    <2> HIDE DEF banks, n
    <2>5. banks \in Seq(Bank) /\ Len(banks) = n
      <3>1. banks \in Seq(Bank)
        BY <2>1, <2>3, SeqDef
      <3> QED  BY <2>1, <2>3, <3>1, LenProperties
    <2>6. banks \in {list \in Seq(Bank) : Len(list) \in 1..MaxBanks}
      BY <2>1, <2>5, Bounds
    <2> QED  BY <1>3, <2>4, <2>6 DEF Config
  <1> QED  BY <1>4, <1>5

-------------------------------------------------------------------------------
(* What the page does to documents *)
LEMMA FieldsOf ==
    ASSUME NEW json, json = Object(json.fields), NEW name, NEW value
    PROVE  LET new == WithField(json, name, value)
           IN  /\ new = Object(new.fields)
               /\ Get(new, name) = value
               /\ \A other : other # name => Get(new, other) = Get(json, other)
  <1> DEFINE fields == json.fields
             new == WithField(json, name, value)
             more == [x \in DOMAIN fields \cup {name} |->
                         IF x = name THEN value ELSE fields[x]]
  <1>1. json = [kind |-> "object", fields |-> fields]
    OBVIOUS
  <1>2. new = [kind |-> "object", fields |-> more]
    <2>1. new = [json EXCEPT !.fields = more]
      BY DEF WithField
    <2> HIDE DEF more, new, fields
    <2> QED  BY <1>1, <2>1
  <1>3. json.kind = "object" /\ new.kind = "object" /\ new.fields = more
    BY <1>1, <1>2
  <1>4. /\ DOMAIN more = DOMAIN fields \cup {name}
        /\ more[name] = value
        /\ \A x \in DOMAIN fields : x # name => more[x] = fields[x]
    OBVIOUS
  <1> HIDE DEF more, new
  <1>5. new = Object(new.fields) /\ Get(new, name) = value
    BY <1>2, <1>3, <1>4
  <1>6. ASSUME NEW other, other # name  PROVE Get(new, other) = Get(json, other)
    BY <1>3, <1>4, <1>6
  <1> QED  BY <1>5, <1>6 DEF new

LEMMA NewSlotIsEmpty ==
    SlotOk(NewSlot) /\ SlotOf(NewSlot) = EmptySlot /\ GoodSlot(NewSlot)
  <1>0. AsIs \in [Texts -> Texts] /\ AsIs[NoText] = NoText
    BY NoTextInTexts DEF AsIs
  <1>1. NewSlot = EncodeSlot(EmptySlot, AsIs)
    <2>1. EncodeList(<<>>) = Array(<<>>)
      <3>1. [i \in 1..0 |-> EncodeMessage(<<>>[i])] = <<>>
        OBVIOUS
      <3> QED  BY <3>1 DEF EncodeList
    <2>2. EncodePayload(EmptyPayload, AsIs) =
             Object([name |-> String(NoText), messages |-> Array(<<>>),
                     expression |-> Null])
      BY <1>0, <2>1 DEF EncodePayload, EmptyPayload, EncodeTarget, NoTarget
    <2> QED  BY <2>2 DEF EncodeSlot, EmptySlot, WritesAlternative, NewSlot
  <1>2. RenamedSlot(EmptySlot, CutAfter(AsIs)) = EmptySlot
    <2>1. CutAfter(AsIs)[NoText] = NoText
      BY <1>0, EmptyName
    <2>2. RenamedPayload(EmptyPayload, CutAfter(AsIs)) = EmptyPayload
      BY <2>1 DEF RenamedPayload, EmptyPayload
    <2> DEFINE s == EmptySlot
    <2>3. /\ s.primary = EmptyPayload /\ s.alternative = EmptyPayload
          /\ s = [primary |-> s.primary, has_alternative |-> s.has_alternative,
                  alternative |-> s.alternative, alt_persistence |-> s.alt_persistence]
      BY DEF EmptySlot
    <2> HIDE DEF s
    <2>4. RenamedSlot(s, CutAfter(AsIs))
             = [s EXCEPT !.primary = s.primary, !.alternative = s.alternative]
      BY <2>2, <2>3, Zenon DEF RenamedSlot
    <2>5. RenamedSlot(s, CutAfter(AsIs)) = s
      BY <2>3, <2>4
    <2> QED  BY <2>5 DEF s
  <1> QED  BY <1>0, <1>1, <1>2, EmptyTyped, SlotRoundTrip DEF GoodSlot

LEMMA PageProgramsBounds == PagePrograms \in Nat /\ ProgramsPerBank <= PagePrograms
  BY EditorsAssumption, Bounds

LEMMA NewBankIsGood == GoodBank(NewBank)
  <1> DEFINE programs == [i \in 1..PagePrograms |-> NewSlot]
  <1>1. IsList(programs) /\ Len(programs) = PagePrograms
    <2>1. programs = [i \in 1..PagePrograms |-> programs[i]]
      OBVIOUS
    <2> HIDE DEF programs
    <2> QED  BY <2>1, PageProgramsBounds, FunctionIsList
  <1>2. \A i \in 1..PagePrograms : GoodSlot(programs[i])
    BY NewSlotIsEmpty
  <1> HIDE DEF programs
  <1>3. /\ NewBank = Object([name |-> String(NoText), expression_default |-> Null,
                             programs |-> Array(programs)])
    BY DEF NewBank, programs
  <1>4. /\ Get(NewBank, "name") = String(NoText)
        /\ Get(NewBank, "expression_default") = Null
        /\ Get(NewBank, "programs") = Array(programs)
        /\ NewBank = Object(NewBank.fields)
    BY <1>3
  <1>5. NameOf(NewBank) \in Name
    <2>1. NameOf(NewBank) = Cut[NoText]
      BY <1>4 DEF NameOf
    <2> QED  BY <2>1, CodecAssumption DEF Name
  <1>6. TargetOf(Null) \in Target
    BY DEF TargetOf, Target
  <1> HIDE DEF Get, Object, Null
  <1> QED  BY <1>1, <1>2, <1>4, <1>5, <1>6 DEF GoodBank

(* A bank that the page can show and send is good, whatever is in it.       *)
LEMMA ShownBankIsGood ==
    ASSUME NEW json \in Json, IsBank(json)
    PROVE  GoodBank(json)
  <1>1. json = Object(json.fields)
    BY JsonAssumption DEF IsBank
  <1>2. json \in Value
    BY DEF Value
  <1> HIDE DEF Get, Object
  <1>3. /\ Get(json, "programs") \in Value /\ Get(json, "expression_default") \in Value
        /\ Get(json, "programs").kind = "array"
    BY <1>2, Values DEF IsBank
  <1>4. Get(json, "programs").items \in Seq(Json)
    BY <1>3, Values
  <1>5. /\ IsList(Get(json, "programs").items)
        /\ \A i \in 1..Len(Get(json, "programs").items) :
              Get(json, "programs").items[i] \in Json
    BY <1>4, SeqIsList
  <1>6. \A slot \in Json : GoodSlot(slot)
    BY SlotTyped DEF GoodSlot, Value
  <1>7. NameOf(json) \in Name
    BY <1>2, NameTyped
  <1>8. TargetOk(Get(json, "expression_default")) =>
           TargetOf(Get(json, "expression_default")) \in Target
    BY <1>3, TargetTyped
  <1> QED  BY <1>1, <1>3, <1>5, <1>6, <1>7, <1>8 DEF GoodBank

LEMMA ImportIsGood ==
    ASSUME NEW doc \in Imports
    PROVE  /\ GoodDoc(doc)
           /\ Get(doc, "global").kind = "object" =>
                 Get(doc, "global") = Object(Get(doc, "global").fields)
  <1>1. /\ doc \in Json /\ doc.kind = "object" /\ Get(doc, "banks").kind = "array"
        /\ \A k \in DOMAIN Get(doc, "banks").items : IsBank(Get(doc, "banks").items[k])
    BY EditorsAssumption
  <1>2. doc \in Value /\ doc = Object(doc.fields)
    BY <1>1, JsonAssumption DEF Value
  <1>3. Get(doc, "global") \in Value /\ Get(doc, "banks") \in Value
    BY <1>2, Values
  <1> HIDE DEF Get
  <1>4. Get(doc, "banks").items \in Seq(Json)
    BY <1>1, <1>3, Values
  <1>5. /\ IsList(Get(doc, "banks").items)
        /\ DOMAIN Get(doc, "banks").items = 1..Len(Get(doc, "banks").items)
        /\ \A k \in 1..Len(Get(doc, "banks").items) : Get(doc, "banks").items[k] \in Json
    BY <1>4, SeqIsList
  <1>6. GoodBanks(Banks(doc))
    BY <1>1, <1>5, ShownBankIsGood DEF GoodBanks, Banks
  <1>7. GlobalOf(Get(doc, "global")) \in Global
    BY <1>3, GlobalTyped
  <1>8. Get(doc, "global").kind = "object" =>
           Get(doc, "global") = Object(Get(doc, "global").fields)
    BY <1>3, JsonAssumption DEF Value
  <1> HIDE DEF Object
  <1> QED  BY <1>1, <1>2, <1>6, <1>7, <1>8 DEF GoodDoc

LEMMA WithBanksIsGood ==
    ASSUME NEW doc, GoodDoc(doc), NEW banks, GoodBanks(banks)
    PROVE  GoodDoc(WithBanks(doc, banks)) /\ Banks(WithBanks(doc, banks)) = banks
           /\ Get(WithBanks(doc, banks), "global") = Get(doc, "global")
  <1> DEFINE new == WithBanks(doc, banks)
  <1>1. /\ new = Object(new.fields) /\ Get(new, "banks") = Array(banks)
        /\ Get(new, "global") = Get(doc, "global")
    <2> HIDE DEF Object, Get, Array
    <2> QED  BY FieldsOf DEF WithBanks, GoodDoc
  <1>2. Array(banks).kind = "array" /\ Array(banks).items = banks
    OBVIOUS
  <1> HIDE DEF new, Get, Object, Array
  <1> QED  BY <1>1, <1>2 DEF GoodDoc, Banks, new

(* What the firmware makes of a document depends on the banks it keeps and  *)
(* on the global settings.                                                  *)
LEMMA SameConfig ==
    ASSUME NEW doc, NEW other, Len(Banks(doc)) \in Nat,
           Kept(Banks(other)) = Kept(Banks(doc)),
           \A i \in Kept(Banks(doc)) : BankOf(Banks(other)[i]) = BankOf(Banks(doc)[i]),
           GlobalOf(Get(other, "global")) = GlobalOf(Get(doc, "global"))
    PROVE  ConfigOf(other) = ConfigOf(doc)
  <1> DEFINE kept == Kept(Banks(doc))
             n == Cardinality(kept)
  <1>1. \A k : Origin(Banks(other), k) = Origin(Banks(doc), k)
    BY Zenon DEF Origin
  <1>2. ASSUME NEW k \in 1..n
        PROVE  BankOf(Banks(other)[Origin(Banks(other), k)])
                  = BankOf(Banks(doc)[Origin(Banks(doc), k)])
    <2>1. Origin(Banks(doc), k) \in kept
      BY OriginIsKept
    <2> HIDE DEF kept
    <2> QED  BY <1>1, <2>1 DEF kept
  <1>3. [k \in 1..n |-> BankOf(Banks(other)[Origin(Banks(other), k)])]
           = [k \in 1..n |-> BankOf(Banks(doc)[Origin(Banks(doc), k)])]
    BY <1>2, Zenon
  <1>4. CASE kept = {}
    BY <1>4, Zenon DEF ConfigOf, Banks
  <1>5. CASE kept # {}
    <2>1. /\ ConfigOf(doc) =
                [global |-> GlobalOf(Get(doc, "global")),
                 banks |-> [k \in 1..n |-> BankOf(Banks(doc)[Origin(Banks(doc), k)])]]
          /\ ConfigOf(other) =
                [global |-> GlobalOf(Get(other, "global")),
                 banks |-> [k \in 1..n |->
                               BankOf(Banks(other)[Origin(Banks(other), k)])]]
      BY <1>5, Zenon DEF ConfigOf, Banks
    <2> HIDE DEF n, kept, Get
    <2> QED  BY <1>3, <2>1, Zenon
  <1> QED  BY <1>4, <1>5

LEMMA PaddedBank ==
    ASSUME NEW json, GoodBank(json)
    PROVE  /\ GoodBank(Padded(json))
           /\ BankOk(Padded(json)) <=> BankOk(json)
           /\ BankOf(Padded(json)) = BankOf(json)
  <1> DEFINE new == Padded(json)
             old == Get(json, "programs").items
             programs == [i \in 1..PagePrograms |->
                             IF i <= Len(old) THEN old[i] ELSE NewSlot]
  <1>1. new = WithField(json, "programs", Array(programs))
    BY Zenon DEF Padded
  <1>2. /\ new = Object(new.fields)
        /\ Get(new, "programs") = Array(programs)
        /\ Get(new, "name") = Get(json, "name")
        /\ Get(new, "expression_default") = Get(json, "expression_default")
    <2> HIDE DEF new, programs, Get, Object, Array
    <2> QED  BY <1>1, FieldsOf DEF GoodBank
  <1>3. /\ Get(new, "programs").kind = "array"
        /\ Get(new, "programs").items = programs
    <2> HIDE DEF new, programs, Get
    <2> QED  BY <1>2
  <1>4. IsList(programs) /\ Len(programs) = PagePrograms
    <2>1. programs = [i \in 1..PagePrograms |-> programs[i]]
      OBVIOUS
    <2> HIDE DEF programs
    <2> QED  BY <2>1, PageProgramsBounds, FunctionIsList
  <1>5. /\ Len(old) \in Nat /\ Get(json, "programs").kind = "array"
        /\ \A i \in 1..Len(old) : GoodSlot(old[i])
    BY ListDomain DEF GoodBank
  <1>6. \A i \in 1..PagePrograms :
           programs[i] = IF i <= Len(old) THEN old[i] ELSE NewSlot
    OBVIOUS
  <1> HIDE DEF new, old, programs, Get, Object, Array
  <1>7. \A i \in 1..PagePrograms : GoodSlot(programs[i])
    BY <1>5, <1>6, NewSlotIsEmpty, PageProgramsBounds
  <1>8. NameOf(new) = NameOf(json)
    BY <1>2 DEF NameOf
  <1>9. GoodBank(new)
    BY <1>2, <1>3, <1>4, <1>7, <1>8 DEF GoodBank
  <1>10. (\A i \in 1..AtMost(PagePrograms, ProgramsPerBank) : SlotOk(programs[i]))
            <=> (\A i \in 1..AtMost(Len(old), ProgramsPerBank) : SlotOk(old[i]))
    <2>1. AtMost(PagePrograms, ProgramsPerBank) = ProgramsPerBank
      BY PageProgramsBounds, Bounds
    <2>2. \A i \in 1..ProgramsPerBank : i \in 1..PagePrograms
      BY PageProgramsBounds, Bounds
    <2>3. ASSUME NEW i \in 1..ProgramsPerBank
          PROVE  IF i <= Len(old) THEN i \in 1..AtMost(Len(old), ProgramsPerBank)
                 ELSE programs[i] = NewSlot
      BY <1>5, <1>6, <2>2, Bounds
    <2>4. ASSUME NEW i \in 1..AtMost(Len(old), ProgramsPerBank)
          PROVE  i \in 1..ProgramsPerBank /\ i <= Len(old)
      BY ONLY <1>5, Bounds, i \in 1..AtMost(Len(old), ProgramsPerBank)
         DEF AtMost
    <2>5. \A i \in 1..ProgramsPerBank : i <= Len(old) => programs[i] = old[i]
      BY <1>6, <2>2
    <2> HIDE DEF AtMost
    <2>6. ASSUME \A i \in 1..ProgramsPerBank : SlotOk(programs[i])
          PROVE  \A i \in 1..AtMost(Len(old), ProgramsPerBank) : SlotOk(old[i])
      BY <2>4, <2>5, <2>6
    <2>7. ASSUME \A i \in 1..AtMost(Len(old), ProgramsPerBank) : SlotOk(old[i]),
                 NEW i \in 1..ProgramsPerBank
          PROVE  SlotOk(programs[i])
      BY <2>3, <2>5, <2>7, NewSlotIsEmpty
    <2> QED  BY <2>1, <2>6, <2>7
  <1>11. BankOk(new) <=> BankOk(json)
    BY <1>2, <1>3, <1>4, <1>5, <1>10 DEF BankOk, old
  <1>12. ASSUME NEW i \in 1..ProgramsPerBank
         PROVE  (IF i <= PagePrograms THEN SlotOf(programs[i]) ELSE EmptySlot)
                   = IF i <= Len(old) THEN SlotOf(old[i]) ELSE EmptySlot
    <2>1. i \in 1..PagePrograms /\ i <= PagePrograms
      BY PageProgramsBounds, Bounds
    <2> QED  BY <1>6, <2>1, NewSlotIsEmpty
  <1>13. BankOf(new) = BankOf(json)
    <2> DEFINE ours == [i \in 1..ProgramsPerBank |->
                  IF i <= PagePrograms THEN SlotOf(programs[i]) ELSE EmptySlot]
               theirs == [i \in 1..ProgramsPerBank |->
                  IF i <= Len(old) THEN SlotOf(old[i]) ELSE EmptySlot]
    <2>1. ours = theirs
      BY <1>12
    <2>2. BankOf(json) =
             [name |-> NameOf(json),
              expression_default |-> TargetOf(Get(json, "expression_default")),
              programs |-> theirs]
      BY Zenon DEF BankOf, old
    <2>3. BankOf(new) =
             [name |-> NameOf(new),
              expression_default |-> TargetOf(Get(new, "expression_default")),
              programs |-> ours]
      BY <1>3, <1>4, Zenon DEF BankOf
    <2> HIDE DEF ours, theirs
    <2> QED  BY <1>2, <1>8, <2>1, <2>2, <2>3, Zenon
  <1> QED  BY <1>9, <1>11, <1>13 DEF new

(* Padding a document before it is sent changes nothing the firmware reads, *)
(* whatever the number of programs the page shows (index.html:948-952).     *)
LEMMA PaddedDoc ==
    ASSUME NEW doc, GoodDoc(doc)
    PROVE  GoodDoc(Normalised(doc)) /\ ConfigOf(Normalised(doc)) = ConfigOf(doc)
  <1> DEFINE banks == Banks(doc)
             n == Len(banks)
             padded == [k \in 1..n |-> Padded(banks[k])]
             new == Normalised(doc)
  <1>1. n \in Nat /\ \A k \in 1..n : GoodBank(banks[k])
    BY ListDomain DEF GoodDoc, GoodBanks
  <1>2. IsList(padded) /\ Len(padded) = n
    <2>1. padded = [k \in 1..n |-> padded[k]]
      OBVIOUS
    <2> HIDE DEF padded, n
    <2> QED  BY <1>1, <2>1, FunctionIsList
  <1>3. \A k \in 1..n : padded[k] = Padded(banks[k])
    OBVIOUS
  <1>4. new = WithBanks(doc, padded)
    BY Zenon DEF Normalised
  <1> HIDE DEF padded, new, banks, n
  <1>5. GoodBanks(padded)
    BY <1>1, <1>2, <1>3, PaddedBank DEF GoodBanks
  <1>6. /\ GoodDoc(new) /\ Banks(new) = padded
        /\ Get(new, "global") = Get(doc, "global")
    BY <1>4, <1>5, WithBanksIsGood
  <1>7. \A i \in 1..n : /\ BankOk(padded[i]) <=> BankOk(banks[i])
                        /\ BankOf(padded[i]) = BankOf(banks[i])
    BY <1>1, <1>3, PaddedBank
  <1>8. \A i \in 1..AtMost(n, MaxBanks) : i \in 1..n
    BY <1>1, Bounds
  <1>9. Kept(padded) = Kept(banks)
    <2>1. Len(padded) = n /\ Len(banks) = n
      BY <1>2 DEF n
    <2> HIDE DEF AtMost
    <2> QED  BY <1>7, <1>8, <2>1 DEF Kept
  <1>10. \A i \in Kept(banks) : BankOf(padded[i]) = BankOf(banks[i])
    <2> HIDE DEF AtMost
    <2> QED  BY <1>7, <1>8 DEF Kept, n
  <1>11. ConfigOf(new) = ConfigOf(doc)
    <2> HIDE DEF Get
    <2> QED  BY <1>1, <1>6, <1>9, <1>10, SameConfig DEF banks, n
  <1> QED  BY <1>6, <1>11 DEF new

HasGlobal(doc) ==
    Get(doc, "global").kind = "object" =>
       Get(doc, "global") = Object(Get(doc, "global").fields)

(* Showing the global settings changes nothing the firmware reads either    *)
(* (renderGlobalSettings).                                                  *)
LEMMA RenderedDoc ==
    ASSUME NEW doc, GoodDoc(doc), HasGlobal(doc)
    PROVE  GoodDoc(Rendered(doc)) /\ ConfigOf(Rendered(doc)) = ConfigOf(doc)
           /\ Banks(Rendered(doc)) = Banks(doc)
  <1> DEFINE global == Get(doc, "global")
             AsList(json) == IF json.kind = "array" THEN json ELSE Array(<<>>)
             first == WithField(global, "user_function_a",
                                AsList(Get(global, "user_function_a")))
             second == WithField(first, "user_function_b",
                                 AsList(Get(global, "user_function_b")))
             new == Rendered(doc)
  <1>1. CASE global.kind # "object"
    <2>1. new = doc
      BY <1>1, Zenon DEF Rendered
    <2> QED  BY <2>1
  <1>2. CASE global.kind = "object"
    <2>1. new = WithField(doc, "global", second)
      BY <1>2, Zenon DEF Rendered
    <2>2. /\ global = Object(global.fields) /\ doc = Object(doc.fields)
      BY <1>2 DEF GoodDoc, HasGlobal
    <2>3. \A json : ListOf(AsList(json)) = ListOf(json)
      <3>1. ListOf(Array(<<>>)) = <<>>
        <4>1. [i \in 1..0 |-> MessageOf(<<>>[i])] = <<>>
          OBVIOUS
        <4>2. /\ Array(<<>>).kind = "array" /\ Array(<<>>).items = <<>>
              /\ Len(<<>>) = 0
          OBVIOUS
        <4>3. ListLength(Array(<<>>)) = 0
          BY <4>2, Bounds DEF ListLength
        <4>4. PICK count \in 0..0 :
                 ListOf(Array(<<>>)) = [i \in 1..count |-> MessageOf(<<>>[i])]
          BY <4>2, <4>3, ListOfArray
        <4>5. count = 0
          OBVIOUS
        <4> QED  BY <4>1, <4>4, <4>5
      <3>2. ASSUME NEW json  PROVE ListOf(AsList(json)) = ListOf(json)
        <4>1. CASE json.kind = "array"
          BY <4>1
        <4>2. CASE json.kind # "array"
          BY <3>1, <4>2 DEF ListOf
        <4> QED  BY <4>1, <4>2
      <3> QED  BY <3>2
    <2> HIDE DEF AsList, Get, Object, Array
    <2>4. /\ first = Object(first.fields)
          /\ Get(first, "user_function_a") = AsList(Get(global, "user_function_a"))
          /\ \A x : x # "user_function_a" => Get(first, x) = Get(global, x)
      <3> HIDE DEF global
      <3> QED  BY <2>2, FieldsOf
    <2>5. /\ Get(second, "user_function_b") = AsList(Get(global, "user_function_b"))
          /\ \A x : x # "user_function_b" => Get(second, x) = Get(first, x)
      <3> HIDE DEF global, first
      <3> QED  BY <2>4, FieldsOf
    <2>6. /\ new = Object(new.fields) /\ Get(new, "global") = second
          /\ Get(new, "banks") = Get(doc, "banks")
      <3> HIDE DEF second
      <3> QED  BY <2>1, <2>2, FieldsOf
    <2> HIDE DEF global, first, second, new
    <2>7. GlobalOf(second) = GlobalOf(global)
      <3>1. /\ Get(second, "midi_channel") = Get(global, "midi_channel")
            /\ Get(second, "tuner_message") = Get(global, "tuner_message")
            /\ Get(second, "tap_message") = Get(global, "tap_message")
            /\ Get(second, "long_press_short_ms") = Get(global, "long_press_short_ms")
            /\ Get(second, "long_press_long_ms") = Get(global, "long_press_long_ms")
            /\ Get(second, "browse_timeout_ms") = Get(global, "browse_timeout_ms")
            /\ Get(second, "boot_resume") = Get(global, "boot_resume")
            /\ Get(second, "display_brightness") = Get(global, "display_brightness")
            /\ Get(second, "led_brightness") = Get(global, "led_brightness")
            /\ Get(second, "expression") = Get(global, "expression")
        BY <2>4, <2>5
      <3>2. /\ ListOf(Get(second, "user_function_a"))
                  = ListOf(Get(global, "user_function_a"))
            /\ ListOf(Get(second, "user_function_b"))
                  = ListOf(Get(global, "user_function_b"))
        BY <2>3, <2>4, <2>5
      <3> QED  BY <3>1, <3>2, Zenon DEF GlobalOf
    <2>8. Banks(new) = Banks(doc)
      BY <2>6 DEF Banks
    <2>9. GoodDoc(new)
      BY <2>6, <2>7, <2>8 DEF GoodDoc, global
    <2>10. Len(Banks(doc)) \in Nat
      BY ListDomain DEF GoodDoc, GoodBanks
    <2>11. ConfigOf(new) = ConfigOf(doc)
      BY <2>6, <2>7, <2>8, <2>10, SameConfig DEF global
    <2> QED  BY <2>8, <2>9, <2>11 DEF new
  <1> QED  BY <1>1, <1>2

LEMMA BankWithIsGood ==
    ASSUME NEW b \in Bank, NEW read \in [Texts -> Texts],
           NEW programs, IsList(programs),
           \A i \in 1..Len(programs) : GoodSlot(programs[i])
    PROVE  GoodBank(BankWith(b, programs, read))
  <1> DEFINE json == BankWith(b, programs, read)
             target == EncodeTarget(b.expression_default)
  <1>1. b.name \in Name /\ b.expression_default \in Target
    BY DEF Bank
  <1> HIDE DEF target
  <1>4. json = Object([name |-> String(read[b.name]), expression_default |-> target,
                       programs |-> Array(programs)])
    BY DEF BankWith, target
  <1>5. /\ json = Object(json.fields)
        /\ Get(json, "name") = String(read[b.name])
        /\ Get(json, "expression_default") = target
        /\ Get(json, "programs") = Array(programs)
    <2> HIDE DEF json
    <2> QED  BY <1>4
  <1>6. TargetOf(target) \in Target
    BY <1>1, TargetRoundTrip DEF target
  <1> HIDE DEF json, Get, Object
  <1>7. NameOf(json) = Cut[read[b.name]]
    BY <1>5 DEF NameOf
  <1>8. NameOf(json) \in Name
    BY <1>1, <1>7, NameRead
  <1> QED  BY <1>5, <1>6, <1>8 DEF GoodBank, json

LEMMA ConfigWithIsGood ==
    ASSUME NEW c \in Config, NEW banks, GoodBanks(banks)
    PROVE  LET doc == ConfigWith(c, banks)
           IN  GoodDoc(doc) /\ HasGlobal(doc)
  <1> DEFINE json == ConfigWith(c, banks)
             global == EncodeGlobal(c.global)
  <1>1. c.global \in Global
    BY DEF Config
  <1>4. /\ json = Object(json.fields)
        /\ Get(json, "global") = global
        /\ Get(json, "banks") = Array(banks)
    <2> HIDE DEF global
    <2> QED  BY DEF ConfigWith, global
  <1>5. GlobalOf(global) \in Global
    BY <1>1, GlobalRoundTrip
  <1>6. global = Object(global.fields)
    BY DEF EncodeGlobal
  <1>7. Array(banks).kind = "array" /\ Array(banks).items = banks
    OBVIOUS
  <1> HIDE DEF json, global, Get, Object, Array
  <1>8. Banks(json) = banks
    BY <1>4, <1>7 DEF Banks
  <1>9. GoodDoc(json) /\ HasGlobal(json)
    BY <1>4, <1>5, <1>6, <1>7, <1>8 DEF GoodDoc, HasGlobal
  <1> QED  BY <1>9 DEF json

LEMMA EncodedSlotsAreGood ==
    ASSUME NEW b \in Bank, NEW read \in [Texts -> Texts], read[NoText] = NoText
    PROVE  LET programs == EncodeSlots(b, read)
           IN  /\ IsList(programs) /\ Len(programs) = ProgramsPerBank
               /\ \A i \in 1..ProgramsPerBank : GoodSlot(programs[i])
  <1> DEFINE programs == EncodeSlots(b, read)
  <1>1. \A i \in 1..ProgramsPerBank : b.programs[i] \in Slot
    BY DEF Bank
  <1>2. \A i \in 1..ProgramsPerBank : programs[i] = EncodeSlot(b.programs[i], read)
    BY DEF EncodeSlots
  <1>3. programs = [i \in 1..ProgramsPerBank |-> programs[i]]
    BY DEF EncodeSlots
  <1> HIDE DEF programs
  <1>4. IsList(programs) /\ Len(programs) = ProgramsPerBank
    BY <1>3, Bounds, FunctionIsList
  <1>5. \A i \in 1..ProgramsPerBank : GoodSlot(programs[i])
    BY <1>1, <1>2, SlotRoundTrip DEF GoodSlot
  <1> QED  BY <1>4, <1>5 DEF programs

LEMMA EncodedConfigIsGood ==
    ASSUME NEW c \in Config, NEW read \in [Texts -> Texts], read[NoText] = NoText
    PROVE  GoodDoc(EncodeConfig(c, read)) /\ HasGlobal(EncodeConfig(c, read))
  <1> DEFINE n == Len(c.banks)
             items == [i \in 1..n |-> EncodeBank(c.banks[i], read)]
  <1>1. n \in Nat /\ \A i \in 1..n : c.banks[i] \in Bank
    BY Bounds DEF Config
  <1>2. IsList(items) /\ Len(items) = n
    <2>1. items = [i \in 1..n |-> items[i]]
      OBVIOUS
    <2> HIDE DEF items, n
    <2> QED  BY <1>1, <2>1, FunctionIsList
  <1>3. \A i \in 1..n : items[i] = EncodeBank(c.banks[i], read)
    OBVIOUS
  <1>4. EncodeConfig(c, read) = ConfigWith(c, items)
    BY Zenon DEF EncodeConfig
  <1> HIDE DEF items, n
  <1>5. \A i \in 1..n : GoodBank(items[i])
    BY <1>1, <1>3, EncodedSlotsAreGood, BankWithIsGood DEF EncodeBank
  <1> QED  BY <1>2, <1>4, <1>5, ConfigWithIsGood DEF GoodBanks

(* What is left of a list when some of its items could not be allocated.    *)
Places(n) == SUBSET (1..n)

LEMMA OnlySome ==
    ASSUME NEW n \in Nat, NEW items, NEW S \in Places(n)
    PROVE  /\ IsList(Only(items, S))
           /\ \A k \in 1..Len(Only(items, S)) : \E i \in S : Only(items, S)[k] = items[i]
  <1> DEFINE some == Only(items, S)
             m == Cardinality(S)
  <1>0. S \subseteq 1..n
    BY DEF Places
  <1>1. m \in Nat
    <2>1. IsFiniteSet(1..n)
      BY FS_Interval
    <2> QED  BY <1>0, <2>1, FS_Subset, FS_CardinalityType
  <1>2. some = [k \in 1..m |-> some[k]] /\ \A k \in 1..m : some[k] = items[Nth(S, k)]
    BY DEF Only
  <1>3. \A k \in 1..m : Nth(S, k) \in S
    BY <1>0, NthMember DEF Nth
  <1> HIDE DEF some, m
  <1>4. IsList(some) /\ Len(some) = m
    BY <1>1, <1>2, FunctionIsList
  <1> QED  BY <1>2, <1>3, <1>4 DEF some

LEMMA PartialIsGood ==
    ASSUME NEW c \in Config, NEW read \in [Texts -> Texts], read[NoText] = NoText,
           NEW doc \in PartialEncodings(c, read)
    PROVE  GoodDoc(doc) /\ HasGlobal(doc)
  <1> DEFINE all == 1..Len(c.banks)
  <1>1. PICK banks \in SUBSET all, programs \in [all -> SUBSET (1..ProgramsPerBank)] :
           doc = ConfigWith(c, Only(EncodeBanksWith(c, programs, read), banks))
    BY SMT DEF PartialEncodings
  <1> DEFINE items == EncodeBanksWith(c, programs, read)
             some == Only(items, banks)
  <1>2. Len(c.banks) \in Nat /\ \A i \in all : c.banks[i] \in Bank
    BY Bounds DEF Config
  <1>3. ASSUME NEW i \in all  PROVE GoodBank(items[i])
    <2> DEFINE slots == EncodeSlots(c.banks[i], read)
               chosen == programs[i]
               kept == Only(slots, chosen)
    <2>1. /\ c.banks[i] \in Bank /\ programs[i] \in SUBSET (1..ProgramsPerBank)
          /\ items[i] = BankWith(c.banks[i], kept, read)
      BY <1>2, <1>3 DEF EncodeBanksWith
    <2>2. \A k \in 1..ProgramsPerBank : GoodSlot(slots[k])
      BY <2>1, EncodedSlotsAreGood
    <2>5. ProgramsPerBank \in Nat /\ chosen \in Places(ProgramsPerBank)
      BY <2>1, Bounds DEF Places
    <2> HIDE DEF slots, chosen
    <2>3. IsList(kept) /\ \A k \in 1..Len(kept) : \E j \in chosen : kept[k] = slots[j]
      BY ONLY <2>5, OnlySome
    <2> HIDE DEF kept, items
    <2>4. \A k \in 1..Len(kept) : GoodSlot(kept[k])
      BY <2>2, <2>3, <2>5 DEF Places
    <2> QED  BY <2>1, <2>3, <2>4, BankWithIsGood
  <1>4. doc = ConfigWith(c, some)
    BY <1>1
  <1> HIDE DEF items
  <1>5. IsList(some) /\ \A k \in 1..Len(some) : \E i \in banks : some[k] = items[i]
    <2>1. Len(c.banks) \in Nat /\ banks \in Places(Len(c.banks))
      BY <1>2 DEF Places
    <2> QED  BY ONLY <2>1, OnlySome
  <1> HIDE DEF some, all
  <1>6. GoodBanks(some)
    BY <1>3, <1>5 DEF GoodBanks
  <1> QED  BY <1>4, <1>6, ConfigWithIsGood

(* A page that is shown a configuration and sends it back without an edit   *)
(* changes nothing in it, except that names cut in the middle of a character *)
(* are read by the browser and cut once more: neither the padding of the    *)
(* programs nor the lists the page makes of unset user functions matter     *)
(* (index.html:474-491, 948-952, config_store.c:131).                       *)
THEOREM UneditedSaveChangesOnlyNames ==
    ASSUME NEW c \in Config
    PROVE  ConfigOf(Normalised(Rendered(EncodeConfig(c, AsRead))))
              = Renamed(c, CutAfter(AsRead))
  <1> DEFINE doc == EncodeConfig(c, AsRead)
  <1>1. AsRead \in [Texts -> Texts] /\ AsRead[NoText] = NoText
    BY EditorsAssumption
  <1>2. ConfigOf(doc) = Renamed(c, CutAfter(AsRead)) /\ GoodDoc(doc) /\ HasGlobal(doc)
    BY <1>1, ConfigRoundTrip, EncodedConfigIsGood
  <1> HIDE DEF doc
  <1>3. GoodDoc(Rendered(doc)) /\ ConfigOf(Rendered(doc)) = ConfigOf(doc)
    BY <1>2, RenderedDoc
  <1>4. ConfigOf(Normalised(Rendered(doc))) = ConfigOf(Rendered(doc))
    BY <1>3, PaddedDoc
  <1> QED  BY <1>2, <1>3, <1>4 DEF doc

(* The documents the device may deliver *)
Documents ==
    {EncodeConfig(c, AsRead) : c \in Config}
       \cup UNION {PartialEncodings(c, AsRead) : c \in Config}

LEMMA DeliveredDocs ==
    ASSUME NEW c \in Config
    PROVE  /\ EncodeConfig(c, AsRead) \in Documents
           /\ PartialEncodings(c, AsRead) \subseteq Documents
  BY Zenon DEF Documents

LEMMA ShownDoc ==
    ASSUME NEW doc \in Documents
    PROVE  GoodDoc(Rendered(doc)) /\ Banks(Rendered(doc)) = Banks(doc)
  <1>1. AsRead \in [Texts -> Texts] /\ AsRead[NoText] = NoText
    BY EditorsAssumption
  <1>2. GoodDoc(doc) /\ HasGlobal(doc)
    <2>1. CASE \E c \in Config : doc = EncodeConfig(c, AsRead)
      BY <1>1, <2>1, EncodedConfigIsGood
    <2>2. CASE \E c \in Config : doc \in PartialEncodings(c, AsRead)
      BY <1>1, <2>2, PartialIsGood
    <2> QED  BY <2>1, <2>2, Zenon DEF Documents
  <1> QED  BY <1>2, RenderedDoc

HIDE DEF Number, String, Bool, Array, Object, Absent, Get, IsNone, Byte, Word,
         Uint8, Uint16, Null

-------------------------------------------------------------------------------
(* The inductive invariant.  Beyond the types: every document that is shown *)
(* or under way is good, a page without edits shows its baseline as it was  *)
(* loaded (DataInv), and what a page shows or will show is what the device  *)
(* has, or something is still to come to it, or a change was missed         *)
(* (FollowInv).                                                             *)
Answer == [doc : Documents, missed : BOOLEAN]

DeviceTyped == ram \in Config /\ stored \in Config

LinkTyped ==
    /\ ws \in [Pages -> BOOLEAN]
    /\ notices \in [Pages -> Nat]
    /\ asked \in [Pages -> 0..MaxLoads]
    /\ events \in 0..MaxEvents

EditorTyped ==
    /\ selected \in [Pages -> Nat \ {0}]
    /\ canSave \in [Pages -> BOOLEAN]
    /\ canRevert \in [Pages -> BOOLEAN]
    /\ baseline \in [Pages -> Documents \cup {Null}]

DataTyped ==
    /\ DOMAIN data = Pages
    /\ \A p \in Pages : data[p] = Null \/ GoodDoc(data[p])

AnswersTyped ==
    /\ missed \in [Pages -> BOOLEAN]
    /\ answers \in [Pages -> Seq(Answer)]

GoodPost(post) ==
    /\ post = [doc |-> post.doc, state |-> post.state]
    /\ GoodDoc(post.doc)

GoodPosts(list) == IsList(list) /\ \A i \in 1..Len(list) : GoodPost(list[i])

PostsTyped == DOMAIN posts = Pages /\ \A p \in Pages : GoodPosts(posts[p])

TypeInv ==
    /\ DeviceTyped
    /\ LinkTyped
    /\ EditorTyped
    /\ DataTyped
    /\ AnswersTyped
    /\ PostsTyped

DataInv ==
    \A p \in Pages : Loaded(p) /\ ~canRevert[p] =>
        baseline[p] \in Documents /\ data[p] = Rendered(baseline[p])

Coming(p) == asked[p] > 0 \/ notices[p] > 0

Follows(p) ==
    /\ ~missed[p] => baseline[p] = Delivered \/ Coming(p) \/ answers[p] # <<>>
    /\ \A i \in 1..Len(answers[p]) : ~answers[p][i].missed =>
          answers[p][i].doc = Delivered \/ Coming(p) \/ i < Len(answers[p])

FollowInv == \A p \in Pages : Follows(p)

IInv == TypeInv /\ DataInv /\ FollowInv

LEMMA Limits ==
    /\ MaxEvents \in Nat /\ MaxLoads \in Nat \ {0} /\ MaxPosts \in Nat \ {0}
    /\ InitialConfigs \subseteq Config
  BY EditorsAssumption

LEMMA NullIsNoDocument ==
    ASSUME NEW doc, GoodDoc(doc)
    PROVE  doc # Null
  BY DEF GoodDoc, Object, Null

LEMMA EmptyLists == IsList(<<>>) /\ Len(<<>>) = 0 /\ \A S : <<>> \in Seq(S)
  <1>1. <<>> \in Seq({}) /\ Len(<<>>) = 0
    OBVIOUS
  <1>2. IsList(<<>>)
    BY <1>1, SeqIsList
  <1> QED  BY <1>1, <1>2

LEMMA InitIInv == Init => IInv
  <1> SUFFICES ASSUME Init  PROVE IInv
    OBVIOUS
  <1>1. DeviceTyped
    BY Limits DEF Init, DeviceTyped
  <1>2. LinkTyped
    BY Limits DEF Init, LinkTyped
  <1>3. EditorTyped
    BY DEF Init, EditorTyped
  <1>4. DataTyped
    BY DEF Init, DataTyped
  <1>5. AnswersTyped
    BY EmptyLists DEF Init, AnswersTyped
  <1>6. PostsTyped
    BY EmptyLists DEF Init, PostsTyped, GoodPosts
  <1>7. DataInv
    BY DEF Init, DataInv, Loaded
  <1>8. FollowInv
    BY EmptyLists DEF Init, FollowInv, Follows, Coming
  <1> QED  BY <1>1, <1>2, <1>3, <1>4, <1>5, <1>6, <1>7, <1>8 DEF IInv, TypeInv

(* What the user does to a document *)
Edited(p) ==
    \E doc : \E bank : /\ MarkDirty(p, doc, bank)
                       /\ GoodDoc(doc)
                       /\ bank \in Nat \ {0}
                       /\ Banks(doc) = <<>> \/ bank <= Len(Banks(doc))

LEMMA Edits ==
    ASSUME TypeInv, NEW p \in Pages,
           EditBank(p) \/ AddBank(p) \/ DeleteBank(p) \/ ImportFile(p)
    PROVE  Edited(p)
  <1> DEFINE banks == Banks(data[p])
             n == Len(banks)
  <1>1. selected[p] \in Nat \ {0}
    BY DEF TypeInv, EditorTyped
  <1>2. Loaded(p) => GoodDoc(data[p]) /\ GoodBanks(banks) /\ n \in Nat
    BY ListDomain DEF TypeInv, DataTyped, Loaded, GoodDoc, GoodBanks
  <1> HIDE DEF banks, n
  <1>3. CASE EditBank(p)
    <2>1. GoodDoc(data[p]) /\ GoodBanks(banks) /\ selected[p] \in 1..n
      BY <1>1, <1>2, <1>3 DEF EditBank, BankSelected, banks, n
    <2>2. PICK bank \in TypedBanks :
             MarkDirty(p, WithBanks(data[p], [banks EXCEPT ![selected[p]] = bank]),
                       selected[p])
      BY <1>3 DEF EditBank, banks
    <2> DEFINE new == [banks EXCEPT ![selected[p]] = bank]
    <2>3. GoodBank(bank)
      BY EditorsAssumption, ShownBankIsGood
    <2>4. GoodBanks(new) /\ Len(new) = n
      <3>1. IsList(banks) /\ \A i \in 1..n : GoodBank(banks[i])
        BY <2>1 DEF GoodBanks, n
      <3>2. selected[p] \in 1..Len(banks)
        BY <2>1 DEF n
      <3>3. /\ IsList(new) /\ Len(new) = Len(banks)
            /\ \A i \in 1..Len(banks) :
                  new[i] = IF i = selected[p] THEN bank ELSE banks[i]
        <4>1. Len(banks) \in Nat /\ DOMAIN banks = 1..Len(banks)
          BY <3>1, ListDomain
        <4>2. \A i \in 1..Len(banks) :
                 new[i] = IF i = selected[p] THEN bank ELSE banks[i]
          BY ONLY <4>1, Zenon
        <4>3. new = [i \in 1..Len(banks) |-> new[i]]
          BY ONLY <4>1
        <4> HIDE DEF new
        <4> QED  BY <4>1, <4>2, <4>3, FunctionIsList
      <3> HIDE DEF new
      <3> QED  BY <2>3, <3>1, <3>3 DEF GoodBanks, n
    <2> HIDE DEF new
    <2>5. GoodDoc(WithBanks(data[p], new)) /\ Banks(WithBanks(data[p], new)) = new
      BY <2>1, <2>4, WithBanksIsGood
    <2>6. selected[p] <= Len(new)
      BY <1>2, <2>1, <2>4
    <2> QED  BY <1>1, <2>2, <2>5, <2>6 DEF Edited, new
  <1>4. CASE AddBank(p)
    <2>1. GoodDoc(data[p]) /\ GoodBanks(banks) /\ n \in Nat
      BY <1>2, <1>4 DEF AddBank
    <2> DEFINE new == Append(banks, NewBank)
    <2>2. MarkDirty(p, WithBanks(data[p], new), n + 1)
      BY <1>4 DEF AddBank, banks, n
    <2>3. GoodBanks(new) /\ Len(new) = n + 1
      <3>1. /\ IsList(new) /\ Len(new) = n + 1
            /\ \A i \in 1..n : new[i] = banks[i]
            /\ new[n + 1] = NewBank
        BY <2>1, AppendToList DEF GoodBanks, n
      <3> HIDE DEF new
      <3>2. \A i \in 1..(n + 1) : i \in 1..n \/ i = n + 1
        BY <2>1
      <3> QED  BY <2>1, <3>1, <3>2, NewBankIsGood DEF GoodBanks, n
    <2> HIDE DEF new
    <2>4. GoodDoc(WithBanks(data[p], new)) /\ Banks(WithBanks(data[p], new)) = new
      BY <2>1, <2>3, WithBanksIsGood
    <2>5. n + 1 \in Nat \ {0} /\ n + 1 <= Len(new)
      BY <2>1, <2>3
    <2> QED  BY <2>2, <2>4, <2>5 DEF Edited
  <1>5. CASE DeleteBank(p)
    <2>1. GoodDoc(data[p]) /\ GoodBanks(banks) /\ selected[p] \in 1..n
          /\ n \in Nat /\ n > 1
      BY <1>1, <1>2, <1>5 DEF DeleteBank, BankSelected, banks, n
    <2> DEFINE new == WithoutIndex(banks, selected[p])
               bank == AtMost(selected[p], Len(new))
    <2>2. MarkDirty(p, WithBanks(data[p], new), bank)
      BY <1>5 DEF DeleteBank, banks
    <2>3. GoodBanks(new) /\ Len(new) = n - 1
      <3>1. /\ IsList(new) /\ Len(new) = n - 1
            /\ \A i \in 1..(n - 1) :
                  new[i] = IF i < selected[p] THEN banks[i] ELSE banks[i + 1]
        BY <2>1, WithoutInList DEF GoodBanks, n
      <3> HIDE DEF new
      <3>2. \A i \in 1..(n - 1) : i \in 1..n /\ i + 1 \in 1..n
        BY <2>1
      <3> QED  BY <2>1, <3>1, <3>2 DEF GoodBanks, n
    <2> HIDE DEF new
    <2>4. GoodDoc(WithBanks(data[p], new)) /\ Banks(WithBanks(data[p], new)) = new
      BY <2>1, <2>3, WithBanksIsGood
    <2>5. bank \in Nat \ {0} /\ bank <= Len(new)
      BY <1>1, <2>1, <2>3
    <2> HIDE DEF bank
    <2> QED  BY <2>2, <2>4, <2>5 DEF Edited
  <1>6. CASE ImportFile(p)
    <2>1. PICK doc \in Imports : MarkDirty(p, Rendered(doc), 1)
      BY <1>6 DEF ImportFile
    <2>2. GoodDoc(doc) /\ HasGlobal(doc)
      BY ImportIsGood DEF HasGlobal
    <2>3. GoodDoc(Rendered(doc))
      BY <2>2, RenderedDoc
    <2>4. Banks(Rendered(doc)) = <<>> \/ 1 <= Len(Banks(Rendered(doc)))
      <3> DEFINE s == Banks(Rendered(doc))
      <3>1. IsList(s) /\ Len(s) \in Nat
        BY <2>3, ListDomain DEF GoodDoc, GoodBanks
      <3> HIDE DEF s
      <3> DEFINE S == {s[i] : i \in 1..Len(s)}
      <3>2. \A i \in 1..Len(s) : s[i] \in S
        OBVIOUS
      <3> HIDE DEF S
      <3>3. Len(s) = 0 => s = <<>>
        BY <3>1, <3>2, ListIsSeq, EmptySeq
      <3> QED  BY <3>1, <3>3 DEF s
    <2> QED  BY <2>1, <2>3, <2>4 DEF Edited
  <1> QED  BY <1>3, <1>4, <1>5, <1>6

(* Misses leaves the others alone, and marks everything of those in S.      *)
LEMMA MissesMarks ==
    ASSUME NEW S, NEW coming \in [Pages -> Seq(Answer)],
           missed \in [Pages -> BOOLEAN],
           Misses(S, missed, coming)
    PROVE  /\ AnswersTyped'
           /\ \A p \in Pages : IF p \in S
                 THEN /\ missed'[p]
                      /\ \A i \in 1..Len(answers'[p]) : answers'[p][i].missed
                 ELSE missed'[p] = missed[p] /\ answers'[p] = coming[p]
  <1>1. /\ missed' = [p \in Pages |-> missed[p] \/ p \in S]
        /\ answers' = [p \in Pages |->
              IF p \in S
              THEN [i \in DOMAIN coming[p] |-> [coming[p][i] EXCEPT !.missed = TRUE]]
              ELSE coming[p]]
    BY DEF Misses
  <1>2. missed' \in [Pages -> BOOLEAN]
    BY <1>1
  <1>3. ASSUME NEW list \in Seq(Answer)
        PROVE  LET marked == [i \in DOMAIN list |-> [list[i] EXCEPT !.missed = TRUE]]
               IN  marked \in Seq(Answer) /\ \A i \in 1..Len(marked) : marked[i].missed
    <2> DEFINE marked == [i \in DOMAIN list |-> [list[i] EXCEPT !.missed = TRUE]]
               n == Len(list)
    <2>1. n \in Nat /\ DOMAIN list = 1..n /\ \A i \in 1..n : list[i] \in Answer
      OBVIOUS
    <2>2. ASSUME NEW a \in Answer
          PROVE  /\ [a EXCEPT !.missed = TRUE] \in Answer
                 /\ [a EXCEPT !.missed = TRUE].missed
      BY DEF Answer
    <2>3. marked \in [1..n -> Answer] /\ \A i \in 1..n : marked[i].missed
      BY <2>1, <2>2
    <2> HIDE DEF marked, n
    <2>4. marked \in Seq(Answer) /\ Len(marked) = n
      <3>1. marked \in Seq(Answer)
        BY <2>1, <2>3, SeqDef
      <3> QED  BY <2>1, <2>3, <3>1, LenProperties
    <2> QED  BY <2>3, <2>4 DEF marked
  <1>4. ASSUME NEW p \in Pages
        PROVE  answers'[p] \in Seq(Answer)
    <2>1. coming[p] \in Seq(Answer)
      OBVIOUS
    <2> QED  BY <1>1, <1>3, <2>1
  <1>5. answers' \in [Pages -> Seq(Answer)]
    BY <1>1, <1>4
  <1>6. ASSUME NEW p \in S, p \in Pages
        PROVE  /\ missed'[p]
               /\ \A i \in 1..Len(answers'[p]) : answers'[p][i].missed
    <2>1. coming[p] \in Seq(Answer)
      BY <1>6
    <2> QED  BY <1>1, <1>3, <1>6, <2>1
  <1>7. ASSUME NEW p \in Pages, p \notin S
        PROVE  missed'[p] = missed[p] /\ answers'[p] = coming[p]
    BY <1>1, <1>7
  <1> QED  BY <1>2, <1>5, <1>6, <1>7 DEF AnswersTyped

LEMMA AnsweredPosts ==
    ASSUME PostsTyped, NEW p \in Pages, NEW i \in DOMAIN posts[p], NEW state,
           Answered(p, i, state)
    PROVE  PostsTyped' /\ posts[p][i] = [doc |-> posts[p][i].doc, state |-> posts[p][i].state]
           /\ GoodDoc(posts[p][i].doc)
  <1> DEFINE list == posts[p]
             post == [list[i] EXCEPT !.state = state]
             new == [list EXCEPT ![i] = post]
  <1>1. /\ DOMAIN posts = Pages /\ IsList(list)
        /\ \A j \in 1..Len(list) : GoodPost(list[j])
    BY DEF PostsTyped, GoodPosts
  <1>2. Len(list) \in Nat /\ DOMAIN list = 1..Len(list)
    BY <1>1, ListDomain
  <1>3. GoodPost(list[i])
    BY <1>1, <1>2
  <1>4. post = [doc |-> list[i].doc, state |-> state]
    BY <1>3 DEF GoodPost
  <1>5. posts' = [posts EXCEPT ![p] = new]
    BY DEF Answered
  <1> HIDE DEF post
  <1>6. GoodPost(post)
    BY <1>3, <1>4 DEF GoodPost
  <1>7. /\ \A j \in 1..Len(list) : new[j] = IF j = i THEN post ELSE list[j]
        /\ new = [j \in 1..Len(list) |-> new[j]]
    BY <1>2
  <1> HIDE DEF new
  <1>8. GoodPosts(new)
    BY <1>1, <1>2, <1>6, <1>7, FunctionIsList DEF GoodPosts
  <1>9. \A q \in Pages : posts'[q] = IF q = p THEN new ELSE posts[q]
    BY <1>1, <1>5
  <1>10. DOMAIN posts' = Pages
    BY <1>1, <1>5
  <1>11. PostsTyped'
    BY <1>8, <1>9, <1>10 DEF PostsTyped
  <1> QED  BY <1>3, <1>11 DEF GoodPost

LEMMA MoreAsked ==
    ASSUME LinkTyped, AnswersTyped, NEW p \in Pages, LoadConfig(p)
    PROVE  /\ asked' \in [Pages -> 0..MaxLoads]
           /\ \A q \in Pages : asked'[q] = IF q = p THEN asked[p] + 1 ELSE asked[q]
  <1>1. asked[p] \in 0..MaxLoads /\ Len(answers[p]) \in Nat
    BY DEF LinkTyped, AnswersTyped
  <1>2. asked[p] + 1 \in 0..MaxLoads
    BY <1>1, Limits DEF LoadConfig, Loads
  <1>3. asked' = [asked EXCEPT ![p] = asked[p] + 1]
    BY DEF LoadConfig
  <1> QED  BY <1>2, <1>3 DEF LinkTyped

LEMMA LessAsked ==
    ASSUME LinkTyped, NEW p \in Pages, asked[p] > 0,
           asked' = [asked EXCEPT ![p] = asked[p] - 1]
    PROVE  asked' \in [Pages -> 0..MaxLoads]
  BY Limits DEF LinkTyped

LEMMA OneEvent ==
    ASSUME LinkTyped, Event
    PROVE  events' \in 0..MaxEvents
  BY Limits DEF LinkTyped, Event

LEMMA EditedTyped ==
    ASSUME TypeInv, NEW p \in Pages, Edited(p)
    PROVE  TypeInv'
  <1>1. PICK doc, bank : /\ MarkDirty(p, doc, bank)
                         /\ GoodDoc(doc)
                         /\ bank \in Nat \ {0}
    BY DEF Edited
  <1>2. LinkTyped'
    BY <1>1, OneEvent DEF MarkDirty, TypeInv, LinkTyped
  <1>3. EditorTyped'
    BY <1>1 DEF MarkDirty, TypeInv, EditorTyped
  <1>4. DataTyped'
    BY <1>1 DEF MarkDirty, TypeInv, DataTyped
  <1>5. DeviceTyped' /\ AnswersTyped' /\ PostsTyped'
    BY <1>1 DEF MarkDirty, TypeInv, device_vars, DeviceTyped, AnswersTyped, PostsTyped
  <1> QED  BY <1>2, <1>3, <1>4, <1>5 DEF TypeInv

LEMMA UserTyped ==
    ASSUME TypeInv, NEW p \in Pages, UserStep(p)
    PROVE  TypeInv'
  <1>1. CASE EditBank(p) \/ AddBank(p) \/ DeleteBank(p) \/ ImportFile(p)
    BY <1>1, Edits, EditedTyped
  <1>2. CASE SelectBank(p)
    <2>1. PICK bank \in 1..Len(Banks(data[p])) :
             selected' = [selected EXCEPT ![p] = bank]
      BY <1>2 DEF SelectBank
    <2>2. GoodDoc(data[p]) /\ Len(Banks(data[p])) \in Nat
      BY <1>2, ListDomain
         DEF SelectBank, TypeInv, DataTyped, Loaded, GoodDoc, GoodBanks
    <2>3. bank \in Nat \ {0}
      BY <2>1, <2>2
    <2>4. EditorTyped'
      BY <1>2, <2>1, <2>3 DEF SelectBank, TypeInv, EditorTyped
    <2>5. LinkTyped'
      BY <1>2, OneEvent DEF SelectBank, TypeInv, LinkTyped
    <2>6. DeviceTyped' /\ DataTyped' /\ AnswersTyped' /\ PostsTyped'
      BY <1>2 DEF SelectBank, TypeInv, device_vars, DeviceTyped, DataTyped,
                  AnswersTyped, PostsTyped
    <2> QED  BY <2>4, <2>5, <2>6 DEF TypeInv
  <1>3. CASE Revert(p)
    <2>1. baseline[p] \in Documents
      BY <1>3 DEF Revert, TypeInv, EditorTyped
    <2>2. /\ data' = [data EXCEPT ![p] = Rendered(baseline[p])]
          /\ GoodDoc(Rendered(baseline[p]))
      BY <1>3, <2>1, ShownDoc DEF Revert
    <2>3. DataTyped'
      BY <2>2 DEF TypeInv, DataTyped
    <2>4. EditorTyped'
      BY <1>3 DEF Revert, TypeInv, EditorTyped
    <2>5. LinkTyped'
      BY <1>3, OneEvent DEF Revert, TypeInv, LinkTyped
    <2>6. DeviceTyped' /\ AnswersTyped' /\ PostsTyped'
      BY <1>3 DEF Revert, TypeInv, device_vars, DeviceTyped, AnswersTyped, PostsTyped
    <2> QED  BY <2>3, <2>4, <2>5, <2>6 DEF TypeInv
  <1>4. CASE Save(p)
    <2> DEFINE post == [doc |-> Normalised(data[p]), state |-> "sent"]
               new == Append(posts[p], post)
    <2>1. GoodDoc(data[p])
      BY <1>4 DEF Save, Loaded, TypeInv, DataTyped
    <2>2. GoodPost(post)
      <3>1. GoodDoc(Normalised(data[p]))
        BY <2>1, PaddedDoc
      <3> QED  BY <3>1 DEF GoodPost
    <2>3. posts' = [posts EXCEPT ![p] = new]
      BY <1>4 DEF Save
    <2> HIDE DEF post
    <2>4. /\ DOMAIN posts = Pages /\ IsList(posts[p]) /\ Len(posts[p]) \in Nat
          /\ \A i \in 1..Len(posts[p]) : GoodPost(posts[p][i])
      BY ListDomain DEF TypeInv, PostsTyped, GoodPosts
    <2>5. /\ IsList(new) /\ Len(new) = Len(posts[p]) + 1
          /\ \A i \in 1..Len(posts[p]) : new[i] = posts[p][i]
          /\ new[Len(posts[p]) + 1] = post
      BY <2>4, AppendToList
    <2> HIDE DEF new
    <2>6. GoodPosts(new)
      <3>1. \A i \in 1..Len(new) : i \in 1..Len(posts[p]) \/ i = Len(posts[p]) + 1
        BY <2>4, <2>5
      <3> QED  BY <2>2, <2>4, <2>5, <3>1 DEF GoodPosts
    <2>7. PostsTyped'
      BY <2>3, <2>6 DEF TypeInv, PostsTyped
    <2>8. EditorTyped'
      BY <1>4 DEF Save, TypeInv, EditorTyped
    <2>9. DeviceTyped' /\ LinkTyped' /\ DataTyped' /\ AnswersTyped'
      BY <1>4 DEF Save, TypeInv, device_vars, DeviceTyped, LinkTyped, DataTyped,
                  AnswersTyped
    <2> QED  BY <2>7, <2>8, <2>9 DEF TypeInv
  <1>5. CASE OpenTab(p)
    <2>1. LinkTyped'
      BY <1>5, MoreAsked DEF OpenTab, TypeInv, LinkTyped
    <2>2. DeviceTyped' /\ EditorTyped' /\ DataTyped' /\ AnswersTyped' /\ PostsTyped'
      BY <1>5 DEF OpenTab, TypeInv, device_vars, editor_vars, DeviceTyped, EditorTyped,
                  DataTyped, AnswersTyped, PostsTyped
    <2> QED  BY <2>1, <2>2 DEF TypeInv
  <1> QED  BY <1>1, <1>2, <1>3, <1>4, <1>5 DEF UserStep

(* What is answered to a GET: the whole configuration, or marked a part.    *)
LEMMA GetAnswer ==
    ASSUME DeviceTyped, NEW p \in Pages, HandleGet(p)
    PROVE  \E answer \in Answer :
              /\ answers' = [answers EXCEPT ![p] = Append(@, answer)]
              /\ Event \/ UNCHANGED events
              /\ answer.missed \/ answer.doc = Delivered
  <1>1. PICK answer \in [doc : {Delivered}, missed : {FALSE}]
                     \cup [doc : PartialEncodings(ram, AsRead), missed : {TRUE}] :
           /\ answers' = [answers EXCEPT ![p] = Append(@, answer)]
           /\ IF answer.missed THEN Event ELSE UNCHANGED events
    BY Zenon DEF HandleGet
  <1>2. Delivered \in Documents /\ PartialEncodings(ram, AsRead) \subseteq Documents
    BY DeliveredDocs DEF DeviceTyped, Delivered
  <1>3. answer \in Answer /\ (answer.missed \/ answer.doc = Delivered)
    BY <1>1, <1>2 DEF Answer
  <1>4. Event \/ UNCHANGED events
    BY <1>1, Zenon
  <1> QED  BY <1>1, <1>3, <1>4, Zenon

(* What is left in flash after a save *)
LEMMA SavedTyped ==
    ASSUME LinkTyped, NEW c \in Config
    PROVE  /\ SavedWhole(c) => stored' \in Config /\ events' \in 0..MaxEvents
           /\ SavedInPart(c) => stored' \in Config /\ events' \in 0..MaxEvents
  <1>1. AsIs \in [Texts -> Texts] /\ AsIs[NoText] = NoText
    BY NothingRenamed
  <1>2. ASSUME SavedInPart(c)  PROVE stored' \in Config
    <2>1. PICK doc \in PartialEncodings(c, AsIs) : stored' = ConfigOf(doc)
      BY <1>2, Zenon DEF SavedInPart
    <2> QED  BY <1>1, <2>1, PartialIsGood, ConfigTyped
  <1>3. SavedInPart(c) => events' \in 0..MaxEvents
    BY OneEvent DEF SavedInPart
  <1> QED  BY <1>2, <1>3 DEF SavedWhole, LinkTyped

LEMMA DeviceTypedStep ==
    ASSUME TypeInv, NEW p \in Pages, DeviceStep(p)
    PROVE  TypeInv'
  <1>1. CASE HandleGet(p)
    <2>0. DeviceTyped
      BY DEF TypeInv
    <2>1. PICK answer \in Answer : /\ answers' = [answers EXCEPT ![p] = Append(@, answer)]
                                   /\ Event \/ UNCHANGED events
                                   /\ answer.missed \/ answer.doc = Delivered
      BY <1>1, <2>0, GetAnswer
    <2>2. answers' = [answers EXCEPT ![p] = Append(answers[p], answer)]
      BY <2>1
    <2>3. Append(answers[p], answer) \in Seq(Answer)
      BY AppendProperties DEF TypeInv, AnswersTyped
    <2>4. AnswersTyped'
      BY <1>1, <2>2, <2>3 DEF HandleGet, TypeInv, AnswersTyped
    <2>5. LinkTyped'
      BY <1>1, <2>1, OneEvent, LessAsked DEF HandleGet, TypeInv, LinkTyped
    <2>6. DeviceTyped' /\ EditorTyped' /\ DataTyped' /\ PostsTyped'
      BY <1>1 DEF HandleGet, TypeInv, device_vars, editor_vars, DeviceTyped, EditorTyped,
                  DataTyped, PostsTyped
    <2> QED  BY <2>4, <2>5, <2>6 DEF TypeInv
  <1>2. CASE RefusePost(p)
    <2>1. PostsTyped'
      BY <1>2, AnsweredPosts DEF RefusePost, TypeInv
    <2>2. LinkTyped'
      BY <1>2, OneEvent DEF RefusePost, TypeInv, LinkTyped
    <2>3. DeviceTyped' /\ EditorTyped' /\ DataTyped' /\ AnswersTyped'
      BY <1>2 DEF RefusePost, TypeInv, device_vars, editor_vars, DeviceTyped, EditorTyped,
                  DataTyped, AnswersTyped
    <2> QED  BY <2>1, <2>2, <2>3 DEF TypeInv
  <1>3. CASE PostUnsaved(p)
    <2>1. PICK i \in DOMAIN posts[p] : /\ ram' = ConfigOf(posts[p][i].doc)
                                      /\ Answered(p, i, "failed")
      BY <1>3 DEF PostUnsaved
    <2>2. PostsTyped' /\ GoodDoc(posts[p][i].doc)
      BY <2>1, AnsweredPosts DEF TypeInv
    <2>3. DeviceTyped'
      BY <1>3, <2>1, <2>2, ConfigTyped DEF PostUnsaved, TypeInv, DeviceTyped
    <2>4. AnswersTyped'
      BY <1>3, MissesMarks DEF PostUnsaved, TypeInv, AnswersTyped
    <2>5. LinkTyped'
      BY <1>3, OneEvent DEF PostUnsaved, TypeInv, LinkTyped
    <2>6. EditorTyped' /\ DataTyped'
      BY <1>3 DEF PostUnsaved, TypeInv, editor_vars, EditorTyped, DataTyped
    <2> QED  BY <2>2, <2>3, <2>4, <2>5, <2>6 DEF TypeInv
  <1>4. CASE PostSaved(p)
    <2>1. PICK i \in DOMAIN posts[p] : /\ ram' = ConfigOf(posts[p][i].doc)
                                      /\ Answered(p, i, "saved")
      BY <1>4 DEF PostSaved
    <2>2. PostsTyped' /\ GoodDoc(posts[p][i].doc)
      BY <2>1, AnsweredPosts DEF TypeInv
    <2>8. ram' \in Config
      BY <2>1, <2>2, ConfigTyped
    <2>9. SavedWhole(ram') \/ SavedInPart(ram')
      BY <1>4 DEF PostSaved
    <2>3. DeviceTyped' /\ events' \in 0..MaxEvents
      BY <2>8, <2>9, SavedTyped DEF TypeInv, DeviceTyped
    <2>4. AnswersTyped'
      BY <1>4, MissesMarks DEF PostSaved, TypeInv, AnswersTyped
    <2>5. notices' \in [Pages -> Nat]
      BY <1>4 DEF PostSaved, ConfigChanged, TypeInv, LinkTyped
    <2>6. LinkTyped'
      BY <1>4, <2>3, <2>5 DEF PostSaved, TypeInv, LinkTyped
    <2>7. EditorTyped' /\ DataTyped'
      BY <1>4 DEF PostSaved, TypeInv, editor_vars, EditorTyped, DataTyped
    <2> QED  BY <2>2, <2>3, <2>4, <2>6, <2>7 DEF TypeInv
  <1> QED  BY <1>1, <1>2, <1>3, <1>4 DEF DeviceStep

LEMMA RestartTyped ==
    ASSUME TypeInv, Restart
    PROVE  TypeInv'
  <1>1. stored \in Config /\ ConfigOf(EncodeConfig(stored, AsIs)) = stored
    BY ConfigRoundTrip, NothingRenamed DEF TypeInv, DeviceTyped
  <1>6. Defaults \in Config /\ (SavedInPart(Defaults) => stored' \in Config)
    BY DefaultsTyped, SavedTyped DEF TypeInv
  <1>2. DeviceTyped'
    BY <1>1, <1>6 DEF Restart, DeviceTyped
  <1>3. AnswersTyped'
    BY MissesMarks DEF Restart, TypeInv, AnswersTyped
  <1>4. LinkTyped'
    BY OneEvent DEF Restart, TypeInv, LinkTyped
  <1>5. EditorTyped' /\ DataTyped' /\ PostsTyped'
    BY DEF Restart, TypeInv, editor_vars, EditorTyped, DataTyped, PostsTyped
  <1> QED  BY <1>2, <1>3, <1>4, <1>5 DEF TypeInv

(* The answers left when the i-th has arrived                               *)
LEMMA OneAnswerLess ==
    ASSUME NEW list \in Seq(Answer), NEW i \in 1..Len(list)
    PROVE  LET left == WithoutIndex(Overtaken(list, i), i)
           IN  /\ left \in Seq(Answer)
               /\ Len(left) = Len(list) - 1
               /\ \A j \in 1..(Len(list) - 1) :
                     IF j < i THEN left[j].missed ELSE left[j] = list[j + 1]
  <1> DEFINE overtaken == Overtaken(list, i)
             left == WithoutIndex(overtaken, i)
             n == Len(list)
  <1>1. n \in Nat /\ DOMAIN list = 1..n /\ \A j \in 1..n : list[j] \in Answer
    OBVIOUS
  <1>2. ASSUME NEW a \in Answer, NEW b \in BOOLEAN
        PROVE  LET c == [a EXCEPT !.missed = a.missed \/ b]
               IN  c \in Answer /\ (b => c.missed) /\ (~b => c = a)
    BY DEF Answer
  <1>3. ASSUME NEW j \in 1..n
        PROVE  /\ overtaken[j] \in Answer
               /\ j < i => overtaken[j].missed
               /\ ~(j < i) => overtaken[j] = list[j]
    <2> DEFINE b == j < i
    <2>1. overtaken[j] = [list[j] EXCEPT !.missed = list[j].missed \/ b]
      BY <1>1 DEF Overtaken
    <2>2. b \in BOOLEAN /\ list[j] \in Answer
      BY <1>1
    <2> HIDE DEF overtaken, b
    <2>3. overtaken[j] \in Answer /\ (b => overtaken[j].missed)
          /\ (~b => overtaken[j] = list[j])
      BY <1>2, <2>1, <2>2
    <2> QED  BY <2>3 DEF b
  <1>4. overtaken \in [1..n -> Answer]
    BY <1>1, <1>3 DEF Overtaken
  <1> HIDE DEF overtaken, n
  <1>5. overtaken \in Seq(Answer) /\ Len(overtaken) = n
    <2>1. overtaken \in Seq(Answer)
      BY <1>1, <1>4, SeqDef
    <2> QED  BY <1>1, <1>4, <2>1, LenProperties
  <1>6. i \in 1..n
    BY DEF n
  <1>7. /\ left \in Seq(Answer) /\ Len(left) = n - 1
        /\ \A j \in 1..(n - 1) :
              left[j] = IF j < i THEN overtaken[j] ELSE overtaken[j + 1]
    BY <1>5, <1>6, WithoutInSeq
  <1> HIDE DEF left
  <1>8. ASSUME NEW j \in 1..(n - 1)
        PROVE  IF j < i THEN left[j].missed ELSE left[j] = list[j + 1]
    <2>1. j \in 1..n /\ j + 1 \in 1..n /\ (~(j < i) => ~(j + 1 < i))
      BY <1>1, <1>6
    <2> QED  BY <1>3, <1>7, <2>1
  <1> QED  BY <1>7, <1>8 DEF left, overtaken, n

LEMMA EmptyList ==
    ASSUME NEW s, IsList(s), Len(s) = 0
    PROVE  s = <<>>
  <1> DEFINE S == {s[i] : i \in 1..Len(s)}
  <1>1. \A i \in 1..Len(s) : s[i] \in S
    OBVIOUS
  <1> HIDE DEF S
  <1> QED  BY <1>1, ListIsSeq, EmptySeq

(* The bank selected after a load is one of those that were loaded.         *)
LEMMA Clamped ==
    ASSUME NEW doc \in Documents, NEW bank \in Nat \ {0}
    PROVE  /\ ClampSelection(bank, doc) \in Nat \ {0}
           /\ \/ Banks(Rendered(doc)) = <<>>
              \/ ClampSelection(bank, doc) <= Len(Banks(Rendered(doc)))
  <1>1. GoodDoc(Rendered(doc)) /\ Banks(Rendered(doc)) = Banks(doc)
    BY ShownDoc
  <1>2. IsList(Banks(doc)) /\ Len(Banks(doc)) \in Nat
    BY <1>1, ListDomain DEF GoodDoc, GoodBanks
  <1>3. Banks(doc) # <<>> => Len(Banks(doc)) # 0
    BY <1>2, EmptyList
  <1> QED  BY <1>1, <1>2, <1>3 DEF ClampSelection, AtMost

LEMMA NetworkTyped ==
    ASSUME TypeInv, NEW p \in Pages, NetworkStep(p)
    PROVE  TypeInv'
  <1>1. CASE Connect(p)
    <2>1. LinkTyped'
      BY <1>1 DEF Connect, TypeInv, LinkTyped
    <2>2. DeviceTyped' /\ EditorTyped' /\ DataTyped' /\ AnswersTyped' /\ PostsTyped'
      BY <1>1 DEF Connect, TypeInv, device_vars, editor_vars, DeviceTyped, EditorTyped,
                  DataTyped, AnswersTyped, PostsTyped
    <2> QED  BY <2>1, <2>2 DEF TypeInv
  <1>2. CASE Disconnect(p)
    <2>1. LinkTyped'
      BY <1>2, OneEvent DEF Disconnect, TypeInv, LinkTyped
    <2>2. AnswersTyped'
      BY <1>2, MissesMarks DEF Disconnect, TypeInv, AnswersTyped
    <2>3. DeviceTyped' /\ EditorTyped' /\ DataTyped' /\ PostsTyped'
      BY <1>2 DEF Disconnect, TypeInv, device_vars, editor_vars, DeviceTyped,
                  EditorTyped, DataTyped, PostsTyped
    <2> QED  BY <2>1, <2>2, <2>3 DEF TypeInv
  <1>3. CASE ReceiveNotice(p)
    <2>1. notices' \in [Pages -> Nat]
      BY <1>3 DEF ReceiveNotice, TypeInv, LinkTyped
    <2>2. LinkTyped' /\ AnswersTyped'
      <3>1. CASE Loaded(p)
        BY <1>3, <2>1, <3>1, MoreAsked
           DEF ReceiveNotice, NobodyMisses, TypeInv, LinkTyped, AnswersTyped
      <3>2. CASE ~Loaded(p)
        BY <1>3, <2>1, <3>2, MissesMarks
           DEF ReceiveNotice, TypeInv, LinkTyped, AnswersTyped
      <3> QED  BY <3>1, <3>2
    <2>3. DeviceTyped' /\ EditorTyped' /\ DataTyped' /\ PostsTyped'
      BY <1>3 DEF ReceiveNotice, TypeInv, device_vars, editor_vars, DeviceTyped,
                  EditorTyped, DataTyped, PostsTyped
    <2> QED  BY <2>2, <2>3 DEF TypeInv
  <1>4. CASE ReceiveConfig(p)
    <2>1. PICK i \in DOMAIN answers[p] :
             LET doc == answers[p][i].doc
             IN  /\ data' = [data EXCEPT ![p] = Rendered(doc)]
                 /\ baseline' = [baseline EXCEPT ![p] = doc]
                 /\ selected' = [selected EXCEPT ![p] = ClampSelection(@, doc)]
                 /\ canSave' = [canSave EXCEPT ![p] = FALSE]
                 /\ canRevert' = [canRevert EXCEPT ![p] = FALSE]
                 /\ missed' = [missed EXCEPT ![p] = answers[p][i].missed]
                 /\ answers' = [answers EXCEPT ![p] = WithoutIndex(Overtaken(@, i), i)]
                 /\ UNCHANGED <<device_vars, ws, notices, asked, posts, events>>
      BY <1>4 DEF ReceiveConfig
    <2> DEFINE doc == answers[p][i].doc
               left == WithoutIndex(Overtaken(answers[p], i), i)
    <2>2. answers[p] \in Seq(Answer) /\ i \in 1..Len(answers[p])
          /\ answers[p][i] \in Answer
      BY DEF TypeInv, AnswersTyped
    <2>3. doc \in Documents /\ answers[p][i].missed \in BOOLEAN
      BY <2>2 DEF Answer
    <2>5. ClampSelection(selected[p], doc) \in Nat \ {0}
      BY <2>3, Clamped DEF TypeInv, EditorTyped
    <2>6. GoodDoc(Rendered(doc))
      BY <2>3, ShownDoc
    <2>7. left \in Seq(Answer)
      BY <2>2, OneAnswerLess, Zenon
    <2>8. answers' = [answers EXCEPT ![p] = left]
      BY <2>1, Zenon
    <2> HIDE DEF doc, left
    <2>9. AnswersTyped'
      BY <2>1, <2>3, <2>7, <2>8 DEF TypeInv, AnswersTyped
    <2>10. DataTyped'
      BY <2>1, <2>6 DEF doc, TypeInv, DataTyped
    <2>11. EditorTyped'
      BY <2>1, <2>3, <2>5 DEF doc, TypeInv, EditorTyped
    <2>12. DeviceTyped' /\ LinkTyped' /\ PostsTyped'
      BY <2>1 DEF TypeInv, device_vars, DeviceTyped, LinkTyped, PostsTyped
    <2> QED  BY <2>9, <2>10, <2>11, <2>12 DEF TypeInv
  <1>5. CASE LoseGet(p)
    <2>1. LinkTyped'
      BY <1>5, OneEvent, LessAsked DEF LoseGet, TypeInv, LinkTyped
    <2>2. AnswersTyped'
      BY <1>5, MissesMarks DEF LoseGet, TypeInv, AnswersTyped
    <2>3. DeviceTyped' /\ EditorTyped' /\ DataTyped' /\ PostsTyped'
      BY <1>5 DEF LoseGet, TypeInv, device_vars, editor_vars, DeviceTyped, EditorTyped,
                  DataTyped, PostsTyped
    <2> QED  BY <2>1, <2>2, <2>3 DEF TypeInv
  <1>6. CASE LoseConfig(p)
    <2>1. PICK i \in DOMAIN answers[p] :
             Misses({p}, missed, [answers EXCEPT ![p] = WithoutIndex(@, i)])
      BY <1>6 DEF LoseConfig
    <2>2. answers[p] \in Seq(Answer) /\ i \in 1..Len(answers[p])
      BY DEF TypeInv, AnswersTyped
    <2>3. WithoutIndex(answers[p], i) \in Seq(Answer)
      BY <2>2, WithoutInSeq
    <2> DEFINE coming == [answers EXCEPT ![p] = WithoutIndex(@, i)]
    <2>4. coming \in [Pages -> Seq(Answer)]
      BY <2>3 DEF TypeInv, AnswersTyped
    <2> HIDE DEF coming
    <2>5. AnswersTyped'
      BY <2>1, <2>4, MissesMarks DEF coming, TypeInv, AnswersTyped
    <2>6. LinkTyped'
      BY <1>6, OneEvent DEF LoseConfig, TypeInv, LinkTyped
    <2>7. DeviceTyped' /\ EditorTyped' /\ DataTyped' /\ PostsTyped'
      BY <1>6 DEF LoseConfig, TypeInv, device_vars, editor_vars, DeviceTyped,
                  EditorTyped, DataTyped, PostsTyped
    <2> QED  BY <2>5, <2>6, <2>7 DEF TypeInv
  <1>7. CASE LosePost(p)
    <2>1. PostsTyped'
      BY <1>7, AnsweredPosts DEF LosePost, TypeInv
    <2>2. LinkTyped'
      BY <1>7, OneEvent DEF LosePost, TypeInv, LinkTyped
    <2>3. DeviceTyped' /\ EditorTyped' /\ DataTyped' /\ AnswersTyped'
      BY <1>7 DEF LosePost, TypeInv, device_vars, editor_vars, DeviceTyped, EditorTyped,
                  DataTyped, AnswersTyped
    <2> QED  BY <2>1, <2>2, <2>3 DEF TypeInv
  <1>8. CASE PostReturns(p)
    <2>1. PICK i \in DOMAIN posts[p] :
             /\ IF posts[p][i].state = "saved"
                THEN LoadConfig(p) /\ UNCHANGED canSave
                ELSE canSave' = [canSave EXCEPT ![p] = TRUE] /\ UNCHANGED asked
             /\ posts' = [posts EXCEPT ![p] = WithoutIndex(@, i)]
      BY <1>8 DEF PostReturns
    <2> DEFINE new == WithoutIndex(posts[p], i)
               n == Len(posts[p])
    <2>2. /\ DOMAIN posts = Pages /\ IsList(posts[p]) /\ n \in Nat /\ i \in 1..n
          /\ \A j \in 1..n : GoodPost(posts[p][j])
      BY ListDomain DEF TypeInv, PostsTyped, GoodPosts
    <2>3. /\ IsList(new) /\ Len(new) = n - 1
          /\ \A j \in 1..(n - 1) : new[j] = IF j < i THEN posts[p][j] ELSE posts[p][j + 1]
      BY <2>2, WithoutInList
    <2> HIDE DEF new, n
    <2>4. GoodPosts(new)
      <3>1. \A j \in 1..(n - 1) : j \in 1..n /\ j + 1 \in 1..n
        BY <2>2
      <3> QED  BY <2>2, <2>3, <3>1 DEF GoodPosts
    <2>5. posts' = [posts EXCEPT ![p] = new]
      BY <2>1 DEF new
    <2>6. PostsTyped'
      BY <2>4, <2>5 DEF TypeInv, PostsTyped
    <2>7. LinkTyped'
      BY <1>8, <2>1, MoreAsked DEF PostReturns, TypeInv, LinkTyped
    <2>8. EditorTyped'
      BY <1>8, <2>1 DEF PostReturns, TypeInv, EditorTyped
    <2>9. DeviceTyped' /\ DataTyped' /\ AnswersTyped'
      BY <1>8 DEF PostReturns, TypeInv, device_vars, DeviceTyped, DataTyped, AnswersTyped
    <2> QED  BY <2>6, <2>7, <2>8, <2>9 DEF TypeInv
  <1> QED  BY <1>1, <1>2, <1>3, <1>4, <1>5, <1>6, <1>7, <1>8 DEF NetworkStep

LEMMA TypeNext ==
    ASSUME TypeInv, [Next]_vars
    PROVE  TypeInv'
  <1>1. ASSUME NEW p \in Pages, UserStep(p) \/ DeviceStep(p) \/ NetworkStep(p)
        PROVE  TypeInv'
    BY <1>1, UserTyped, DeviceTypedStep, NetworkTyped
  <1>2. CASE Restart
    BY <1>2, RestartTyped
  <1>3. CASE UNCHANGED vars
    BY <1>3 DEF vars, editor_vars, TypeInv, DeviceTyped, LinkTyped, EditorTyped, DataTyped,
                AnswersTyped, PostsTyped
  <1> QED  BY <1>1, <1>2, <1>3 DEF Next

(* Only these steps touch what a page shows.                                *)
LEMMA EditorSteps ==
    ASSUME TypeInv, [Next]_vars
    PROVE  \/ UNCHANGED <<data, baseline, selected, canRevert>>
           \/ \E p \in Pages : Edited(p) \/ SelectBank(p) \/ Revert(p) \/ ReceiveConfig(p)
  <1>1. ASSUME NEW p \in Pages, UserStep(p)
        PROVE  \/ UNCHANGED <<data, baseline, selected, canRevert>>
               \/ Edited(p) \/ SelectBank(p) \/ Revert(p)
    <2>1. CASE EditBank(p) \/ AddBank(p) \/ DeleteBank(p) \/ ImportFile(p)
      BY <2>1, Edits
    <2>2. CASE Save(p) \/ OpenTab(p)
      BY <2>2 DEF Save, OpenTab, editor_vars
    <2> QED  BY <1>1, <2>1, <2>2 DEF UserStep
  <1>2. ASSUME NEW p \in Pages, DeviceStep(p)
        PROVE  UNCHANGED <<data, baseline, selected, canRevert>>
    BY <1>2 DEF DeviceStep, HandleGet, RefusePost, PostUnsaved, PostSaved, editor_vars
  <1>3. ASSUME NEW p \in Pages, NetworkStep(p)
        PROVE  \/ UNCHANGED <<data, baseline, selected, canRevert>>
               \/ ReceiveConfig(p)
    BY <1>3 DEF NetworkStep, Connect, Disconnect, ReceiveNotice, LoseGet, LoseConfig,
                LosePost, PostReturns, editor_vars
  <1>4. CASE Restart
    BY <1>4 DEF Restart, editor_vars
  <1>5. CASE UNCHANGED vars
    BY <1>5 DEF vars, editor_vars
  <1> QED  BY <1>1, <1>2, <1>3, <1>4, <1>5 DEF Next

LEMMA DataNext ==
    ASSUME TypeInv, DataInv, [Next]_vars
    PROVE  DataInv'
  <1>1. DOMAIN data = Pages /\ baseline \in [Pages -> Documents \cup {Null}]
        /\ canRevert \in [Pages -> BOOLEAN]
    BY DEF TypeInv, DataTyped, EditorTyped
  <1>2. CASE UNCHANGED <<data, baseline, selected, canRevert>>
    BY <1>2 DEF DataInv, Loaded
  <1>3. ASSUME NEW p \in Pages, Edited(p)  PROVE DataInv'
    <2>1. PICK doc, bank : MarkDirty(p, doc, bank)
      BY <1>3 DEF Edited
    <2>2. canRevert'[p] /\ baseline' = baseline
          /\ \A q \in Pages : q # p => data'[q] = data[q] /\ canRevert'[q] = canRevert[q]
      BY <1>1, <2>1 DEF MarkDirty
    <2> QED  BY <2>2 DEF DataInv, Loaded
  <1>4. ASSUME NEW p \in Pages, SelectBank(p)  PROVE DataInv'
    BY <1>4 DEF SelectBank, DataInv, Loaded
  <1>5. ASSUME NEW p \in Pages, Revert(p)  PROVE DataInv'
    <2>1. baseline[p] \in Documents /\ baseline' = baseline
      BY <1>1, <1>5 DEF Revert
    <2>2. /\ data'[p] = Rendered(baseline[p])
          /\ \A q \in Pages : q # p => data'[q] = data[q] /\ canRevert'[q] = canRevert[q]
      BY <1>1, <1>5 DEF Revert
    <2> QED  BY <2>1, <2>2 DEF DataInv, Loaded
  <1>6. ASSUME NEW p \in Pages, ReceiveConfig(p)  PROVE DataInv'
    <2>1. PICK i \in DOMAIN answers[p] :
             /\ data' = [data EXCEPT ![p] = Rendered(answers[p][i].doc)]
             /\ baseline' = [baseline EXCEPT ![p] = answers[p][i].doc]
             /\ canRevert' = [canRevert EXCEPT ![p] = FALSE]
      BY <1>6 DEF ReceiveConfig
    <2>2. answers[p][i].doc \in Documents
      <3>1. answers[p] \in Seq(Answer)
        BY DEF TypeInv, AnswersTyped
      <3>2. answers[p][i] \in Answer
        BY <3>1
      <3> QED  BY <3>2 DEF Answer
    <2>3. /\ data'[p] = Rendered(baseline'[p]) /\ baseline'[p] \in Documents
          /\ \A q \in Pages : q # p => /\ data'[q] = data[q]
                                       /\ baseline'[q] = baseline[q]
                                       /\ canRevert'[q] = canRevert[q]
      BY <1>1, <2>1, <2>2
    <2> QED  BY <2>3 DEF DataInv, Loaded
  <1> QED  BY <1>2, <1>3, <1>4, <1>5, <1>6, EditorSteps

-------------------------------------------------------------------------------
(* Nothing a page could have noticed gets lost *)
LEMMA QuietFollows ==
    ASSUME FollowInv, UNCHANGED <<ram, baseline, missed, answers>>,
           \A q \in Pages : Coming(q) => Coming(q)'
    PROVE  FollowInv'
  BY DEF FollowInv, Follows, Delivered

LEMMA MissFollows ==
    ASSUME TypeInv, FollowInv, UNCHANGED baseline,
           NEW S, NEW coming \in [Pages -> Seq(Answer)],
           Misses(S, missed, coming),
           \A q \in Pages : q \in S \/ coming[q] = answers[q],
           \A q \in Pages : q \in S \/ Coming(q)' \/ (ram' = ram /\ (Coming(q) => Coming(q)'))
    PROVE  FollowInv'
  <1>1. missed \in [Pages -> BOOLEAN]
    BY DEF TypeInv, AnswersTyped
  <1> SUFFICES ASSUME NEW q \in Pages  PROVE Follows(q)'
    BY DEF FollowInv
  <1>2. Follows(q)
    BY DEF FollowInv
  <1>3. CASE q \in S
    <2>1. missed'[q] /\ \A i \in 1..Len(answers'[q]) : answers'[q][i].missed
      BY <1>1, <1>3, MissesMarks
    <2> QED  BY <2>1 DEF Follows, Delivered
  <1>4. CASE q \notin S
    <2>1. missed'[q] = missed[q] /\ answers'[q] = answers[q]
      BY <1>1, <1>4, MissesMarks
    <2> QED  BY <1>2, <1>4, <2>1 DEF Follows, Delivered
  <1> QED  BY <1>3, <1>4

LEMMA UserFollows ==
    ASSUME TypeInv, FollowInv, NEW p \in Pages, UserStep(p)
    PROVE  FollowInv'
  <1>1. CASE EditBank(p) \/ AddBank(p) \/ DeleteBank(p) \/ ImportFile(p)
    <2>1. Edited(p)
      BY <1>1, Edits
    <2> QED  BY <2>1, QuietFollows DEF Edited, MarkDirty, device_vars, Coming
  <1>2. CASE SelectBank(p) \/ Revert(p) \/ Save(p)
    BY <1>2, QuietFollows DEF SelectBank, Revert, Save, device_vars, Coming
  <1>3. CASE OpenTab(p)
    <2>1. \A q \in Pages : asked'[q] = IF q = p THEN asked[p] + 1 ELSE asked[q]
      BY <1>3, MoreAsked DEF OpenTab, TypeInv
    <2>2. asked[p] \in Nat
      BY Limits DEF TypeInv, LinkTyped
    <2> QED  BY <1>3, <2>1, <2>2, QuietFollows DEF OpenTab, device_vars, editor_vars, Coming
  <1> QED  BY <1>1, <1>2, <1>3 DEF UserStep

LEMMA DeviceFollows ==
    ASSUME TypeInv, FollowInv, NEW p \in Pages, DeviceStep(p)
    PROVE  FollowInv'
  <1>1. /\ notices \in [Pages -> Nat] /\ answers \in [Pages -> Seq(Answer)]
        /\ asked \in [Pages -> Nat]
    BY Limits DEF TypeInv, LinkTyped, AnswersTyped
  <1>2. CASE HandleGet(p)
    <2> SUFFICES ASSUME NEW q \in Pages  PROVE Follows(q)'
      BY DEF FollowInv
    <2>1. PICK answer \in Answer : /\ answers' = [answers EXCEPT ![p] = Append(@, answer)]
                                   /\ answer.missed \/ answer.doc = Delivered
      BY <1>2, GetAnswer DEF TypeInv
    <2>2. answers' = [answers EXCEPT ![p] = Append(answers[p], answer)]
          /\ Delivered' = Delivered
          /\ UNCHANGED <<ram, baseline, missed, notices>>
          /\ asked' = [asked EXCEPT ![p] = asked[p] - 1]
      BY <1>2, <2>1 DEF HandleGet, device_vars, editor_vars, Delivered
    <2>3. Follows(q)
      BY DEF FollowInv
    <2>4. CASE q = p
      <3> DEFINE n == Len(answers[p])
                 new == Append(answers[p], answer)
      <3>1. /\ new \in Seq(Answer) /\ Len(new) = n + 1 /\ n \in Nat
            /\ \A i \in 1..n : new[i] = answers[p][i]
            /\ new[n + 1] = answer
        BY <1>1, <2>1, AppendProperties, LenProperties
      <3>2. answers'[p] = new
        BY <1>1, <2>2
      <3> HIDE DEF new
      <3>3. new # <<>>
        BY <3>1, EmptyLists
      <3>4. \A i \in 1..Len(new) :
               i < Len(new) \/ new[i].missed \/ new[i].doc = Delivered
        BY <2>1, <3>1
      <3> HIDE DEF n
      <3> QED  BY <2>2, <2>4, <3>2, <3>3, <3>4 DEF Follows
    <2>5. CASE q # p
      <3>1. answers'[q] = answers[q] /\ asked'[q] = asked[q]
        BY <1>1, <2>2, <2>5
      <3> QED  BY <2>2, <2>3, <3>1 DEF Follows, Coming
    <2> QED  BY <2>4, <2>5
  <1>3. CASE RefusePost(p)
    BY <1>3, QuietFollows DEF RefusePost, device_vars, editor_vars, Coming
  <1>4. CASE PostUnsaved(p)
    <2> DEFINE S == IF ram' = ram THEN {} ELSE Pages
    <2>1. Misses(S, missed, answers) /\ UNCHANGED <<baseline, notices, asked>>
      BY <1>4 DEF PostUnsaved, editor_vars
    <2>2. \A q \in Pages : q \in S \/ ram' = ram
      OBVIOUS
    <2> HIDE DEF S
    <2> QED  BY <1>1, <2>1, <2>2, MissFollows DEF Coming
  <1>5. CASE PostSaved(p)
    <2> DEFINE S == {q \in Pages : ~ws[q] /\ ram' # ram}
    <2>1. Misses(S, missed, answers) /\ UNCHANGED <<baseline, asked>>
          /\ notices' = ConfigChanged(p)
      BY <1>5 DEF PostSaved, editor_vars
    <2>2. ASSUME NEW q \in Pages
          PROVE  IF ws[q] THEN notices'[q] = notices[q] + 1 ELSE notices'[q] = notices[q]
      BY <1>1, <2>1 DEF ConfigChanged
    <2>3. ASSUME NEW q \in Pages
          PROVE  q \in S \/ Coming(q)' \/ (ram' = ram /\ (Coming(q) => Coming(q)'))
      BY <1>1, <2>1, <2>2 DEF Coming
    <2> HIDE DEF S
    <2> QED  BY <1>1, <2>1, <2>3, MissFollows
  <1> QED  BY <1>2, <1>3, <1>4, <1>5 DEF DeviceStep

LEMMA RestartFollows ==
    ASSUME TypeInv, FollowInv, Restart
    PROVE  FollowInv'
  <1> DEFINE S == {p \in Pages : ram' # ram \/ notices[p] > 0}
  <1>1. /\ notices \in [Pages -> Nat] /\ answers \in [Pages -> Seq(Answer)]
    BY DEF TypeInv, LinkTyped, AnswersTyped
  <1>2. Misses(S, missed, answers) /\ UNCHANGED <<baseline, asked>>
    BY DEF Restart, editor_vars
  <1>3. ASSUME NEW q \in Pages
        PROVE  q \in S \/ (ram' = ram /\ (Coming(q) => Coming(q)'))
    BY <1>1, <1>2 DEF Coming
  <1> HIDE DEF S
  <1> QED  BY <1>1, <1>2, <1>3, MissFollows

LEMMA NetworkFollows ==
    ASSUME TypeInv, FollowInv, NEW p \in Pages, NetworkStep(p)
    PROVE  FollowInv'
  <1>1. /\ notices \in [Pages -> Nat] /\ answers \in [Pages -> Seq(Answer)]
        /\ asked \in [Pages -> Nat]
    BY Limits DEF TypeInv, LinkTyped, AnswersTyped
  <1>2. CASE Connect(p) \/ LosePost(p)
    BY <1>2, QuietFollows DEF Connect, LosePost, device_vars, editor_vars, Coming
  <1>3. CASE Disconnect(p)
    <2> DEFINE S == IF notices[p] > 0 THEN {p} ELSE {}
    <2>1. Misses(S, missed, answers) /\ UNCHANGED <<ram, baseline, asked>>
          /\ notices' = [notices EXCEPT ![p] = 0]
      BY <1>3 DEF Disconnect, device_vars, editor_vars
    <2>2. \A q \in Pages : q \in S \/ (Coming(q) => Coming(q)')
      BY <1>1, <2>1 DEF Coming
    <2> HIDE DEF S
    <2> QED  BY <1>1, <2>1, <2>2, MissFollows
  <1>4. CASE ReceiveNotice(p)
    <2>1. CASE Loaded(p)
      <3>1. \A q \in Pages : asked'[q] = IF q = p THEN asked[p] + 1 ELSE asked[q]
        BY <1>4, <2>1, MoreAsked DEF ReceiveNotice, TypeInv
      <3>2. \A q \in Pages : q # p => notices'[q] = notices[q]
        BY <1>1, <1>4 DEF ReceiveNotice
      <3>3. ASSUME NEW q \in Pages, Coming(q)  PROVE Coming(q)'
        <4>1. CASE q = p
          BY <1>1, <3>1, <4>1 DEF Coming
        <4>2. CASE q # p
          BY <3>1, <3>2, <3>3, <4>2 DEF Coming
        <4> QED  BY <4>1, <4>2
      <3> QED  BY <1>4, <2>1, <3>3, QuietFollows
               DEF ReceiveNotice, NobodyMisses, device_vars, editor_vars
    <2>2. CASE ~Loaded(p)
      <3>1. Misses({p}, missed, answers) /\ UNCHANGED <<ram, baseline, asked>>
            /\ \A q \in Pages : q # p => notices'[q] = notices[q]
        BY <1>1, <1>4, <2>2 DEF ReceiveNotice, device_vars, editor_vars
      <3>2. \A q \in Pages : q \in {p} \/ (Coming(q) => Coming(q)')
        BY <3>1 DEF Coming
      <3> QED  BY <1>1, <3>1, <3>2, MissFollows
    <2> QED  BY <2>1, <2>2
  <1>5. CASE ReceiveConfig(p)
    <2> SUFFICES ASSUME NEW q \in Pages  PROVE Follows(q)'
      BY DEF FollowInv
    <2>1. Follows(q)
      BY DEF FollowInv
    <2>2. PICK i \in DOMAIN answers[p] :
             /\ baseline' = [baseline EXCEPT ![p] = answers[p][i].doc]
             /\ Delivered' = Delivered
             /\ missed' = [missed EXCEPT ![p] = answers[p][i].missed]
             /\ answers' = [answers EXCEPT ![p] = WithoutIndex(Overtaken(@, i), i)]
             /\ UNCHANGED <<ram, asked, notices>>
      BY <1>5 DEF ReceiveConfig, device_vars, Delivered
    <2>3. missed \in [Pages -> BOOLEAN] /\ DOMAIN baseline = Pages
      BY DEF TypeInv, AnswersTyped, EditorTyped
    <2>4. CASE q = p
      <3> DEFINE n == Len(answers[p])
                 left == WithoutIndex(Overtaken(answers[p], i), i)
      <3>1. n \in Nat /\ i \in 1..n
        BY <1>1
      <3>2. /\ Len(left) = n - 1 /\ left \in Seq(Answer)
            /\ \A j \in 1..(n - 1) :
                  IF j < i THEN left[j].missed ELSE left[j] = answers[p][j + 1]
        BY <1>1, <3>1, OneAnswerLess
      <3>3. /\ answers'[p] = left
            /\ missed'[p] = answers[p][i].missed
            /\ baseline'[p] = answers[p][i].doc
        BY <1>1, <2>2, <2>3
      <3>4. /\ \A j \in 1..n : ~answers[p][j].missed =>
                  answers[p][j].doc = Delivered \/ Coming(p) \/ j < n
        BY <2>1, <2>4 DEF Follows
      <3> HIDE DEF left, n
      <3>5. Coming(p)' = Coming(p)
        BY <2>2 DEF Coming
      <3>6. n > 1 => left # <<>>
        BY <3>1, <3>2, EmptyLists
      <3>7. ~missed'[p] => baseline'[p] = Delivered' \/ Coming(p)' \/ answers'[p] # <<>>
        BY <2>2, <3>1, <3>3, <3>4, <3>5, <3>6
      <3>8. ASSUME NEW j \in 1..Len(left), ~left[j].missed
            PROVE  left[j].doc = Delivered \/ Coming(p) \/ j < Len(left)
        <4>1. j \in 1..(n - 1) /\ j + 1 \in 1..n
          BY <3>1, <3>2
        <4>2. left[j] = answers[p][j + 1]
          BY <3>2, <3>8, <4>1
        <4>3. answers[p][j + 1].doc = Delivered \/ Coming(p) \/ j + 1 < n
          BY <3>4, <3>8, <4>1, <4>2
        <4> QED  BY <3>1, <3>2, <4>1, <4>2, <4>3
      <3> QED  BY <2>2, <2>4, <3>3, <3>5, <3>7, <3>8 DEF Follows
    <2>5. CASE q # p
      <3>1. /\ answers'[q] = answers[q] /\ missed'[q] = missed[q]
            /\ baseline'[q] = baseline[q]
        BY <1>1, <2>2, <2>3, <2>5
      <3> QED  BY <2>1, <2>2, <3>1 DEF Follows, Coming
    <2> QED  BY <2>4, <2>5
  <1>6. CASE LoseGet(p)
    <2>1. Misses({p}, missed, answers) /\ UNCHANGED <<ram, baseline, notices>>
          /\ \A q \in Pages : q # p => asked'[q] = asked[q]
      BY <1>1, <1>6 DEF LoseGet, device_vars, editor_vars
    <2>2. \A q \in Pages : q \in {p} \/ (Coming(q) => Coming(q)')
      BY <2>1 DEF Coming
    <2> QED  BY <1>1, <2>1, <2>2, MissFollows
  <1>7. CASE LoseConfig(p)
    <2>1. PICK i \in DOMAIN answers[p] :
             Misses({p}, missed, [answers EXCEPT ![p] = WithoutIndex(@, i)])
      BY <1>7 DEF LoseConfig
    <2> DEFINE coming == [answers EXCEPT ![p] = WithoutIndex(@, i)]
    <2>2. WithoutIndex(answers[p], i) \in Seq(Answer)
      BY <1>1, WithoutInSeq
    <2>3. coming \in [Pages -> Seq(Answer)] /\ \A q \in Pages : q # p => coming[q] = answers[q]
      BY <1>1, <2>2
    <2> HIDE DEF coming
    <2>4. UNCHANGED <<ram, baseline, notices, asked>>
      BY <1>7 DEF LoseConfig, device_vars, editor_vars
    <2>5. Misses({p}, missed, coming)
      BY <2>1 DEF coming
    <2>6. \A q \in Pages : Coming(q) => Coming(q)'
      BY <2>4 DEF Coming
    <2> QED  BY <2>3, <2>4, <2>5, <2>6, MissFollows
  <1>8. CASE PostReturns(p)
    <2>1. \/ LoadConfig(p)
          \/ UNCHANGED asked
      BY <1>8 DEF PostReturns
    <2>2. \A q \in Pages : asked'[q] = asked[q] \/ asked'[q] = asked[q] + 1
      BY <2>1, MoreAsked DEF TypeInv
    <2>3. UNCHANGED <<ram, baseline, missed, answers, notices>>
      BY <1>8 DEF PostReturns, device_vars
    <2>4. \A q \in Pages : Coming(q) => Coming(q)'
      BY <1>1, <2>2, <2>3 DEF Coming
    <2> QED  BY <2>3, <2>4, QuietFollows
  <1> QED  BY <1>2, <1>3, <1>4, <1>5, <1>6, <1>7, <1>8 DEF NetworkStep

LEMMA FollowNext ==
    ASSUME TypeInv, FollowInv, [Next]_vars
    PROVE  FollowInv'
  <1>1. ASSUME NEW p \in Pages, UserStep(p) \/ DeviceStep(p) \/ NetworkStep(p)
        PROVE  FollowInv'
    BY <1>1, UserFollows, DeviceFollows, NetworkFollows
  <1>2. CASE Restart
    BY <1>2, RestartFollows
  <1>3. CASE UNCHANGED vars
    BY <1>3, QuietFollows DEF vars, editor_vars, Coming
  <1> QED  BY <1>1, <1>2, <1>3 DEF Next

LEMMA Invariance == Spec => []IInv
  <1>1. ASSUME IInv, [Next]_vars  PROVE IInv'
    BY <1>1, TypeNext, DataNext, FollowNext DEF IInv
  <1> QED  BY <1>1, InitIInv, PTL DEF Spec

-------------------------------------------------------------------------------
(* All variables keep their types: whatever is typed, imported, lost or     *)
(* posted by whichever page, the firmware holds a configuration that fits   *)
(* its structures, with at least one bank (config_store.c:271-351).         *)
THEOREM TypeCorrect == Spec => []TypeOK
  <1>1. IInv => TypeOK
    BY DEF IInv, TypeInv, DeviceTyped, LinkTyped, EditorTyped, TypeOK
  <1> QED  BY <1>1, Invariance, PTL

(* A page that could notice every change, and got the configuration whole,  *)
(* shows what the device has, and by sending it back would change no more   *)
(* than names that were cut in the middle of a character, however requests, *)
(* answers and notices of any number of pages are reordered                 *)
(* (web_server.c:405-411, index.html:403-406, 474-491).                     *)
THEOREM PagesFollowTheDevice == Spec => []PagesFollow
  <1>1. ASSUME IInv  PROVE PagesFollow
    <2> DEFINE renamed == Renamed(ram, CutAfter(AsRead))
    <2> SUFFICES ASSUME NEW p \in Pages, Idle(p), ~missed[p]
                 PROVE  /\ baseline[p] = Delivered
                        /\ ~canRevert[p] => ConfigOf(Normalised(data[p])) = renamed
      BY DEF PagesFollow
    <2>1. Follows(p) /\ ram \in Config
      BY <1>1 DEF IInv, FollowInv, TypeInv, DeviceTyped
    <2>2. notices[p] \in Nat /\ asked[p] \in Nat
      BY <1>1, Limits DEF IInv, TypeInv, LinkTyped
    <2>3. ~Coming(p) /\ answers[p] = <<>>
      BY <2>2 DEF Idle, Coming
    <2>4. baseline[p] = Delivered
      BY <2>1, <2>3 DEF Follows
    <2>5. ASSUME ~canRevert[p]  PROVE ConfigOf(Normalised(data[p])) = renamed
      <3>1. data[p] = Rendered(EncodeConfig(ram, AsRead))
        BY <1>1, <2>4, <2>5 DEF IInv, DataInv, Idle, Delivered
      <3> QED  BY <2>1, <3>1, UneditedSaveChangesOnlyNames
    <2> QED  BY <2>4, <2>5
  <1> QED  BY <1>1, Invariance, PTL

(* What the device has, in RAM and in flash, is decoded from its own        *)
(* encoding without a change: a restart loses nothing that was saved.       *)
THEOREM EncodingIsLossless == Spec => []RoundTrip
  <1>1. IInv => RoundTrip
    BY ConfigRoundTrip, NothingRenamed DEF IInv, TypeInv, DeviceTyped, RoundTrip
  <1> QED  BY <1>1, Invariance, PTL

(* What a press can send has the type of a message. *)
LEMMA SendableTyped ==
    ASSUME NEW config \in Config
    PROVE  Sendable(config) \subseteq Message
  <1> DEFINE slots == {config.banks[k].programs[s] :
                          k \in DOMAIN config.banks, s \in 1..ProgramsPerBank}
             lists == {config.global.user_function_a, config.global.user_function_b}
                \cup {slot.primary.messages : slot \in slots}
                \cup {slot.alternative.messages : slot \in slots}
  <1>1. config.banks \in Seq(Bank) /\ config.global \in Global
    BY DEF Config
  <1>2. slots \subseteq Slot
    <2>1. ASSUME NEW k \in DOMAIN config.banks, NEW s \in 1..ProgramsPerBank
          PROVE  config.banks[k].programs[s] \in Slot
      <3>1. config.banks[k] \in Bank
        BY <1>1
      <3> QED  BY <3>1 DEF Bank
    <2> QED  BY <2>1
  <1>3. \A slot \in Slot : slot.primary \in Payload /\ slot.alternative \in Payload
    <2>1. EmptyPayload \in Payload
      BY EmptyTyped
    <2> QED  BY <2>1 DEF Slot
  <1>4. lists \subseteq Seq(Message)
    <2>1. \A p \in Payload : p.messages \in Seq(Message)
      BY DEF Payload, MessageList
    <2>2. config.global.user_function_a \in Seq(Message)
          /\ config.global.user_function_b \in Seq(Message)
      BY <1>1 DEF Global, MessageList
    <2> HIDE DEF slots
    <2> QED  BY <1>2, <1>3, <2>1, <2>2
  <1>5. {config.global.tap_message, config.global.tuner_message} \subseteq Message
    BY <1>1 DEF Global
  <1>6. \A list \in lists : {list[i] : i \in DOMAIN list} \subseteq Message
    <2> HIDE DEF lists
    <2> QED  BY <1>4
  <1>7. Sendable(config) = {config.global.tap_message, config.global.tuner_message}
           \cup UNION {{list[i] : i \in DOMAIN list} : list \in lists}
    BY DEF Sendable
  <1> HIDE DEF lists, slots
  <1> QED  BY <1>5, <1>6, <1>7

(* Whatever was typed or imported, each message the device can be made to   *)
(* send, from a program, an alternative, a user function, the tap or the    *)
(* tuner, goes out as MIDI (midi_out.c:42-65).                              *)
THEOREM AlwaysMidi == Spec => []SoundsLikeMidi
  <1>1. IInv => SoundsLikeMidi
    BY SendableTyped, WireBytesAreMidi DEF IInv, TypeInv, DeviceTyped, SoundsLikeMidi
  <1> QED  BY <1>1, Invariance, PTL

(* Only a revert can leave a page editing a bank that its document does not *)
(* have: no deletion, import or load, in whatever order, does               *)
(* (index.html:480, 888, 893, 929-937).                                     *)
THEOREM SelectionIsKept == Spec => OnlyRevertLosesTheBank
  <1>1. ASSUME TypeInv, [Next]_vars, NEW q \in Pages,
               SelectionExists(q), ~SelectionExists(q)'
        PROVE  Revert(q)
    <2>1. DOMAIN data = Pages /\ selected \in [Pages -> Nat \ {0}]
      BY <1>1 DEF TypeInv, DataTyped, EditorTyped
    <2>2. ~UNCHANGED <<data[q], selected[q]>>
      BY <1>1 DEF SelectionExists, Loaded
    <2>3. PICK p \in Pages : Edited(p) \/ SelectBank(p) \/ Revert(p) \/ ReceiveConfig(p)
      BY <1>1, <2>2, EditorSteps
    <2>4. CASE Edited(p)
      <3>1. PICK doc, bank : /\ MarkDirty(p, doc, bank)
                             /\ Banks(doc) = <<>> \/ bank <= Len(Banks(doc))
        BY <2>4 DEF Edited
      <3>2. \A x \in Pages : IF x = p THEN data'[x] = doc /\ selected'[x] = bank
                                      ELSE data'[x] = data[x] /\ selected'[x] = selected[x]
        BY <2>1, <3>1 DEF MarkDirty
      <3> QED  BY <1>1, <2>2, <3>1, <3>2 DEF SelectionExists
    <2>5. CASE SelectBank(p)
      <3>1. PICK bank \in 1..Len(Banks(data[p])) :
               selected' = [selected EXCEPT ![p] = bank]
        BY <2>5 DEF SelectBank
      <3>2. data' = data /\ GoodDoc(data[p])
        BY <1>1, <2>5 DEF SelectBank, Loaded, TypeInv, DataTyped
      <3>3. Len(Banks(data[p])) \in Nat
        BY <3>2, ListDomain DEF GoodDoc, GoodBanks
      <3>4. bank <= Len(Banks(data[p]))
        BY <3>1, <3>3
      <3>5. \A x \in Pages : selected'[x] = IF x = p THEN bank ELSE selected[x]
        BY <2>1, <3>1
      <3> QED  BY <1>1, <2>2, <3>2, <3>4, <3>5 DEF SelectionExists
    <2>6. CASE Revert(p)
      <3>1. \A x \in Pages : x # p => data'[x] = data[x] /\ selected' = selected
        BY <2>1, <2>6 DEF Revert
      <3>2. q = p
        BY <2>2, <3>1
      <3> QED  BY <2>6, <3>2
    <2>7. CASE ReceiveConfig(p)
      <3>1. PICK i \in DOMAIN answers[p] :
               /\ data' = [data EXCEPT ![p] = Rendered(answers[p][i].doc)]
               /\ selected' = [selected EXCEPT ![p] =
                                  ClampSelection(@, answers[p][i].doc)]
        BY <2>7 DEF ReceiveConfig
      <3> DEFINE doc == answers[p][i].doc
      <3>2. doc \in Documents
        <4>1. answers[p] \in Seq(Answer)
          BY <1>1 DEF TypeInv, AnswersTyped
        <4>2. answers[p][i] \in Answer
          BY <4>1
        <4> QED  BY <4>2 DEF Answer
      <3> HIDE DEF doc
      <3>3. \/ Banks(Rendered(doc)) = <<>>
            \/ ClampSelection(selected[p], doc) <= Len(Banks(Rendered(doc)))
        BY <2>1, <3>2, Clamped
      <3>5. \A x \in Pages :
               IF x = p THEN /\ data'[x] = Rendered(doc)
                             /\ selected'[x] = ClampSelection(selected[p], doc)
                        ELSE data'[x] = data[x] /\ selected'[x] = selected[x]
        BY <2>1, <3>1 DEF doc
      <3> QED  BY <1>1, <2>2, <3>3, <3>5 DEF SelectionExists
    <2> QED  BY <2>3, <2>4, <2>5, <2>6, <2>7
  <1>2. ASSUME TypeInv, [Next]_vars
        PROVE  [\A p \in Pages : SelectionExists(p) /\ ~SelectionExists(p)' => Revert(p)]_vars
    BY <1>1, <1>2
  <1>3. IInv => TypeInv
    BY DEF IInv
  <1> QED  BY <1>2, <1>3, Invariance, PTL DEF Spec, OnlyRevertLosesTheBank
===============================================================================
