--------------------------------- MODULE Codec ---------------------------------
(***************************************************************************)
(* The configuration as the firmware holds it and as JSON: the encoders    *)
(* and decoders of components/config_store, the factory defaults, and the  *)
(* bytes components/midi_out makes of a message.  There is no state here.  *)
(*                                                                         *)
(* A decoder of the code returns whether its JSON was well formed and      *)
(* leaves a value behind; here XOk(json) is the one and XOf(json) the      *)
(* other.  XOf is what the code leaves behind also when XOk is false, where *)
(* anything reads it.                                                       *)
(*                                                                         *)
(* Data: numbers are integers in the range of int, a text is a member of   *)
(* Texts, and Cut gives its first MAX_NAME_LEN - 1 bytes, which may end in *)
(* the middle of a character: read is what a text is to who reads the      *)
(* document, AsIs to the firmware itself.  The smoothing factor, a float,  *)
(* is counted in hundredths.                                               *)
(*                                                                         *)
(* UncappedLength, OmitsEmpty and ChannelAsTyped are mistaken versions of  *)
(* what follows them, to try the properties against.                       *)
(***************************************************************************)
EXTENDS Integers, Sequences, FiniteSets

CONSTANTS
    ProgramsPerBank,    \* PROGRAMS_PER_BANK
    MaxBanks,           \* MAX_BANKS
    MaxMessages,        \* MAX_MIDI_MSGS_PER_LIST
    Texts, Cut, NoText, Demo, DemoAlt,
    Numbers,            \* the numbers documents hold
    Uint32,             \* those of them that fit uint32_t
    CastUint32          \* what (uint32_t) makes of a number: of one that does
                        \* not fit, whatever the build gives

ASSUME CodecAssumption ==
    /\ ProgramsPerBank \in Nat \ {0}
    /\ MaxBanks \in Nat \ {0, 1}
    /\ MaxMessages \in Nat \ {0}
    /\ {NoText, Demo, DemoAlt} \subseteq Texts
    /\ Cut \in [Texts -> Texts]
    /\ \A t \in Texts : Cut[Cut[t]] = Cut[t]
    /\ \A t \in {NoText, Demo, DemoAlt} : Cut[t] = t
    /\ Numbers \subseteq Int
    /\ 0..65535 \subseteq Numbers
    /\ {500, 1500, 10000} \subseteq Uint32
    /\ Uint32 \subseteq Numbers
    /\ CastUint32 \in [Numbers -> Uint32]
    /\ \A n \in Uint32 : CastUint32[n] = n

AsIs == [t \in Texts |-> t]
CutAfter(read) == [t \in Texts |-> Cut[read[t]]]

-------------------------------------------------------------------------------
(* JSON, as cJSON holds it.  Absent is what looking up a missing name gives. *)
Number(n) == [kind |-> "number", num |-> n]
String(s) == [kind |-> "string", str |-> s]
Bool(b) == [kind |-> "bool", bool |-> b]
Array(items) == [kind |-> "array", items |-> items]
Object(fields) == [kind |-> "object", fields |-> fields]
Null == [kind |-> "null"]
Absent == [kind |-> "absent"]

Get(json, name) ==
    IF json.kind = "object" /\ name \in DOMAIN json.fields
    THEN json.fields[name]
    ELSE Absent

IsNone(json) == json.kind \in {"null", "absent"}
AtMost(n, max) == IF n > max THEN max ELSE n

Byte == 0..255
Word == 0..65535
Uint8(json) == json.num % 256
Uint16(json) == json.num % 65536

NameOf(json) ==
    LET name == Get(json, "name")
    IN  IF name.kind = "string" THEN Cut[name.str] ELSE NoText

(* What an array holds when not all of its items could be allocated: cJSON   *)
(* adds those there are, in their order.                                    *)
Nth(S, k) == CHOOSE i \in S : Cardinality(S \cap 1..i) = k
Only(items, S) == [k \in 1..Cardinality(S) |-> items[Nth(S, k)]]

-------------------------------------------------------------------------------
(* One MIDI message *)
Message == [type : {"PC"}, num : Byte, val : {0}, ch : Byte]
      \cup [type : {"CC"}, num : Byte, val : Byte, ch : Byte]

EncodeMessage(m) ==
    IF m.type = "PC"
    THEN Object([type |-> String("PC"), num |-> Number(m.num), ch |-> Number(m.ch)])
    ELSE Object([type |-> String("CC"), num |-> Number(m.num),
                 val |-> Number(m.val), ch |-> Number(m.ch)])

IsType(json, type) == Get(json, "type") = String(type)

MessageOk(json) ==
    /\ Get(json, "num").kind = "number"
    /\ Get(json, "ch").kind = "number"
    /\ \/ IsType(json, "PC")
       \/ IsType(json, "CC") /\ Get(json, "val").kind = "number"

MessageOf(json) ==
    [type |-> Get(json, "type").str,
     num  |-> Uint8(Get(json, "num")),
     val  |-> IF IsType(json, "PC") THEN 0 ELSE Uint8(Get(json, "val")),
     ch   |-> Uint8(Get(json, "ch"))]

-------------------------------------------------------------------------------
(* A list of messages, which takes no more than it has room for *)
MessageList == {list \in Seq(Message) : Len(list) <= MaxMessages}

EncodeList(list) == Array([i \in 1..Len(list) |-> EncodeMessage(list[i])])

UncappedLength(json) == Len(json.items)

ListLength(json) == AtMost(Len(json.items), MaxMessages)

ListOk(json) ==
    \/ IsNone(json)
    \/ json.kind = "array" /\ \A i \in 1..ListLength(json) : MessageOk(json.items[i])

(* Decoding stops at the first malformed message and leaves those before it. *)
WellFormed(json) ==
    {n \in 0..ListLength(json) : \A i \in 1..n : MessageOk(json.items[i])}

ListOf(json) ==
    IF json.kind # "array" THEN <<>>
    ELSE LET count == CHOOSE n \in WellFormed(json) :
                          \A k \in WellFormed(json) : k <= n
         IN  [i \in 1..count |-> MessageOf(json.items[i])]

-------------------------------------------------------------------------------
(* Where the expression pedal goes *)
NoTarget == [present |-> FALSE, cc |-> 0, ch |-> 0]
Target == {NoTarget} \cup [present : {TRUE}, cc : Byte, ch : Byte]

EncodeTarget(t) ==
    IF t.present THEN Object([cc |-> Number(t.cc), ch |-> Number(t.ch)]) ELSE Null

TargetOk(json) ==
    \/ IsNone(json)
    \/ Get(json, "cc").kind = "number" /\ Get(json, "ch").kind = "number"

TargetOf(json) ==
    IF IsNone(json) THEN NoTarget
    ELSE [present |-> TRUE, cc |-> Uint8(Get(json, "cc")), ch |-> Uint8(Get(json, "ch"))]

-------------------------------------------------------------------------------
(* What a slot does, in its primary and in its alternative state *)
Name == {Cut[t] : t \in Texts}
Payload == [name : Name, messages : MessageList, expression : Target]
EmptyPayload == [name |-> NoText, messages |-> <<>>, expression |-> NoTarget]

EncodePayload(p, read) ==
    Object([name |-> String(read[p.name]), messages |-> EncodeList(p.messages),
            expression |-> EncodeTarget(p.expression)])

PayloadOk(json) ==
    /\ json.kind = "object"
    /\ ListOk(Get(json, "messages"))
    /\ TargetOk(Get(json, "expression"))

PayloadOf(json) ==
    [name |-> NameOf(json), messages |-> ListOf(Get(json, "messages")),
     expression |-> TargetOf(Get(json, "expression"))]

-------------------------------------------------------------------------------
(* A program slot.  In JSON its primary payload is the slot itself.         *)
Slot == [primary : Payload, has_alternative : {TRUE}, alternative : Payload,
         alt_persistence : {"permanent", "one_time"}]
   \cup [primary : Payload, has_alternative : {FALSE}, alternative : {EmptyPayload},
         alt_persistence : {"permanent"}]

EmptySlot == [primary |-> EmptyPayload, has_alternative |-> FALSE,
              alternative |-> EmptyPayload, alt_persistence |-> "permanent"]

OmitsEmpty(s) == s.has_alternative /\ s.alternative.messages # <<>>

WritesAlternative(s) == s.has_alternative

EncodeSlot(s, read) ==
    LET primary == EncodePayload(s.primary, read).fields
    IN  IF WritesAlternative(s)
        THEN Object([name |-> primary.name, messages |-> primary.messages,
                     expression |-> primary.expression,
                     alternative |-> EncodePayload(s.alternative, read),
                     alt_persistence |-> String(s.alt_persistence)])
        ELSE Object([name |-> primary.name, messages |-> primary.messages,
                     expression |-> primary.expression, alternative |-> Null])

HasAlternative(json) == ~IsNone(Get(json, "alternative"))

SlotOk(json) ==
    /\ PayloadOk(json)
    /\ HasAlternative(json) => PayloadOk(Get(json, "alternative"))

PersistenceOf(json) ==
    IF HasAlternative(json) /\ Get(json, "alt_persistence") = String("one_time")
    THEN "one_time" ELSE "permanent"

SlotOf(json) ==
    [primary |-> PayloadOf(json),
     has_alternative |-> HasAlternative(json),
     alternative |-> IF HasAlternative(json) THEN PayloadOf(Get(json, "alternative"))
                     ELSE EmptyPayload,
     alt_persistence |-> PersistenceOf(json)]

-------------------------------------------------------------------------------
(* A bank.  Programs that are not there are empty, those too many ignored.  *)
Bank == [name : Name, expression_default : Target,
         programs : [1..ProgramsPerBank -> Slot]]

BankWith(b, programs, read) ==
    Object([name |-> String(read[b.name]),
            expression_default |-> EncodeTarget(b.expression_default),
            programs |-> Array(programs)])

EncodeSlots(b, read) == [i \in 1..ProgramsPerBank |-> EncodeSlot(b.programs[i], read)]

EncodeBank(b, read) == BankWith(b, EncodeSlots(b, read), read)

BankOk(json) ==
    LET programs == Get(json, "programs")
    IN  /\ TargetOk(Get(json, "expression_default"))
        /\ programs.kind = "array"
        /\ \A i \in 1..AtMost(Len(programs.items), ProgramsPerBank) :
              SlotOk(programs.items[i])

BankOf(json) ==
    LET programs == Get(json, "programs").items
    IN  [name |-> NameOf(json),
         expression_default |-> TargetOf(Get(json, "expression_default")),
         programs |-> [i \in 1..ProgramsPerBank |->
             IF i <= Len(programs) THEN SlotOf(programs[i]) ELSE EmptySlot]]

-------------------------------------------------------------------------------
(* The global settings, each of which stays at its default if it is missing *)
(* or malformed.  Only the lists of the user functions are an exception: a  *)
(* malformed one keeps the messages before the first malformed one.         *)
Curve == {"linear", "log", "exp"}

Global ==
    [midi_channel : Byte, tuner_message : Message, tap_message : Message,
     user_function_a : MessageList, user_function_b : MessageList,
     long_press_short_ms : Uint32, long_press_long_ms : Uint32,
     browse_timeout_ms : Uint32, boot_resume : BOOLEAN,
     display_brightness : Byte, led_brightness : Byte,
     expression : [adc_min : Word, adc_max : Word, curve : Curve, smoothing : Numbers]]

DefaultGlobal ==
    [midi_channel |-> 1,
     tuner_message |-> [type |-> "CC", num |-> 68, val |-> 127, ch |-> 1],
     tap_message |-> [type |-> "CC", num |-> 64, val |-> 127, ch |-> 1],
     user_function_a |-> <<>>, user_function_b |-> <<>>,
     long_press_short_ms |-> 500, long_press_long_ms |-> 1500,
     browse_timeout_ms |-> 10000, boot_resume |-> TRUE,
     display_brightness |-> 200, led_brightness |-> 128,
     expression |-> [adc_min |-> 200, adc_max |-> 3900, curve |-> "linear",
                     smoothing |-> 20]]

EncodeUserFunction(list) == IF list = <<>> THEN Null ELSE EncodeList(list)

EncodeGlobal(g) ==
    Object([midi_channel |-> Number(g.midi_channel),
            tuner_message |-> EncodeMessage(g.tuner_message),
            tap_message |-> EncodeMessage(g.tap_message),
            user_function_a |-> EncodeUserFunction(g.user_function_a),
            user_function_b |-> EncodeUserFunction(g.user_function_b),
            long_press_short_ms |-> Number(g.long_press_short_ms),
            long_press_long_ms |-> Number(g.long_press_long_ms),
            browse_timeout_ms |-> Number(g.browse_timeout_ms),
            boot_resume |-> Bool(g.boot_resume),
            display_brightness |-> Number(g.display_brightness),
            led_brightness |-> Number(g.led_brightness),
            expression |-> Object([adc_min |-> Number(g.expression.adc_min),
                                   adc_max |-> Number(g.expression.adc_max),
                                   curve |-> String(g.expression.curve),
                                   smoothing |-> Number(g.expression.smoothing)])])

ByteOr(json, default) == IF json.kind = "number" THEN Uint8(json) ELSE default
WordOr(json, default) == IF json.kind = "number" THEN Uint16(json) ELSE default
MessageOr(json, default) == IF MessageOk(json) THEN MessageOf(json) ELSE default

Uint32Or(json, default) ==
    IF json.kind = "number" THEN CastUint32[json.num] ELSE default

GlobalOf(json) ==
    LET default == DefaultGlobal
        expr == Get(json, "expression")
        curve == Get(expr, "curve")
        smoothing == Get(expr, "smoothing")
    IN  [midi_channel |-> ByteOr(Get(json, "midi_channel"), default.midi_channel),
         tuner_message |-> MessageOr(Get(json, "tuner_message"), default.tuner_message),
         tap_message |-> MessageOr(Get(json, "tap_message"), default.tap_message),
         user_function_a |-> ListOf(Get(json, "user_function_a")),
         user_function_b |-> ListOf(Get(json, "user_function_b")),
         long_press_short_ms |->
             Uint32Or(Get(json, "long_press_short_ms"), default.long_press_short_ms),
         long_press_long_ms |->
             Uint32Or(Get(json, "long_press_long_ms"), default.long_press_long_ms),
         browse_timeout_ms |->
             Uint32Or(Get(json, "browse_timeout_ms"), default.browse_timeout_ms),
         boot_resume |-> IF Get(json, "boot_resume").kind = "bool"
                         THEN Get(json, "boot_resume").bool ELSE default.boot_resume,
         display_brightness |->
             ByteOr(Get(json, "display_brightness"), default.display_brightness),
         led_brightness |-> ByteOr(Get(json, "led_brightness"), default.led_brightness),
         expression |->
             [adc_min |-> WordOr(Get(expr, "adc_min"), default.expression.adc_min),
              adc_max |-> WordOr(Get(expr, "adc_max"), default.expression.adc_max),
              curve |-> IF curve.kind = "string" /\ curve.str \in Curve
                        THEN curve.str ELSE default.expression.curve,
              smoothing |-> IF smoothing.kind = "number" THEN smoothing.num
                            ELSE default.expression.smoothing]]

-------------------------------------------------------------------------------
(* The whole configuration *)
Config == [global : Global,
           banks : {banks \in Seq(Bank) : Len(banks) \in 1..MaxBanks}]

DemoSlot ==
    [primary |-> [EmptyPayload EXCEPT !.name = Demo,
         !.messages = <<[type |-> "PC", num |-> 10, val |-> 0, ch |-> 1]>>],
     has_alternative |-> TRUE,
     alternative |-> [EmptyPayload EXCEPT !.name = DemoAlt,
         !.messages = <<[type |-> "PC", num |-> 11, val |-> 0, ch |-> 1]>>],
     alt_persistence |-> "permanent"]

EmptyBank == [name |-> NoText, expression_default |-> NoTarget,
              programs |-> [i \in 1..ProgramsPerBank |-> EmptySlot]]

(* config_init_defaults *)
Defaults == [global |-> DefaultGlobal,
             banks |-> <<[EmptyBank EXCEPT !.programs[1] = DemoSlot], EmptyBank>>]

ConfigWith(c, banks) ==
    Object([version |-> Number(1), global |-> EncodeGlobal(c.global),
            banks |-> Array(banks)])

EncodeConfig(c, read) ==
    ConfigWith(c, [i \in 1..Len(c.banks) |-> EncodeBank(c.banks[i], read)])

(* The same when memory is short: banks and programs are left out, and      *)
(* nobody notices.                                                          *)
EncodeBanksWith(c, programs, read) ==
    [i \in 1..Len(c.banks) |->
        BankWith(c.banks[i], Only(EncodeSlots(c.banks[i], read), programs[i]), read)]

PartialEncodings(c, read) ==
    LET all == 1..Len(c.banks)
    IN  {ConfigWith(c, Only(EncodeBanksWith(c, programs, read), banks)) :
            banks \in SUBSET all, programs \in [all -> SUBSET (1..ProgramsPerBank)]}
        \ {EncodeConfig(c, read)}

ConfigOk(json) == json.kind = "object" /\ Get(json, "banks").kind = "array"

(* The banks that are kept: a malformed one is skipped, and those after it  *)
(* move up.                                                                 *)
Kept(items) == {i \in 1..AtMost(Len(items), MaxBanks) : BankOk(items[i])}

(* The position in the document of the k-th bank that is kept.              *)
Origin(items, k) == Nth(Kept(items), k)

ConfigOf(json) ==
    LET items == Get(json, "banks").items
    IN  IF Kept(items) = {} THEN Defaults
        ELSE [global |-> GlobalOf(Get(json, "global")),
              banks |-> [k \in 1..Cardinality(Kept(items)) |->
                            BankOf(items[Origin(items, k)])]]

(* The configuration with other names.  f changes no empty name.            *)
RenamedPayload(p, f) == [p EXCEPT !.name = f[@]]

RenamedSlot(s, f) ==
    [s EXCEPT !.primary = RenamedPayload(@, f), !.alternative = RenamedPayload(@, f)]

RenamedBank(b, f) ==
    [b EXCEPT !.name = f[@],
              !.programs = [i \in 1..ProgramsPerBank |-> RenamedSlot(@[i], f)]]

Renamed(c, f) ==
    [c EXCEPT !.banks = [k \in 1..Len(@) |-> RenamedBank(@[k], f)]]

-------------------------------------------------------------------------------
(* components/midi_out: the bytes one message puts on the wire *)
ChannelAsTyped(ch) == ch - 1

ChannelNibble(ch) == IF ch \in 1..16 THEN ch - 1 ELSE 0

WireBytes(m) ==
    IF m.type = "PC"
    THEN <<192 + ChannelNibble(m.ch), m.num % 128>>
    ELSE <<176 + ChannelNibble(m.ch), m.num % 128, m.val % 128>>

(* A status byte for the type and one of 16 channels, and its data bytes.   *)
IsMidi(m) ==
    LET bytes == WireBytes(m)
    IN  /\ bytes[1] \in IF m.type = "PC" THEN 192..207 ELSE 176..191
        /\ Len(bytes) = IF m.type = "PC" THEN 2 ELSE 3
        /\ \A i \in 2..Len(bytes) : bytes[i] \in 0..127
===============================================================================
