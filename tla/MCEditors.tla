------------------------------- MODULE MCEditors -------------------------------
(* A device with one program a bank and room for one message in each, which *)
(* starts with one bank.  A bank may be left with an emptied number field,  *)
(* or with a number and a channel out of range, a message too many and an   *)
(* alternative.  The file has a malformed bank before one with too many     *)
(* programs, and odd global settings.  The long name is cut in the middle   *)
(* of a character; a browser mends that with another one, which is cut too. *)
EXTENDS Editors, TLC

CONSTANTS p1, p2

MCCut == [t \in Texts |-> CASE t = "Long name" -> "Cut name"
                              [] t = "Mended name" -> "Cut mended name"
                              [] OTHER -> t]
MCAsRead == [t \in Texts |-> IF t \in {"Cut name", "Cut mended name"}
                             THEN "Mended name" ELSE t]
MCUint32 == {500, 1500, 10000}
MCNumbers == -1..65535
MCCastUint32 == [n \in MCNumbers |-> IF n \in MCUint32 THEN n ELSE 1500]

OutOfRange == [NewMessage EXCEPT !.fields.num = Number(200), !.fields.ch = Number(17)]
Emptied == [NewMessage EXCEPT !.fields.num = Null]

BankOf1(slot) == [NewBank EXCEPT !.fields.programs.items[1] = slot]
SlotOf1(messages) == [NewSlot EXCEPT !.fields.messages = Array(messages)]
WithAlternative(slot) ==
    WithField([slot EXCEPT !.fields.alternative = NewSlot],
              "alt_persistence", String("one_time"))

MCTypedBanks ==
    {BankOf1(SlotOf1(<<Emptied>>)),
     [BankOf1(WithAlternative(SlotOf1(<<OutOfRange, NewMessage>>)))
         EXCEPT !.fields.name = String("Long name")]}

MCImports ==
    {Object([global |-> Object([tuner_message |-> Emptied,
                                tap_message |-> OutOfRange,
                                browse_timeout_ms |-> Number(-1),
                                led_brightness |-> Number(300),
                                user_function_a |-> Array(<<NewMessage, Emptied>>)]),
             banks |-> Array(<<BankOf1(SlotOf1(<<Emptied>>)),
                               Object([programs |-> Array(<<NewSlot, NewSlot, NewSlot>>)])>>)])}

RECURSIVE Parts(_)
Parts(json) ==
    {json} \cup
    CASE json.kind = "array" -> UNION {Parts(json.items[i]) : i \in DOMAIN json.items}
      [] json.kind = "object" -> UNION {Parts(json.fields[x]) : x \in DOMAIN json.fields}
      [] OTHER -> {}

MCJson == UNION {Parts(json) : json \in MCTypedBanks \cup MCImports}

MCInitialConfigs ==
    {[global |-> DefaultGlobal,
      banks |-> <<[EmptyBank EXCEPT !.programs[1].primary.messages =
                      <<MessageOf(NewMessage)>>]>>]}

Symmetric == Permutations(Pages)
===============================================================================
