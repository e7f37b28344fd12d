--------------------------- MODULE ConfigStoreProofs ---------------------------
(***************************************************************************)
(* For every set of configurations, oversize ones, and losses under memory *)
(* pressure: the configuration store keeps what it answered "saved", and   *)
(* implements the durable register DurableConfig.                          *)
(*                                                                         *)
(* Each of the three rests on StoreInv: what the program counter says      *)
(* about the temporary file and the document on its way to it, and that    *)
(* what is in RAM is known to the history.                                 *)
(***************************************************************************)
EXTENDS ConfigStore, TLAPS

(* Where the handler is, and what it has in hand. *)
SaveInv ==
    /\ step \in {"off", "load", "dead"} <=> ram = Off
    /\ booted => step \notin {"off", "load", "dead"}
    /\ step \in {"serve", "announce"} => booted
    /\ step \in {"write", "rename"} => data \in {ram} \cup Partial[ram]
    /\ step = "rename" => tmp = data
    /\ step = "announce" => file = data

(* Who knows about the configuration in RAM. *)
SyncInv ==
    /\ booted /\ step \in {"encode", "write", "rename", "announce"} => ~synced
    /\ ~booted => synced

(* What the history says, unless memory or storage failed. *)
HistoryInv ==
    ~excused =>
        /\ step \in {"write", "rename"} => data = ram
        /\ booted => ram \in {acked} \cup unacked
        /\ ~booted /\ ram # Off => ram = Defaults /\ Decode(file) = Defaults
        /\ synced /\ ram # Off => Decode(file) = ram

StoreInv == TypeOK /\ SaveInv /\ SyncInv /\ HistoryInv /\ SavedIsDurable

USE StoreAssumption

(* decode_config always delivers a configuration with a bank in it. *)
LEMMA DecodeTyped == \A doc : Decode(doc) \in Configs
  BY DEF Decode

LEMMA DecodeConfig == \A c \in Configs : Decode(c) = c
  BY DEF Decode

LEMMA StoreInvInit == Init => StoreInv
  BY DecodeTyped DEF Init, StoreInv, TypeOK, SaveInv, SyncInv, HistoryInv,
                     SavedIsDurable, File, Document

(* Every step preserves the invariant. *)
LEMMA StoreInvStep == StoreInv /\ [Next]_vars => StoreInv'
<1> SUFFICES ASSUME StoreInv, [Next]_vars
             PROVE  StoreInv'
    OBVIOUS
<1> USE DecodeTyped, DecodeConfig
        DEF StoreInv, TypeOK, SaveInv, SyncInv, HistoryInv, SavedIsDurable,
            File, Document, flash_vars, history_vars
<1>1. CASE Mount
  BY <1>1 DEF Mount
<1>2. CASE LoadConfig
  BY <1>2 DEF LoadConfig
<1>3. CASE RestoreDefaults
  BY <1>3 DEF RestoreDefaults, Decode, Decodes
<1>4. CASE PostConfig
  <2>1. PICK doc \in Document : /\ ram' = Decode(doc)
                                /\ unacked' = unacked \cup {Decode(doc)}
    BY <1>4 DEF PostConfig
  <2>2. ram' \in Configs /\ ram' \in unacked' /\ unacked \subseteq unacked'
    BY <2>1
  <2>3. Decode(file)' = Decode(file)
    BY <1>4 DEF PostConfig, Decode
  <2>. QED
    BY <1>4, <2>2, <2>3 DEF PostConfig
<1>5. CASE OpenTmp
  BY <1>5 DEF OpenTmp
<1>6. CASE OpenFails
  BY <1>6 DEF OpenFails, SaveFails
<1>7. CASE WriteTmp
  BY <1>7 DEF WriteTmp
<1>8. CASE RenameTmp
  BY <1>8 DEF RenameTmp
<1>9. CASE WriteFails
  BY <1>9 DEF WriteFails, SaveFails
<1>10. CASE Announce
  BY <1>10 DEF Announce
<1>11. CASE PowerLoss
  BY <1>11 DEF PowerLoss
<1>12. CASE UNCHANGED vars
  BY <1>12 DEF vars, Decode
<1>. QED
  BY <1>1, <1>2, <1>3, <1>4, <1>5, <1>6, <1>7, <1>8, <1>9, <1>10, <1>11, <1>12
     DEF Next

THEOREM StoreInvHolds == Spec => []StoreInv
<1>1. Init => StoreInv
  BY StoreInvInit
<1>2. StoreInv /\ [Next]_vars => StoreInv'
  BY StoreInvStep
<1>. QED
  BY <1>1, <1>2, PTL DEF Spec

(* The variables always have their types; in particular the configuration   *)
(* in RAM always has a bank, whatever was posted or found in flash.         *)
THEOREM TypeCorrect == Spec => []TypeOK
  BY StoreInvHolds, PTL DEF StoreInv

(* A configuration answered "saved" is what every later boot comes up with, *)
(* until another one has been posted, through any power loss and any failed *)
(* write or rename.                                                         *)
THEOREM NothingSavedIsLost == Spec => []SavedIsDurable
  BY StoreInvHolds, PTL DEF StoreInv

(* The state machine and the editors are told only what has been stored.    *)
THEOREM OnlyStoredIsAnnounced == Spec => []AnnouncedIsStored
<1>1. StoreInv => AnnouncedIsStored
  BY DEF StoreInv, TypeOK, SaveInv, HistoryInv, AnnouncedIsStored
<1>. QED
  BY <1>1, StoreInvHolds, PTL

-------------------------------------------------------------------------------
(* Refinement *)

LEMMA InitIsPromised == Init => Promise!Init
  BY DecodeTyped DEF Init, Promise!Init

(* The rename is where the register changes; the other steps of a save are  *)
(* invisible.                                                               *)
LEMMA RenameIsPromised == StoreInv /\ RenameTmp => Promise!Save
<1> SUFFICES ASSUME StoreInv, RenameTmp
             PROVE  Promise!Save
    OBVIOUS
<1>1. ram \in Configs /\ ram' = ram
  BY DEF StoreInv, TypeOK, SaveInv, RenameTmp
<1>2. file' = data /\ data \in {ram} \cup Partial[ram]
  BY DEF StoreInv, SaveInv, RenameTmp
<1>3. Decode(file)' = Decode(data)
  BY <1>2 DEF Decode
<1>4. Decode(data) \in {ram} \cup {Decode(doc) : doc \in Partial[ram]}
  BY <1>1, <1>2, DecodeConfig
<1>. QED
  BY <1>1, <1>3, <1>4 DEF Promise!Save

LEMMA StepIsPromised ==
  StoreInv /\ [Next]_vars => [Promise!Next]_<<Decode(file), ram>>
<1> SUFFICES ASSUME StoreInv, [Next]_vars
             PROVE  [Promise!Next]_<<Decode(file), ram>>
    OBVIOUS
<1> USE DEF StoreInv, TypeOK, SaveInv, flash_vars, history_vars
<1>1. CASE Mount
  BY <1>1 DEF Mount, Decode, Promise!Next, Promise!Format
<1>2. CASE LoadConfig
  BY <1>2 DEF LoadConfig, Decode, Promise!Next, Promise!Boot
<1>3. CASE RestoreDefaults
  BY <1>3 DEF RestoreDefaults, Decode, Promise!Next, Promise!Boot
<1>4. CASE PostConfig
  BY <1>4, DecodeTyped DEF PostConfig, Decode, Promise!Next, Promise!Edit
<1>5. CASE OpenTmp
  BY <1>5 DEF OpenTmp, Decode
<1>6. CASE OpenFails
  BY <1>6 DEF OpenFails, SaveFails, Decode
<1>7. CASE WriteTmp
  BY <1>7 DEF WriteTmp, Decode
<1>8. CASE RenameTmp
  BY <1>8, RenameIsPromised DEF Promise!Next
<1>9. CASE WriteFails
  BY <1>9 DEF WriteFails, SaveFails, Decode
<1>10. CASE Announce
  BY <1>10 DEF Announce, Decode
<1>11. CASE PowerLoss
  BY <1>11 DEF PowerLoss, Decode, Promise!Next, Promise!PowerLoss
<1>12. CASE UNCHANGED vars
  BY <1>12 DEF vars, Decode
<1>. QED
  BY <1>1, <1>2, <1>3, <1>4, <1>5, <1>6, <1>7, <1>8, <1>9, <1>10, <1>11, <1>12
     DEF Next

(* A save through a temporary file, in five steps each of which may fail or *)
(* be the last before the power does, looks to every later boot like one    *)
(* assignment to a durable register, made completely or not at all.         *)
THEOREM StoreIsADurableRegister == Spec => RefinesDurableConfig
<1>1. Init => Promise!Init
  BY InitIsPromised
<1>2. StoreInv /\ [Next]_vars => [Promise!Next]_<<Decode(file), ram>>
  BY StepIsPromised
<1>. QED
  BY <1>1, <1>2, StoreInvHolds, PTL DEF Spec, RefinesDurableConfig, Promise!Spec
===============================================================================
