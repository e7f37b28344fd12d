-------------------------------- MODULE Editors --------------------------------
(***************************************************************************)
(* The configuration editors (index.html, the Config tab) in several       *)
(* browsers, over the handlers of /api/config in the httpd task and the    *)
(* configuration store.  Requests and answers travel on connections of     *)
(* their own and may be answered and arrive in any order, or get lost; the *)
(* frames {"type":"config_changed"} travel on the websocket of each page.  *)
(* The device may restart at any time between two requests.                *)
(*                                                                         *)
(* A page takes a snapshot of the configuration with GET, edits it as a    *)
(* JSON document of its own, and sends the whole of it back with POST.     *)
(* Inputs within a bank are taken together: the bank becomes any one of    *)
(* TypedBanks.  What can be typed into the global settings is left to the  *)
(* imported files, which may hold any of it.                               *)
(*                                                                         *)
(* TellOthers and KeepSelection are mistaken versions of what follows      *)
(* them, to try the properties against.                                    *)
(***************************************************************************)
EXTENDS Codec

CONSTANTS
    Pages,              \* browsers with the page open
    PagePrograms,       \* programsPerBank as the page knows it
    Json,               \* what a page may hold: values JSON.parse can give
    TypedBanks,         \* what a bank may be after some inputs in the editor
    Imports,            \* what a file may hold that the page can show and send
    AsRead,             \* the texts as a browser reads them: one that ends in
                        \* the middle of a character gets another end
    InitialConfigs,
    MaxEvents,              \* bound: inputs, failures and restarts in all
    MaxLoads,               \* bound: loads of any two pages under way
    MaxPosts                \* bound: POSTs of one page under way

ASSUME JsonAssumption ==
    \A json \in Json :
       /\ json.kind = "number" => json.num \in Numbers
       /\ json.kind = "string" => json.str \in Texts
       /\ json.kind = "bool" => json.bool \in BOOLEAN
       /\ json.kind = "array" => json = Array(json.items) /\ json.items \in Seq(Json)
       /\ json.kind = "object" =>
             /\ json = Object(json.fields)
             /\ json.fields \in [DOMAIN json.fields -> Json]

(* The page can list the programs of the bank, and count them to send it.   *)
IsBank(json) == json.kind = "object" /\ Get(json, "programs").kind = "array"

ASSUME EditorsAssumption ==
    /\ TypedBanks \cup Imports \subseteq Json
    /\ \A bank \in TypedBanks : IsBank(bank)
    /\ \A doc \in Imports :
          /\ doc.kind = "object" /\ Get(doc, "banks").kind = "array"
          /\ \A k \in DOMAIN Get(doc, "banks").items : IsBank(Get(doc, "banks").items[k])
    /\ PagePrograms \in Nat /\ PagePrograms >= ProgramsPerBank
    /\ InitialConfigs \subseteq Config
    /\ AsRead \in [Texts -> Texts] /\ AsRead[NoText] = NoText
    /\ MaxEvents \in Nat /\ MaxLoads \in Nat \ {0} /\ MaxPosts \in Nat \ {0}

VARIABLES
    ram,        \* config_store_t.cfg
    stored,     \* the configuration encoded in /storage/config.json
    \* for each page:
    ws,         \* its websocket is up and registered
    notices,    \* config_changed frames under way to it
    data,       \* configData, Null before the first load
    baseline,   \* the document in configBaseline, or Null
    selected,   \* currentBank, counted from 1
    canSave, canRevert,     \* the buttons
    asked,      \* GETs the device has yet to handle
    answers,    \* snapshots under way to it, in the order they were taken
    posts,      \* POSTs that have not returned
    missed,     \* History: the snapshot shown was incomplete, or the device's
                \* configuration has changed since in a way the page cannot notice
    events      \* how many there were, for the bound

device_vars == <<ram, stored>>
editor_vars == <<data, baseline, selected, canSave, canRevert>>
vars == <<ram, stored, ws, notices, editor_vars, asked, answers, posts, missed, events>>

-------------------------------------------------------------------------------
(* Documents as a page edits them *)
Banks(doc) == Get(doc, "banks").items
WithField(json, name, value) ==
    [json EXCEPT !.fields = [x \in DOMAIN @ \cup {name} |->
                                IF x = name THEN value ELSE @[x]]]
WithBanks(doc, banks) == WithField(doc, "banks", Array(banks))

NewSlot == Object([name |-> String(NoText), messages |-> Array(<<>>),
                   expression |-> Null, alternative |-> Null])

NewBank == Object([name |-> String(NoText), expression_default |-> Null,
                   programs |-> Array([i \in 1..PagePrograms |-> NewSlot])])

(* addMessage *)
NewMessage == Object([type |-> String("PC"), num |-> Number(0), ch |-> Number(1)])

(* renderGlobalSettings turns a user function that is no list into one.     *)
Rendered(doc) ==
    LET global == Get(doc, "global")
        AsList(json) == IF json.kind = "array" THEN json ELSE Array(<<>>)
    IN  IF global.kind # "object" THEN doc
        ELSE WithField(doc, "global",
                WithField(
                    WithField(global, "user_function_a",
                              AsList(Get(global, "user_function_a"))),
                    "user_function_b", AsList(Get(global, "user_function_b"))))

(* What the save button sends: every bank has PagePrograms programs.        *)
Padded(bank) ==
    LET programs == Get(bank, "programs").items
    IN  WithField(bank, "programs", Array([i \in 1..PagePrograms |->
            IF i <= Len(programs) THEN programs[i] ELSE NewSlot]))

Normalised(doc) == WithBanks(doc, [k \in 1..Len(Banks(doc)) |-> Padded(Banks(doc)[k])])

-------------------------------------------------------------------------------
Init ==
    /\ ram \in InitialConfigs
    /\ stored = ram
    /\ ws = [p \in Pages |-> FALSE]
    /\ notices = [p \in Pages |-> 0]
    /\ data = [p \in Pages |-> Null]
    /\ baseline = [p \in Pages |-> Null]
    /\ selected = [p \in Pages |-> 1]
    /\ canSave = [p \in Pages |-> FALSE]
    /\ canRevert = [p \in Pages |-> FALSE]
    /\ asked = [p \in Pages |-> 1]
    /\ answers = [p \in Pages |-> <<>>]
    /\ posts = [p \in Pages |-> <<>>]
    /\ missed = [p \in Pages |-> FALSE]
    /\ events = 0

Event ==
    /\ events < MaxEvents
    /\ events' = events + 1

(* None of S can notice that its snapshots, shown or under way, are old.    *)
Misses(S, shown, coming) ==
    /\ missed' = [p \in Pages |-> shown[p] \/ p \in S]
    /\ answers' = [p \in Pages |->
          IF p \in S
          THEN [i \in DOMAIN coming[p] |-> [coming[p][i] EXCEPT !.missed = TRUE]]
          ELSE coming[p]]

NobodyMisses == UNCHANGED <<missed, answers>>

WithoutIndex(seq, i) == SubSeq(seq, 1, i - 1) \o SubSeq(seq, i + 1, Len(seq))

Loads(p) == asked[p] + Len(answers[p])

(* loadConfig, up to the request *)
LoadConfig(p) ==
    /\ Loads(p) < MaxLoads
    /\ \A q \in Pages \ {p} : Loads(p) + Loads(q) < MaxLoads
    /\ asked' = [asked EXCEPT ![p] = @ + 1]

-------------------------------------------------------------------------------
(* The user *)
Loaded(p) == data[p] # Null
BankSelected(p) == Loaded(p) /\ selected[p] <= Len(Banks(data[p]))

MarkDirty(p, doc, bank) ==
    /\ Event
    /\ data' = [data EXCEPT ![p] = doc]
    /\ selected' = [selected EXCEPT ![p] = bank]
    /\ canSave' = [canSave EXCEPT ![p] = TRUE]
    /\ canRevert' = [canRevert EXCEPT ![p] = TRUE]
    /\ UNCHANGED <<device_vars, ws, notices, baseline, asked, answers, posts, missed>>

EditBank(p) ==
    /\ BankSelected(p)
    /\ \E bank \in TypedBanks :
          MarkDirty(p, WithBanks(data[p], [Banks(data[p]) EXCEPT ![selected[p]] = bank]),
                    selected[p])

AddBank(p) ==
    /\ Loaded(p)
    /\ Len(Banks(data[p])) < MaxBanks
    /\ MarkDirty(p, WithBanks(data[p], Append(Banks(data[p]), NewBank)),
                 Len(Banks(data[p])) + 1)

DeleteBank(p) ==
    /\ BankSelected(p)
    /\ Len(Banks(data[p])) > 1
    /\ LET left == WithoutIndex(Banks(data[p]), selected[p])
       IN  MarkDirty(p, WithBanks(data[p], left), AtMost(selected[p], Len(left)))

ImportFile(p) ==
    \E doc \in Imports : MarkDirty(p, Rendered(doc), 1)

(* The selector lists the banks there are. *)
SelectBank(p) ==
    /\ Event
    /\ Loaded(p)
    /\ \E bank \in 1..Len(Banks(data[p])) : selected' = [selected EXCEPT ![p] = bank]
    /\ UNCHANGED <<device_vars, ws, notices, data, baseline, canSave, canRevert,
                   asked, answers, posts, missed>>

(* currentBank is not touched, and may lie beyond the banks of the baseline. *)
Revert(p) ==
    /\ Event
    /\ canRevert[p]
    /\ baseline[p] # Null
    /\ data' = [data EXCEPT ![p] = Rendered(baseline[p])]
    /\ canSave' = [canSave EXCEPT ![p] = FALSE]
    /\ canRevert' = [canRevert EXCEPT ![p] = FALSE]
    /\ UNCHANGED <<device_vars, ws, notices, baseline, selected, asked, answers,
                   posts, missed>>

Save(p) ==
    /\ Loaded(p)
    /\ canSave[p]
    /\ Len(posts[p]) < MaxPosts
    /\ canSave' = [canSave EXCEPT ![p] = FALSE]
    /\ posts' = [posts EXCEPT ![p] =
                    Append(@, [doc |-> Normalised(data[p]), state |-> "sent"])]
    /\ UNCHANGED <<device_vars, ws, notices, data, baseline, selected, canRevert,
                   asked, answers, missed, events>>

(* Opening the Config tab loads the configuration if there is none. *)
OpenTab(p) ==
    /\ ~Loaded(p)
    /\ LoadConfig(p)
    /\ UNCHANGED <<device_vars, ws, notices, editor_vars, answers, posts, missed, events>>

-------------------------------------------------------------------------------
(* The device *)

(* config_get_handler *)
Delivered == EncodeConfig(ram, AsRead)

HandleGet(p) ==
    /\ asked[p] > 0
    /\ asked' = [asked EXCEPT ![p] = @ - 1]
    /\ \E answer \in [doc : {Delivered}, missed : {FALSE}]
              \cup [doc : PartialEncodings(ram, AsRead), missed : {TRUE}] :
          /\ answers' = [answers EXCEPT ![p] = Append(@, answer)]
          /\ IF answer.missed THEN Event ELSE UNCHANGED events
    /\ UNCHANGED <<device_vars, ws, notices, editor_vars, posts, missed>>

Answered(p, i, state) == posts' = [posts EXCEPT ![p][i].state = state]

(* The body cannot be received or parsed, or memory is short. *)
RefusePost(p) ==
    /\ Event
    /\ \E i \in DOMAIN posts[p] : posts[p][i].state = "sent" /\ Answered(p, i, "failed")
    /\ UNCHANGED <<device_vars, ws, notices, editor_vars, asked, answers, missed>>

(* config_store_from_json succeeds and config_store_save does not: the      *)
(* configuration has been replaced, but nobody is told.                     *)
PostUnsaved(p) ==
    /\ Event
    /\ \E i \in DOMAIN posts[p] :
          /\ posts[p][i].state = "sent"
          /\ ConfigOk(posts[p][i].doc)
          /\ ram' = ConfigOf(posts[p][i].doc)
          /\ Answered(p, i, "failed")
    /\ Misses(IF ram' = ram THEN {} ELSE Pages, missed, answers)
    /\ UNCHANGED <<stored, ws, notices, editor_vars, asked>>

TellOthers(p) == [q \in Pages |-> notices[q] + IF ws[q] /\ q # p THEN 1 ELSE 0]

(* config_changed goes to every websocket, the sender's included. *)
ConfigChanged(p) == [q \in Pages |-> notices[q] + IF ws[q] THEN 1 ELSE 0]

(* What the file holds after config_store_save *)
SavedWhole(config) == UNCHANGED events /\ stored' = config

SavedInPart(config) ==
    /\ Event
    /\ \E doc \in PartialEncodings(config, AsIs) : stored' = ConfigOf(doc)

PostSaved(p) ==
    /\ \E i \in DOMAIN posts[p] :
          /\ posts[p][i].state = "sent"
          /\ ConfigOk(posts[p][i].doc)
          /\ ram' = ConfigOf(posts[p][i].doc)
          /\ Answered(p, i, "saved")
    /\ SavedWhole(ram') \/ SavedInPart(ram')
    /\ notices' = ConfigChanged(p)
    /\ Misses({q \in Pages : ~ws[q] /\ ram' # ram}, missed, answers)
    /\ UNCHANGED <<ws, editor_vars, asked>>

(* A restart or a power loss: the configuration is read from flash again,   *)
(* or cannot be and the defaults are saved in its place, if they can be.    *)
Restart ==
    /\ Event
    /\ \/ ram' = ConfigOf(EncodeConfig(stored, AsIs)) /\ UNCHANGED stored
       \/ ram' = Defaults /\ (UNCHANGED stored \/ stored' = Defaults \/ SavedInPart(Defaults))
    /\ ws' = [p \in Pages |-> FALSE]
    /\ notices' = [p \in Pages |-> 0]
    /\ Misses({p \in Pages : ram' # ram \/ notices[p] > 0}, missed, answers)
    /\ UNCHANGED <<editor_vars, asked, posts>>

-------------------------------------------------------------------------------
(* The network *)
Connect(p) ==
    /\ ~ws[p]
    /\ ws' = [ws EXCEPT ![p] = TRUE]
    /\ UNCHANGED <<device_vars, notices, editor_vars, asked, answers, posts, missed, events>>

(* The page connects again after 2 s, but does not load again. *)
Disconnect(p) ==
    /\ Event
    /\ ws[p]
    /\ ws' = [ws EXCEPT ![p] = FALSE]
    /\ notices' = [notices EXCEPT ![p] = 0]
    /\ Misses(IF notices[p] > 0 THEN {p} ELSE {}, missed, answers)
    /\ UNCHANGED <<device_vars, editor_vars, asked, posts>>

(* config_changed arrives; a page without a configuration ignores it.       *)
ReceiveNotice(p) ==
    /\ notices[p] > 0
    /\ notices' = [notices EXCEPT ![p] = @ - 1]
    /\ IF Loaded(p)
       THEN LoadConfig(p) /\ NobodyMisses
       ELSE UNCHANGED asked /\ Misses({p}, missed, answers)
    /\ UNCHANGED <<device_vars, ws, editor_vars, posts, events>>

KeepSelection(bank, doc) == bank

ClampSelection(bank, doc) ==
    IF Banks(doc) = <<>> THEN 1 ELSE AtMost(bank, Len(Banks(doc)))

(* Snapshots taken before the i-th, and still under way, will replace it.    *)
Overtaken(list, i) == [j \in DOMAIN list |-> [list[j] EXCEPT !.missed = @ \/ j < i]]

(* The rest of loadConfig: whatever was being edited is replaced.            *)
ReceiveConfig(p) ==
    \E i \in DOMAIN answers[p] :
       LET doc == answers[p][i].doc
       IN  /\ data' = [data EXCEPT ![p] = Rendered(doc)]
           /\ baseline' = [baseline EXCEPT ![p] = doc]
           /\ selected' = [selected EXCEPT ![p] = ClampSelection(@, doc)]
           /\ canSave' = [canSave EXCEPT ![p] = FALSE]
           /\ canRevert' = [canRevert EXCEPT ![p] = FALSE]
           /\ missed' = [missed EXCEPT ![p] = answers[p][i].missed]
           /\ answers' = [answers EXCEPT ![p] = WithoutIndex(Overtaken(@, i), i)]
           /\ UNCHANGED <<device_vars, ws, notices, asked, posts, events>>

(* A GET fails: the page goes on with what it has. *)
LoseGet(p) ==
    /\ Event
    /\ asked[p] > 0
    /\ asked' = [asked EXCEPT ![p] = @ - 1]
    /\ Misses({p}, missed, answers)
    /\ UNCHANGED <<device_vars, ws, notices, editor_vars, posts>>

LoseConfig(p) ==
    /\ Event
    /\ \E i \in DOMAIN answers[p] :
          Misses({p}, missed, [answers EXCEPT ![p] = WithoutIndex(@, i)])
    /\ UNCHANGED <<device_vars, ws, notices, editor_vars, asked, posts>>

(* A POST, or the answer to it, is lost. *)
LosePost(p) ==
    /\ Event
    /\ \E i \in DOMAIN posts[p] : posts[p][i].state # "failed" /\ Answered(p, i, "failed")
    /\ UNCHANGED <<device_vars, ws, notices, editor_vars, asked, answers, missed>>

(* The answer to a POST: "Saved", and the page loads what is stored now.    *)
PostReturns(p) ==
    /\ \E i \in DOMAIN posts[p] :
          /\ posts[p][i].state # "sent"
          /\ IF posts[p][i].state = "saved"
             THEN LoadConfig(p) /\ UNCHANGED canSave
             ELSE canSave' = [canSave EXCEPT ![p] = TRUE] /\ UNCHANGED asked
          /\ posts' = [posts EXCEPT ![p] = WithoutIndex(@, i)]
    /\ UNCHANGED <<device_vars, ws, notices, data, baseline, selected, canRevert,
                   answers, missed, events>>

UserStep(p) ==
    EditBank(p) \/ AddBank(p) \/ DeleteBank(p) \/ ImportFile(p) \/ SelectBank(p)
    \/ Revert(p) \/ Save(p) \/ OpenTab(p)

DeviceStep(p) == HandleGet(p) \/ RefusePost(p) \/ PostUnsaved(p) \/ PostSaved(p)

NetworkStep(p) ==
    Connect(p) \/ Disconnect(p) \/ ReceiveNotice(p) \/ ReceiveConfig(p)
    \/ LoseGet(p) \/ LoseConfig(p) \/ LosePost(p) \/ PostReturns(p)

Next ==
    \/ \E p \in Pages : UserStep(p) \/ DeviceStep(p) \/ NetworkStep(p)
    \/ Restart

Spec == Init /\ [][Next]_vars

-------------------------------------------------------------------------------
(* Properties *)

TypeOK ==
    /\ ram \in Config
    /\ stored \in Config
    /\ ws \in [Pages -> BOOLEAN]
    /\ notices \in [Pages -> Nat]
    /\ selected \in [Pages -> Nat \ {0}]
    /\ asked \in [Pages -> 0..MaxLoads]
    /\ events \in 0..MaxEvents

Idle(p) == Loaded(p) /\ asked[p] = 0 /\ answers[p] = <<>> /\ notices[p] = 0

(* A page that could notice every change, and got it whole, shows what the  *)
(* device has once nothing is under way; and if it is saved without an      *)
(* edit, or with edits taken back, the device's configuration stays what it *)
(* is, except that a name that was cut in the middle of a character is read *)
(* and cut once more (web_server.c:405-411, index.html:403-406,             *)
(* config_store.c:131).                                                     *)
PagesFollow ==
    \A p \in Pages : Idle(p) /\ ~missed[p] =>
        /\ baseline[p] = Delivered
        /\ ~canRevert[p] =>
              ConfigOf(Normalised(data[p])) = Renamed(ram, CutAfter(AsRead))

(* What is encoded is decoded again without a change: a restart finds what  *)
(* was saved, and a page that sends back what it loaded changes nothing     *)
(* but such names.                                                          *)
RoundTrip ==
    \A config \in {ram, stored} : ConfigOf(EncodeConfig(config, AsIs)) = config

(* The bank that is being edited is one of the banks there are, and only a  *)
(* revert, which does not look at currentBank, can take it away             *)
(* (index.html:480, 888, 929-937).                                          *)
SelectionExists(p) ==
    Loaded(p) => Banks(data[p]) = <<>> \/ selected[p] <= Len(Banks(data[p]))

OnlyRevertLosesTheBank ==
    [][\A p \in Pages : SelectionExists(p) /\ ~SelectionExists(p)' => Revert(p)]_vars

(* Whatever was typed, imported or found in flash, every message that a     *)
(* press may send, be it a program's primary or alternative, a user         *)
(* function, the tap or the tuner, goes out as MIDI: a status byte of the   *)
(* right kind for one of 16 channels, and data bytes below 128              *)
(* (midi_out.c:42-65).                                                      *)
Sendable(config) ==
    LET slots == {config.banks[k].programs[s] :
                     k \in DOMAIN config.banks, s \in 1..ProgramsPerBank}
        lists == {config.global.user_function_a, config.global.user_function_b}
           \cup {slot.primary.messages : slot \in slots}
           \cup {slot.alternative.messages : slot \in slots}
    IN  {config.global.tap_message, config.global.tuner_message}
           \cup UNION {{list[i] : i \in DOMAIN list} : list \in lists}

SoundsLikeMidi == \A message \in Sendable(ram) : IsMidi(message)

(* A POST that is answered {"saved":true} has stored every bank it sent.    *)
SavedIsWhatWasSent ==
    [][\A p \in Pages : \A i \in DOMAIN posts[p] :
          PostSaved(p) /\ posts'[p][i].state # posts[p][i].state
             => Len(ram'.banks) = Len(Banks(posts[p][i].doc))]_vars
===============================================================================
