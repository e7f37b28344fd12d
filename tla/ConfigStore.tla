------------------------------ MODULE ConfigStore ------------------------------
(***************************************************************************)
(* The configuration store (components/config_store) and its callers: the  *)
(* boot, which loads /storage/config.json or restores the defaults, and    *)
(* the POST handler of the web server, which replaces the configuration in *)
(* RAM, saves it through a temporary file and tells the state machine.     *)
(* Both run one after the other, in app_main and in the httpd task, so     *)
(* there is one program counter; what interferes is the power, which may   *)
(* fail between any two steps, and every call that may fail.               *)
(*                                                                         *)
(* DecodeKeepsNoBanks, SaveFailsUnnoticed, OpenInPlace and                 *)
(* WriteFailsUnnoticed are mistaken versions of what follows them, to try  *)
(* the properties against.                                                 *)
(*                                                                         *)
(* Data: a configuration is a model value, and a JSON document is the      *)
(* configuration it decodes to, or one of the kinds that decode to none.   *)
(***************************************************************************)
CONSTANTS
    Configs,            \* configurations, all with at least one bank
    Defaults,           \* config_init_defaults
    Oversize,           \* those whose encoding is longer than MAX_CONFIG_BYTES
    Partial,            \* the documents encode_config makes of each of them
                        \* when some of its allocations fail
    NotJson, NoShape, NoBanks, Missing, Off

(* NotJson does not parse; NoShape has no object or no list of banks where  *)
(* it needs one; NoBanks lists banks, but none that is well formed.         *)
Document == Configs \cup {NotJson, NoShape, NoBanks}
File == Document \cup {Missing}

ASSUME StoreAssumption ==
    /\ Defaults \in Configs
    /\ Oversize \subseteq Configs
    /\ Partial \in [Configs -> SUBSET (Document \ {NotJson})]
    /\ {NotJson, NoShape, NoBanks, Missing, Off} \cap Configs = {}
    /\ Missing \notin {NotJson, NoShape, NoBanks}

VARIABLES
    ram,        \* config_store_t.cfg, Off before it has been loaded
    file, tmp,  \* /storage/config.json and /storage/config.json.tmp
    step,       \* where the boot or the POST handler is
    booted,     \* the save, if any, is one of the POST handler
    data,       \* the document being saved
    synced,     \* the state machine and the editors know about ram
    \* History, for the properties only:
    acked,      \* the configuration last known to be stored: "saved" was
                \* answered, or a boot has loaded it
    unacked,    \* configurations posted since then
    excused     \* memory or storage failed in a way the code has no answer to

flash_vars == <<file, tmp>>
history_vars == <<acked, unacked, excused>>
vars == <<ram, file, tmp, step, booted, data, synced, acked, unacked, excused>>

TypeOK ==
    /\ ram \in Configs \cup {Off}
    /\ file \in File
    /\ tmp \in File
    /\ step \in {"off", "load", "encode", "write", "rename", "announce", "serve", "dead"}
    /\ booted \in BOOLEAN
    /\ data \in Document
    /\ synced \in BOOLEAN
    /\ acked \in Configs
    /\ unacked \subseteq Configs
    /\ excused \in BOOLEAN

-------------------------------------------------------------------------------
(* decode_config, on a document that parses and is an object with banks.    *)
Decodes(doc) == doc \in Configs \cup {NoBanks}

DecodeKeepsNoBanks(doc) == IF doc \in Configs \cup {NoBanks} THEN doc ELSE Defaults

(* With no valid bank the defaults are taken; this also is what a boot does *)
(* with a document that does not decode.                                    *)
Decode(doc) == IF doc \in Configs THEN doc ELSE Defaults

-------------------------------------------------------------------------------
Init ==
    /\ ram = Off
    /\ file \in File
    /\ tmp \in File
    /\ step = "off"
    /\ booted = FALSE
    /\ data = NotJson
    /\ synced = TRUE
    /\ acked = Decode(file)
    /\ unacked = {}
    /\ excused = FALSE

(* config_store_init mounts the storage, and formats it if that fails.      *)
Mount ==
    /\ step = "off"
    /\ \/ step' = "load" /\ UNCHANGED <<flash_vars, excused>>
       \/ /\ step' = "load"
          /\ file' = Missing
          /\ tmp' = Missing
          /\ excused' = TRUE
       \/ step' = "dead" /\ UNCHANGED <<flash_vars, excused>>
    /\ UNCHANGED <<ram, booted, data, synced, acked, unacked>>

(* read_file, cJSON_Parse and decode_config succeed. *)
LoadConfig ==
    /\ step = "load"
    /\ Decodes(file)
    /\ file \notin Oversize
    /\ ram' = Decode(file)
    /\ step' = "serve"
    /\ booted' = TRUE
    /\ acked' = Decode(file)
    /\ unacked' = {}
    /\ excused' = FALSE
    /\ UNCHANGED <<flash_vars, data, synced>>

(* Any failure of reading or decoding is answered with the defaults: there  *)
(* is no file, it is too long, it does not decode, or memory is short.      *)
RestoreDefaults ==
    /\ step = "load"
    /\ ram' = Defaults
    /\ step' = "encode"
    /\ excused' = (excused \/ Decodes(file))
    /\ UNCHANGED <<flash_vars, booted, data, synced, acked, unacked>>

(* A POST whose body cannot be received, parsed or decoded is refused and   *)
(* changes nothing; otherwise from_json overwrites the configuration.       *)
PostConfig ==
    /\ step = "serve"
    /\ \E doc \in Document :
          /\ Decodes(doc)
          /\ ram' = Decode(doc)
          /\ unacked' = unacked \cup {Decode(doc)}
    /\ step' = "encode"
    /\ synced' = FALSE
    /\ UNCHANGED <<flash_vars, booted, data, acked, excused>>

SaveFailsUnnoticed ==
    /\ step' = IF booted THEN "announce" ELSE "serve"
    /\ booted' = TRUE
    /\ UNCHANGED <<ram, synced, acked, unacked>>

(* Boot goes on without a saved file; the POST handler answers with an      *)
(* error and returns, and nobody is told about the new configuration.       *)
SaveFails ==
    /\ step' = "serve"
    /\ booted' = TRUE
    /\ UNCHANGED <<ram, synced, acked, unacked>>

OpenInPlace ==
    /\ step = "encode"
    /\ data' \in {ram} \cup Partial[ram]
    /\ file' = NotJson
    /\ step' = "write"
    /\ excused' = (excused \/ data' # ram)
    /\ UNCHANGED <<ram, tmp, booted, synced, acked, unacked>>

(* encode_config and fopen(tmp, "wb"). *)
OpenTmp ==
    /\ step = "encode"
    /\ data' \in {ram} \cup Partial[ram]
    /\ tmp' = NotJson
    /\ step' = "write"
    /\ excused' = (excused \/ data' # ram)
    /\ UNCHANGED <<ram, file, booted, synced, acked, unacked>>

OpenFails ==
    /\ step = "encode"
    /\ SaveFails
    /\ UNCHANGED <<flash_vars, data, excused>>

(* fwrite and fclose *)
WriteTmp ==
    /\ step = "write"
    /\ tmp' = data
    /\ step' = "rename"
    /\ UNCHANGED <<ram, file, booted, data, synced, history_vars>>

(* rename(tmp, path), atomic in LittleFS *)
RenameTmp ==
    /\ step = "rename"
    /\ file' = tmp
    /\ tmp' = Missing
    /\ step' = IF booted THEN "announce" ELSE "serve"
    /\ booted' = TRUE
    /\ UNCHANGED <<ram, data, synced, history_vars>>

WriteFailsUnnoticed ==
    /\ step = "write"
    /\ step' = "rename"
    /\ UNCHANGED <<ram, flash_vars, booted, data, synced, history_vars>>

(* A short write, a failed close or a failed rename: tmp is removed. *)
WriteFails ==
    /\ step \in {"write", "rename"}
    /\ tmp' = Missing
    /\ SaveFails
    /\ UNCHANGED <<file, data, excused>>

(* state_machine_resync, config_changed to every editor, and the answer.    *)
Announce ==
    /\ step = "announce"
    /\ synced' = TRUE
    /\ step' = "serve"
    /\ acked' = ram
    /\ unacked' = {}
    /\ excused' = (data # ram)
    /\ UNCHANGED <<ram, flash_vars, booted, data>>

(* The power fails, or deferred_restart_task restarts the device, which     *)
(* waits in httpd_stop for a POST under way and so comes between two of     *)
(* them.  A file that was open may hold anything.  The state machine starts *)
(* with whatever the next boot loads.                                       *)
PowerLoss ==
    /\ step # "off"
    /\ step' = "off"
    /\ ram' = Off
    /\ booted' = FALSE
    /\ synced' = TRUE
    /\ tmp' \in IF step = "write" THEN File ELSE {tmp}
    /\ UNCHANGED <<file, data, history_vars>>

Next ==
    \/ Mount
    \/ LoadConfig
    \/ RestoreDefaults
    \/ PostConfig
    \/ OpenTmp
    \/ OpenFails
    \/ WriteTmp
    \/ RenameTmp
    \/ WriteFails
    \/ Announce
    \/ PowerLoss

Spec == Init /\ [][Next]_vars

-------------------------------------------------------------------------------
(* Properties *)

(* Nothing is lost: a boot comes up with the configuration that was last    *)
(* answered "saved", or with one posted later, whatever failed in between,  *)
(* the power included (save_config, write_file_atomic).  Excused are        *)
(* documents encoded or read without enough memory, oversize documents and  *)
(* a storage that had to be formatted.                                      *)
SavedIsDurable == ~excused => Decode(file) \in {acked} \cup unacked

(* The state machine and the editors are only told about a configuration    *)
(* that a restart will not take back (config_post_handler, lines 399-411).  *)
AnnouncedIsStored ==
    synced /\ step = "serve" /\ ~excused => Decode(file) = ram

(* Steps and crashes of the store are those of one durable register.        *)
Promise == INSTANCE DurableConfig
    WITH stored <- Decode(file), live <- ram,
         Loses <- [c \in Configs |-> {Decode(doc) : doc \in Partial[c]}]

RefinesDurableConfig == Promise!Spec

(* config_store.h:17-18: "On a missing or corrupt file, writes the factory  *)
(* defaults back to flash".  Only then: a boot never overwrites a user's    *)
(* configuration that decodes and is not too long with the defaults.        *)
OnlyBadFilesAreReplaced ==
    [][RenameTmp /\ ~booted /\ file \in Configs \ (Oversize \cup {Defaults})
        => file' # Defaults]_vars
===============================================================================
