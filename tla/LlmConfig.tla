----------------------------- MODULE LlmConfig -----------------------------
(***************************************************************************)
(* The model configuration of every executor of a node (host-core          *)
(* state.rs, keyring.rs; agent config.rs, presets.rs).  A configuration is *)
(* kept three times: in memory with its key, in settings.json without it,  *)
(* and the key in the keyring of the operating system, whose calls may     *)
(* fail.  Each part has a lock of its own, so a save and a clear are       *)
(* sequences of steps.  An older build kept one key per provider, which is *)
(* read for the node's own executor only.                                  *)
(***************************************************************************)
EXTENDS Naturals, FiniteSets

CONSTANTS Threads,     \* request threads of the host
          Executors,   \* labels; one is the node's own
          Local,
          MaxOps,      \* bound: operations begun
          MaxBoots     \* bound: restarts

LocalIsAnExecutor == Local \in Executors

None == "none"
Providers == {"cloud", "home", "custom"}
(* builtin_presets: the endpoint a provider fills in; custom has none of its own. *)
PresetUrl == [cloud |-> "api", home |-> "localhost", custom |-> None]
NoEntry == [provider |-> None, url |-> None, key |-> None]

VARIABLES
  llm,       \* [Executors -> entry]: llm_config, in memory
  entries,   \* [Executors -> entry]: settings.llm_configs, no keys
  ring,      \* [Executors \X Providers -> key]: who typed the stored key, or None
  legacy,    \* SUBSET Providers: entries of the older build
  flag,      \* AppState.persisted
  thread,    \* [Threads -> record]
  ops, boots,
  out,       \* history: <<executor, provider>> whose last save opted out of remembering
  seen       \* history: two operations overlapped, the keyring failed, another executor saved

vars == <<llm, entries, ring, legacy, flag, thread, ops, boots, out, seen>>

Idle == [pc |-> "idle", op |-> None, e |-> Local, input |-> NoEntry, remember |-> FALSE,
         saved |-> FALSE]
Quiet == \A t \in Threads : thread[t].pc = "idle"

Init ==
  /\ llm = [e \in Executors |-> NoEntry] /\ entries = llm
  /\ ring = [ep \in Executors \X Providers |-> None]
  /\ legacy \in {{}, {"cloud"}}
  /\ flag = FALSE /\ thread = [t \in Threads |-> Idle]
  /\ ops = 0 /\ boots = 0 /\ out = {}
  /\ seen = [overlap |-> FALSE, failed |-> FALSE, others |-> FALSE]

-----------------------------------------------------------------------------
IsLocalUrl(url) == url = "localhost"
(* AgentConfig::validate and readiness_of: a local endpoint may go without a key. *)
Ready(c) == c.url # None /\ (IsLocalUrl(c.url) \/ c.key # None)

(* llm_readiness_for *)
Readiness(e) == llm[e] # NoEntry /\ Ready(llm[e])

(* build_llm, over agent_config_for: whether a run gets a client. *)
Builds(e) == llm[e].key # None

(* llm_config_status_for: is the key remembered? *)
ShownPersisted(e) ==
  IF e = Local THEN llm[e] # NoEntry /\ flag
  ELSE llm[e] # NoEntry /\ ring[<<e, llm[e].provider>>] # None

-----------------------------------------------------------------------------
Begin(t) ==
  /\ thread[t].pc = "idle" /\ ops < MaxOps /\ ops' = ops + 1
  /\ seen' = [seen EXCEPT !.overlap = @ \/ ~Quiet]
Goto(t, pc) == thread' = [thread EXCEPT ![t].pc = pc]

(* set_llm_config_with_for up to the validation: the preset fills what was left blank. *)
SetConfig(t, e, p, url, key, remember) ==
  LET filled == IF url = None THEN PresetUrl[p] ELSE url
      input == [provider |-> p, url |-> filled, key |-> key] IN
  /\ Begin(t)
  /\ Ready(input)
  /\ thread' = [thread EXCEPT ![t] = [pc |-> "keyring", op |-> "set", e |-> e, input |-> input,
                                      remember |-> remember, saved |-> FALSE]]
  /\ UNCHANGED <<llm, entries, ring, legacy, flag, boots, out>>

(* keyring_save, or keyring_delete when the user opts out; the keyring may refuse either. *)
SaveKeyNeverDeletes(t, works) ==
  LET i == thread[t].input  w == <<thread[t].e, i.provider>>  keeps == thread[t].remember /\ i.key # None IN
  /\ thread[t].pc = "keyring"
  /\ ring' = [ring EXCEPT ![w] = IF works /\ keeps THEN i.key ELSE @]
  /\ thread' = [thread EXCEPT ![t].pc = "settings", ![t].saved = keeps /\ works]
  /\ out' = IF thread[t].remember THEN out \ {w} ELSE out \cup {w}
  /\ seen' = [seen EXCEPT !.failed = @ \/ ~works, !.others = @ \/ thread[t].e # Local]
  /\ UNCHANGED <<llm, entries, legacy, flag, ops, boots>>
SaveKey(t, works) ==
  LET i == thread[t].input  w == <<thread[t].e, i.provider>>  keeps == thread[t].remember /\ i.key # None IN
  /\ thread[t].pc = "keyring"
  /\ ring' = [ring EXCEPT ![w] = IF ~works \/ (thread[t].remember /\ ~keeps) THEN @
                                 ELSE IF keeps THEN i.key ELSE None]
  /\ thread' = [thread EXCEPT ![t].pc = "settings", ![t].saved = keeps /\ works]
  /\ out' = IF thread[t].remember THEN out \ {w} ELSE out \cup {w}
  /\ seen' = [seen EXCEPT !.failed = @ \/ ~works, !.others = @ \/ thread[t].e # Local]
  /\ UNCHANGED <<llm, entries, legacy, flag, ops, boots>>

(* persist_llm_config: the half that is no secret. *)
PersistConfig(t) ==
  /\ thread[t].pc = "settings" /\ thread[t].op = "set"
  /\ entries' = [entries EXCEPT ![thread[t].e] = [thread[t].input EXCEPT !.key = None]]
  /\ Goto(t, "memory")
  /\ UNCHANGED <<llm, ring, legacy, flag, ops, boots, out, seen>>

(* set_llm_config_for, then the flag, which a save moves whoever it was for. *)
StoreMemory(t) ==
  /\ thread[t].pc = "memory"
  /\ llm' = [llm EXCEPT ![thread[t].e] = thread[t].input]
  /\ Goto(t, IF thread[t].op = "load" /\ thread[t].e # Local THEN "idle" ELSE "flag")
  /\ UNCHANGED <<entries, ring, legacy, flag, ops, boots, out, seen>>
SetFlagAlways(t) ==
  /\ thread[t].pc = "flag"
  /\ flag' = TRUE
  /\ thread' = [thread EXCEPT ![t] = Idle]
  /\ UNCHANGED <<llm, entries, ring, legacy, ops, boots, out, seen>>
SetFlag(t) ==
  /\ thread[t].pc = "flag"
  /\ flag' = thread[t].saved
  /\ thread' = [thread EXCEPT ![t] = Idle]
  /\ UNCHANGED <<llm, entries, ring, legacy, ops, boots, out, seen>>

-----------------------------------------------------------------------------
(* keyring_get_llm_key: the executor's own entry, then, for the node itself, the older
   build's, which is written forward when the keyring takes it and never deleted. *)
StoredKeyForAnyone(e, p) ==
  IF ring[<<e, p>>] # None THEN ring[<<e, p>>] ELSE IF p \in legacy THEN "legacy" ELSE None
StoredKey(e, p) ==
  IF ring[<<e, p>>] # None THEN ring[<<e, p>>]
  ELSE IF e = Local /\ p \in legacy THEN "legacy" ELSE None
Migrated(e, p, works) ==
  [ring EXCEPT ![<<e, p>>] = IF works THEN StoredKey(e, p) ELSE @]

(* has_stored_key_for *)
HasStoredKey(t, e, p, works) ==
  /\ Begin(t)
  /\ ring' = Migrated(e, p, works)
  /\ UNCHANGED <<llm, entries, legacy, flag, thread, boots, out>>

(* load_stored_key_for: the key first ... *)
LoadStoredKey(t, e, p, works) ==
  /\ Begin(t)
  /\ StoredKey(e, p) # None
  /\ ring' = Migrated(e, p, works)
  /\ thread' = [thread EXCEPT ![t] = [Idle EXCEPT !.pc = "pair", !.op = "load", !.e = e, !.saved = TRUE,
                  !.input = [provider |-> p, url |-> None, key |-> StoredKey(e, p)]]]
  /\ UNCHANGED <<llm, entries, legacy, flag, boots, out>>
(* ... then the endpoint it belongs with: the persisted one, the one in memory, the preset's. *)
UrlFromPreset(e, p) == PresetUrl[p]
UrlFor(e, p) ==
  IF entries[e].provider = p THEN entries[e].url
  ELSE IF llm[e].provider = p THEN llm[e].url ELSE PresetUrl[p]
PairKey(t) ==
  LET i == thread[t].input  paired == [i EXCEPT !.url = UrlFor(thread[t].e, i.provider)] IN
  /\ thread[t].pc = "pair"
  /\ thread' = [thread EXCEPT ![t].pc = IF Ready(paired) THEN "memory" ELSE "idle", ![t].input = paired]
  /\ UNCHANGED <<llm, entries, ring, legacy, flag, ops, boots, out, seen>>

-----------------------------------------------------------------------------
(* clear_llm_config_for: memory, the key of the provider that was in memory, the persisted
   half, and the flag when the executor is the node's own. *)
ClearConfig(t, e) ==
  /\ Begin(t)
  /\ llm' = [llm EXCEPT ![e] = NoEntry]
  /\ thread' = [thread EXCEPT ![t] = [Idle EXCEPT !.pc = IF llm[e] = NoEntry THEN "settings" ELSE "delete",
                                      !.op = "clear", !.e = e, !.input = llm[e]]]
  /\ UNCHANGED <<entries, ring, legacy, flag, boots, out>>
DeleteKey(t, works) ==
  LET w == <<thread[t].e, thread[t].input.provider>> IN
  /\ thread[t].pc = "delete"
  /\ ring' = [ring EXCEPT ![w] = IF works THEN None ELSE @]
  /\ Goto(t, "settings")
  /\ seen' = [seen EXCEPT !.failed = @ \/ ~works]
  /\ UNCHANGED <<llm, entries, legacy, flag, ops, boots, out>>
ForgetConfigOnly(t) ==
  /\ thread[t].pc = "settings" /\ thread[t].op = "clear"
  /\ Goto(t, IF thread[t].e = Local THEN "flag" ELSE "idle")
  /\ UNCHANGED <<llm, entries, ring, legacy, flag, ops, boots, out, seen>>
ForgetConfig(t) ==
  /\ thread[t].pc = "settings" /\ thread[t].op = "clear"
  /\ entries' = [entries EXCEPT ![thread[t].e] = NoEntry]
  /\ Goto(t, IF thread[t].e = Local THEN "flag" ELSE "idle")
  /\ UNCHANGED <<llm, ring, legacy, flag, ops, boots, out, seen>>

(* A restart: memory is gone, and a key in the environment is adopted in memory only. *)
Boot(env) ==
  /\ boots < MaxBoots /\ boots' = boots + 1
  /\ llm' = [e \in Executors |-> IF env /\ e = Local
                                 THEN [provider |-> "cloud", url |-> "api", key |-> "env"] ELSE NoEntry]
  /\ flag' = FALSE /\ thread' = [t \in Threads |-> Idle]
  /\ seen' = [seen EXCEPT !.overlap = @ \/ ~Quiet]
  /\ UNCHANGED <<entries, ring, legacy, ops, out>>

Next ==
  \/ \E env \in BOOLEAN : Boot(env)
  \/ \E t \in Threads :
       \/ \E e \in Executors, p \in Providers, url \in {None, "own"}, typed, remember \in BOOLEAN :
            SetConfig(t, e, p, url, IF typed THEN e ELSE None, remember)
       \/ \E works \in BOOLEAN :
            \/ SaveKey(t, works) \/ DeleteKey(t, works)
            \/ \E e \in Executors, p \in Providers :
                 HasStoredKey(t, e, p, works) \/ LoadStoredKey(t, e, p, works)
       \/ \E e \in Executors : ClearConfig(t, e)
       \/ PersistConfig(t) \/ StoreMemory(t) \/ SetFlag(t) \/ PairKey(t) \/ ForgetConfig(t)

Spec == Init /\ [][Next]_vars

-----------------------------------------------------------------------------
Alone == Quiet /\ ~seen.overlap

(* A key is used by the executor it was typed for, in memory and in the keyring, through
   every save, migration, clear and restart; what the older build or the environment left
   belongs to the node itself (keyring_get_llm_key, legacy_user_for_provider). *)
KeyGoesWithItsOwner ==
  \A e \in Executors :
    LET mine == {None, e} \cup (IF e = Local THEN {"legacy", "env"} ELSE {}) IN
    llm[e].key \in mine /\ \A p \in Providers : ring[<<e, p>>] \in mine

(* One request at a time: what an executor is pointed at in memory is what settings.json says
   of that provider, so that a restart and a load_stored_key restore the user's endpoint. *)
AloneEndpointIsRestored ==
  Alone => \A e \in Executors :
    llm[e].provider = entries[e].provider /\ llm[e].key # "env" => llm[e].url = entries[e].url

(* A cleared executor is not configured by the next start: no entry without a memory of it,
   unless the process restarted since. *)
AloneClearedIsForgotten ==
  Alone /\ boots = 0 => \A e \in Executors : llm[e] = NoEntry => entries[e] = NoEntry

(* A user who opted out of remembering leaves no key behind for that provider, unless the
   keyring refused the deletion or the older build's entry is read again. *)
AloneOptOutForgets ==
  Alone /\ ~seen.failed => \A ep \in out : ep[2] \notin legacy => ring[ep] = None

(* When only the node's own executor was ever saved, the UI's "remembered" is shown only if
   a restart would find the key. *)
AloneRememberedIsStored ==
  Alone /\ ~seen.others /\ ShownPersisted(Local) =>
    ring[<<Local, llm[Local].provider>>] # None \/ llm[Local].provider \in legacy

(***************************************************************************)
(* A key reaches only the provider it was stored for, and request by       *)
(* request memory, file and keyring agree on what is remembered            *)
(* (build_llm, set_llm_config_with_for, clear_llm_config).                 *)
(***************************************************************************)
KeysInv ==
    /\ KeyGoesWithItsOwner /\ AloneEndpointIsRestored /\ AloneClearedIsForgotten
    /\ AloneOptOutForgets /\ AloneRememberedIsStored

(* As load_stored_key_for's comment has it: the flag only moves for this node's own executor. *)
RememberedIsStored ==
  Alone /\ ~seen.failed /\ ShownPersisted(Local) =>
    ring[<<Local, llm[Local].provider>>] # None \/ llm[Local].provider \in legacy

(* As README.md has it: a local model needs no key.  A configuration that is ready to run
   gets a client. *)
ReadyMeansRunnable == Readiness(Local) => Builds(Local)
=============================================================================
