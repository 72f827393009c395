---------------------------- MODULE RemoteAccess ----------------------------
(***************************************************************************)
(* The remote access configuration: the sealed row in the database, the    *)
(* configuration the manager runs with, the connector token files the      *)
(* connectors watch, and the OAuth refresh tokens Cloudflare accepts.      *)
(*                                                                         *)
(* Every request that changes the configuration reads the row, builds a    *)
(* candidate from that copy, applies it to the runtime and then stores it  *)
(* (or rolls the runtime back).  The reconciliation pass, and the request  *)
(* that verifies instance publishing, renew the authorization when they    *)
(* need to: they exchange the refresh token, merge the new one into a      *)
(* fresh copy of the row, store that and only then use the new token.  At  *)
(* a start a goroutine applies the row while requests are served already.  *)
(* All of them interleave freely: the only locks are the mutex a pass      *)
(* shares with Configure and Disable, and the one around the exchange.     *)
(***************************************************************************)
EXTENDS Naturals, FiniteSets

CONSTANTS Requests,      \* requests 1..n; a request writes its own number as the new tokens
          Kinds,         \* what a request may be
          MaxTokens,     \* bound: refresh tokens issued by Cloudflare
          MaxFaults,     \* bound: calls and writes that fail
          MaxCrashes     \* bound: restarts of the control plane

ASSUME RemoteAccessBounds ==
  /\ Requests \subseteq Nat \ {0} /\ MaxTokens \in Nat /\ MaxFaults \in Nat /\ MaxCrashes \in Nat
  /\ Kinds \subseteq {"admin", "publishing", "full", "existing", "oauth", "disable"}

VARIABLES
  stored,    \* the row system_remote_access_config
  runtime,   \* the manager's configuration
  files,     \* the connector token files, 0 when absent
  issued,    \* the refresh tokens Cloudflare issued are 1..issued
  accepted,  \* those it accepts
  fresh,     \* those whose access token is valid for two more minutes
  req,       \* the requests
  call,      \* the pass, and the API calls of the requests
  lock,      \* who holds oauthRefresh: one caller or none
  boot,      \* the goroutine that applies the row at the start
  lapses,    \* history: what the code does not guard against and met (below)
  faults, crashes

cloud == <<issued, accepted, fresh>>
vars == <<stored, runtime, files, cloud, req, call, lock, boot, lapses, faults, crashes>>

Pass    == 0
Callers == Requests \cup {Pass}

\* A configuration: ownership mode, the two connector tokens, whether routes
\* are automated, and the OAuth credential (0: none) that renews their token.
NoConfig == [mode |-> "none", admin |-> 0, inst |-> 0, auto |-> FALSE, rt |-> 0]
NoFiles  == [admin |-> 0, inst |-> 0]
NoCall   == [pc |-> "idle", token |-> 0, copy |-> NoConfig]
NoReq    == [kind |-> "none", pc |-> "none", prev |-> NoConfig, next |-> NoConfig]

Init ==
  /\ stored = NoConfig /\ runtime = NoConfig /\ files = NoFiles
  /\ issued = 0 /\ accepted = {} /\ fresh = {}
  /\ req = [r \in Requests |-> NoReq]
  /\ call = [c \in Callers |-> NoCall]
  /\ lock = {} /\ boot = [pc |-> "read", copy |-> NoConfig]
  /\ lapses = {} /\ faults = 0 /\ crashes = 0

InFlight(r) == req[r].pc \notin {"none", "done"}
\* The runtime was changed and the row is not: the request is about to write
\* or delete the row, or to roll the runtime back.
Halfway(r)  == req[r].pc \in {"store", "undo", "delete"}
Quiet == /\ \A r \in Requests : ~InFlight(r)
         /\ \A c \in Callers : call[c].pc = "idle"
         /\ boot.pc \in {"done", "failed"}

Fault == faults < MaxFaults /\ faults' = faults + 1
Done(r)  == [kind |-> req[r].kind, pc |-> "done", prev |-> NoConfig, next |-> NoConfig]
Ended(r) == req' = [req EXCEPT ![r] = Done(r)]
Goes(r, pc) == req' = [req EXCEPT ![r].pc = pc]

\* Two configurations that differ in nothing but the credential.
SameTopology(c, d) == [c EXCEPT !.rt = d.rt] = d

\* A history of the lapses nothing in the code prevents:
\*   "config"   the runtime or the row was written from a copy whose topology
\*              is no longer the row's, or beside a request that is halfway;
\*   "token"    a request saved a copy whose credential is no longer the row's;
\*   "renewal"  a token was exchanged and the next one never saved.
Lapse(what, met) == lapses' = IF met THEN lapses \cup {what} ELSE lapses

\* (r is 0 for the goroutine of the start.)
Outrun(r, copy) == ~SameTopology(copy, stored) \/ \E s \in Requests \ {r} : Halfway(s)

-----------------------------------------------------------------------------
(* The requests: each copies the row and builds its candidate.             *)

Accepts(r, kind, next, pc) ==
  /\ req[r].pc = "none" /\ kind \in Kinds
  /\ req' = [req EXCEPT ![r] = [kind |-> kind, pc |-> pc, prev |-> stored, next |-> next]]
  /\ UNCHANGED <<stored, runtime, files, call, lock, boot, lapses, faults, crashes>>

configureCloudflareAdminBoundary(r) ==
  /\ stored.mode # "existing"
  /\ Accepts(r, "admin", [stored EXCEPT !.mode = "managed", !.admin = r], "apply")
  /\ UNCHANGED cloud

configureCloudflareInstancePublishing(r) ==
  /\ stored.mode # "existing"
  /\ Accepts(r, "publishing", [stored EXCEPT !.mode = "managed", !.inst = r, !.auto = TRUE], "verify")
  /\ UNCHANGED cloud

\* The manual setup: given tokens, the automation as it was, no OAuth.
configureRemoteAccess(r) ==
  /\ \/ Accepts(r, "full", [mode |-> "managed", admin |-> r, inst |-> r, auto |-> stored.auto, rt |-> 0], "apply")
     \/ Accepts(r, "existing", [NoConfig EXCEPT !.mode = "existing"], "apply")
  /\ UNCHANGED cloud

\* Sign-in: only onto an empty row; Cloudflare has issued both tokens.
completeCloudflareOAuthProvisioning(r) ==
  /\ stored.mode = "none" /\ issued < MaxTokens
  /\ issued' = issued + 1 /\ accepted' = accepted \cup {issued'} /\ fresh' = fresh \cup {issued'}
  /\ Accepts(r, "oauth", [mode |-> "managed", admin |-> r, inst |-> r, auto |-> TRUE, rt |-> issued'], "apply")

disableRemoteAccess(r) == Accepts(r, "disable", NoConfig, "apply") /\ UNCHANGED cloud

\* The token, zone and tunnel of the candidate are tried before it is
\* applied, with an access token that is still valid or was just renewed.
VerifyInstancePublishing(r) ==
  /\ req[r].pc = "verified" \/ (req[r].pc = "verify" /\ call[r].pc = "idle" /\ req[r].next.rt \in fresh \cup {0})
  /\ \/ Goes(r, "apply") /\ UNCHANGED faults
     \/ Fault /\ Ended(r)
  /\ UNCHANGED <<stored, runtime, files, cloud, call, lock, boot, lapses, crashes>>

-----------------------------------------------------------------------------
(* Applying a candidate.                                                   *)

\* Another ownership mode has to be disabled first.
ModeAllowed(c) == runtime.mode \in {"none", c.mode}

\* Only the boundaries of the configuration are written; files of others stay.
publishConnectorTokens(c) ==
  [admin |-> IF c.admin # 0 THEN c.admin ELSE files.admin, inst |-> IF c.inst # 0 THEN c.inst ELSE files.inst]

\* The mode without tunnels leaves the Cloudflare manager, and the credential
\* it holds, alone.
Activate(c) ==
  IF c.mode = "managed"
  THEN runtime' = c /\ files' = publishConnectorTokens(c)
  ELSE runtime' = [c EXCEPT !.rt = runtime.rt] /\ UNCHANGED files

Disable ==
  IF runtime.mode = "managed"
  THEN runtime' = NoConfig /\ files' = NoFiles
  ELSE runtime' = [NoConfig EXCEPT !.rt = runtime.rt] /\ UNCHANGED files

\* A file that cannot be removed: the others are gone, the runtime stays.
DisableFails ==
  /\ Fault /\ runtime.mode = "managed"
  /\ \E kept \in SUBSET {"admin", "inst"} :
       files' = [f \in {"admin", "inst"} |-> IF f \in kept THEN files[f] ELSE 0]
  /\ UNCHANGED runtime

\* (mutant: Configure and Disable do not wait for a pass)
NotSerialized == TRUE

\* Configure and Disable take the mutex that a pass holds.
ReconcileFree == call[Pass].pc = "idle"

\* Configure, under the lifecycle lock: both token files or neither.
Configure(r) ==
  /\ req[r].pc = "apply" /\ req[r].kind # "disable"
  /\ \/ /\ ReconcileFree /\ ModeAllowed(req[r].next)
        /\ Activate(req[r].next) /\ Goes(r, "store")
        /\ Lapse("config", Outrun(r, req[r].prev)) /\ UNCHANGED faults
     \/ /\ \/ ~ModeAllowed(req[r].next) /\ UNCHANGED faults
           \/ Fault
        /\ Ended(r) /\ UNCHANGED <<runtime, files, lapses>>
  /\ UNCHANGED <<stored, cloud, call, lock, boot, crashes>>

PutRemoteAccessConfig(r) ==
  /\ req[r].pc = "store"
  /\ \/ /\ stored' = req[r].next /\ Ended(r)
        /\ Lapse("token", req[r].prev.rt # stored.rt) /\ UNCHANGED faults
     \/ Fault /\ Goes(r, "undo") /\ UNCHANGED <<stored, lapses>>
  /\ UNCHANGED <<runtime, files, cloud, call, lock, boot, crashes>>

\* (mutant: the runtime keeps the configuration that was not saved)
NoRollBack(r) ==
  /\ req[r].pc = "undo" /\ Ended(r)
  /\ UNCHANGED <<stored, runtime, files, cloud, call, lock, boot, lapses, faults, crashes>>

\* The row could not be written: back to the configuration read before.  A
\* mode that Configure refuses, and a rollback that fails, are not reported.
RollBack(r) ==
  /\ req[r].pc = "undo" /\ ReconcileFree
  /\ \/ /\ UNCHANGED faults
        /\ IF req[r].prev.mode = "none" THEN Disable
           ELSE IF ModeAllowed(req[r].prev) THEN Activate(req[r].prev)
           ELSE UNCHANGED <<runtime, files>>
     \/ IF req[r].prev.mode = "none" THEN DisableFails ELSE Fault /\ UNCHANGED <<runtime, files>>
  /\ Ended(r)
  /\ UNCHANGED <<stored, cloud, call, lock, boot, lapses, crashes>>

\* Disable: the runtime and its files first, then the row.
DisableRuntime(r) ==
  /\ req[r].pc = "apply" /\ req[r].kind = "disable" /\ ReconcileFree
  /\ \/ /\ Disable /\ Goes(r, "delete") /\ UNCHANGED faults
        /\ Lapse("config", \E s \in Requests : Halfway(s))
     \/ DisableFails /\ Ended(r) /\ UNCHANGED lapses
  /\ UNCHANGED <<stored, cloud, call, lock, boot, crashes>>

DeleteRemoteAccessConfig(r) ==
  /\ req[r].pc = "delete"
  /\ \/ stored' = NoConfig /\ UNCHANGED faults
     \/ Fault /\ UNCHANGED stored
  /\ Ended(r)
  /\ UNCHANGED <<runtime, files, cloud, call, lock, boot, lapses, crashes>>

-----------------------------------------------------------------------------
(* The reconciliation pass, up to its first call to Cloudflare.            *)

Proceeds(c, pc) == call' = [call EXCEPT ![c].pc = pc]

\* A pass holds the mutex and works on the configuration it found.
Reconcile ==
  /\ call[Pass].pc = "idle" /\ runtime.mode = "managed"
  /\ call' = [call EXCEPT ![Pass] = [NoCall EXCEPT !.pc = "publish", !.copy = runtime]]
  /\ UNCHANGED <<stored, runtime, files, cloud, req, lock, boot, lapses, faults, crashes>>

\* It puts the token files right, and ends there when routes are manual.
ReconcileTokens ==
  /\ call[Pass].pc = "publish"
  /\ \/ /\ files' = publishConnectorTokens(call[Pass].copy) /\ UNCHANGED faults
        /\ Proceeds(Pass, IF call[Pass].copy.auto THEN "ask" ELSE "idle")
     \/ Fault /\ Proceeds(Pass, "idle") /\ UNCHANGED files
  /\ UNCHANGED <<stored, runtime, cloud, req, lock, boot, lapses, crashes>>

\* An access token that is valid needs no renewal.
ReconcileRoutes ==
  /\ call[Pass].pc = "ask" /\ call[Pass].copy.rt \in fresh \cup {0}
  /\ Proceeds(Pass, "idle")
  /\ UNCHANGED <<stored, runtime, files, cloud, req, lock, boot, lapses, faults, crashes>>

-----------------------------------------------------------------------------
(* Renewal of the authorization.                                           *)

\* The configuration an API call is made with.
CallConfig(c) == IF c = Pass THEN call[c].copy ELSE req[c].next

\* An API call finds the access token of its configuration about to expire.
apiWithConfig(c) ==
  /\ IF c = Pass THEN call[c].pc = "ask" ELSE req[c].pc = "verify" /\ call[c].pc = "idle"
  /\ CallConfig(c).rt \notin fresh \cup {0}
  /\ call' = [call EXCEPT ![c] = [pc |-> "wait", token |-> 0, copy |-> CallConfig(c)]]
  /\ UNCHANGED <<stored, runtime, files, cloud, req, lock, boot, lapses, faults, crashes>>

\* The call gives the lock back and goes on with its token, or fails.
Release(c, ok) ==
  /\ lock' = {} /\ call' = [call EXCEPT ![c] = NoCall]
  /\ IF c = Pass THEN UNCHANGED req ELSE IF ok THEN Goes(c, "verified") ELSE Ended(c)

\* With the lock the configuration is read again: another caller may have
\* renewed it while this one waited.
CurrentToken(c) == IF runtime.rt # 0 THEN runtime.rt ELSE call[c].copy.rt

RefreshAgain(c) ==
  /\ call[c].pc = "wait" /\ lock = {}
  /\ IF CurrentToken(c) \in fresh THEN Release(c, TRUE)
     ELSE /\ lock' = {c} /\ call' = [call EXCEPT ![c].pc = "send", ![c].token = CurrentToken(c)]
          /\ UNCHANGED req
  /\ UNCHANGED <<stored, runtime, files, cloud, boot, lapses, faults, crashes>>

\* Cloudflare exchanges a refresh token it accepts for the next one (the
\* answer may get lost) and refuses any other.
oauthAccessToken(c) ==
  /\ call[c].pc = "send"
  /\ IF call[c].token \notin accepted
     THEN Release(c, FALSE) /\ UNCHANGED <<cloud, lapses, faults>>
     ELSE /\ issued < MaxTokens /\ issued' = issued + 1
          /\ accepted' = (accepted \ {call[c].token}) \cup {issued'}
          /\ \/ /\ call' = [call EXCEPT ![c].pc = "merge", ![c].token = issued']
                /\ fresh' = fresh \cup {issued'}
                /\ UNCHANGED <<lock, req, lapses, faults>>
             \/ Fault /\ Release(c, FALSE) /\ Lapse("renewal", TRUE) /\ UNCHANGED fresh
  /\ UNCHANGED <<stored, runtime, files, boot, crashes>>

\* (mutant: the rotation is used without being saved)
UseUnsavedRotation(c) ==
  /\ call[c].pc = "merge" /\ Proceeds(c, "use")
  /\ UNCHANGED <<stored, runtime, files, cloud, req, lock, boot, lapses, faults, crashes>>

\* PersistCloudflareRuntimeConfig: the row is read, the credential replaced
\* in the copy, the copy written.
ReadForRotation(c) ==
  /\ call[c].pc = "merge"
  /\ IF stored.mode = "managed" /\ stored.rt # 0
     THEN /\ call' = [call EXCEPT ![c].pc = "save", ![c].copy = [stored EXCEPT !.rt = call[c].token]]
          /\ UNCHANGED <<lock, req, lapses>>
     ELSE Release(c, FALSE) /\ Lapse("renewal", TRUE)
  /\ UNCHANGED <<stored, runtime, files, cloud, boot, faults, crashes>>

PersistCloudflareRuntimeConfig(c) ==
  /\ call[c].pc = "save"
  /\ \/ /\ stored' = call[c].copy /\ Proceeds(c, "use")
        /\ Lapse("config", ~SameTopology(call[c].copy, stored))
        /\ UNCHANGED <<lock, req, faults>>
     \/ Fault /\ Release(c, FALSE) /\ Lapse("renewal", TRUE) /\ UNCHANGED stored
  /\ UNCHANGED <<runtime, files, cloud, boot, crashes>>

UseRotatedToken(c) ==
  /\ call[c].pc = "use"
  /\ runtime' = [runtime EXCEPT !.rt = call[c].token]
  /\ Release(c, TRUE)
  /\ UNCHANGED <<stored, files, cloud, boot, lapses, faults, crashes>>

\* Time passes: an access token is about to expire.
Expire ==
  /\ \E t \in fresh : fresh' = fresh \ {t}
  /\ UNCHANGED <<stored, runtime, files, issued, accepted, req, call, lock, boot, lapses, faults, crashes>>

-----------------------------------------------------------------------------
(* Restarts.                                                               *)

Crash ==
  /\ crashes < MaxCrashes /\ crashes' = crashes + 1
  /\ runtime' = NoConfig /\ lock' = {} /\ boot' = [pc |-> "read", copy |-> NoConfig]
  /\ req' = [r \in Requests |-> IF InFlight(r) THEN Done(r) ELSE req[r]]
  /\ call' = [c \in Callers |-> NoCall]
  /\ Lapse("renewal", \E c \in Callers : call[c].pc \in {"merge", "save"})
  /\ UNCHANGED <<stored, files, cloud, faults>>

\* The goroutine of the start reads the row ...
ReadConfiguration ==
  /\ boot.pc = "read"
  /\ boot' = IF stored.mode = "none" THEN [boot EXCEPT !.pc = "done"] ELSE [pc |-> "apply", copy |-> stored]
  /\ UNCHANGED <<stored, runtime, files, cloud, req, call, lock, lapses, faults, crashes>>

BootGoes(pc) == boot' = [boot EXCEPT !.pc = pc]

\* ... applies it ...
RestoreConfiguration ==
  /\ boot.pc = "apply"
  /\ \/ /\ ReconcileFree /\ ModeAllowed(boot.copy)
        /\ Activate(boot.copy) /\ BootGoes("done")
        /\ Lapse("config", Outrun(0, boot.copy)) /\ UNCHANGED faults
     \/ /\ \/ ~ModeAllowed(boot.copy) /\ UNCHANGED faults
           \/ Fault
        /\ BootGoes("record") /\ UNCHANGED <<runtime, files, lapses>>
  /\ UNCHANGED <<stored, cloud, req, call, lock, crashes>>

\* ... and keeps a row that could not be applied visible, under no lock.
RecordConfigurationFailure ==
  /\ boot.pc = "record" /\ BootGoes("failed")
  /\ runtime' = IF boot.copy.mode = "managed" THEN boot.copy ELSE [boot.copy EXCEPT !.rt = runtime.rt]
  /\ Lapse("config", Outrun(0, boot.copy))
  /\ UNCHANGED <<stored, files, cloud, req, call, lock, faults, crashes>>

Next ==
  \/ Expire \/ Crash \/ ReadConfiguration \/ RestoreConfiguration \/ RecordConfigurationFailure
  \/ Reconcile \/ ReconcileTokens \/ ReconcileRoutes
  \/ \E r \in Requests :
       \/ configureCloudflareAdminBoundary(r) \/ configureCloudflareInstancePublishing(r)
       \/ configureRemoteAccess(r) \/ completeCloudflareOAuthProvisioning(r) \/ disableRemoteAccess(r)
       \/ VerifyInstancePublishing(r) \/ Configure(r) \/ PutRemoteAccessConfig(r) \/ RollBack(r)
       \/ DisableRuntime(r) \/ DeleteRemoteAccessConfig(r)
  \/ \E c \in Callers :
       \/ apiWithConfig(c) \/ RefreshAgain(c) \/ oauthAccessToken(c) \/ ReadForRotation(c)
       \/ PersistCloudflareRuntimeConfig(c) \/ UseRotatedToken(c)

Spec == Init /\ [][Next]_vars

-----------------------------------------------------------------------------
\* The connectors run what the manager runs, whoever else is at work: the
\* token files are those of the running configuration, and there are none
\* when remote access is off.  A pass works on a copy, so this rests on the
\* mutex it shares with Configure and Disable.  (Not so after a removal that
\* failed, a row the start could not apply, and files a crash left behind.)
ConnectorsFollow ==
  boot.pc # "failed" =>
    /\ runtime.mode = "managed" /\ faults = 0 => \A b \in {"admin", "inst"} : runtime[b] # 0 => files[b] = runtime[b]
    /\ runtime.mode # "managed" /\ crashes = 0 => files = NoFiles

\* When nothing is under way the running configuration is the saved one, up
\* to the credential, so that a restart changes nothing: for every order of
\* requests, passes, failures and restarts in which nobody wrote from a copy
\* that was out of date or over a request that was halfway ("config").  A
\* failed deletion of the row is the exception: the request reported it and
\* the runtime is off already.  One failure is all the code makes up for: with
\* a second one the rollback itself may fail.
SavedIsActive ==
  Quiet /\ "config" \notin lapses /\ faults <= 1 /\ ~SameTopology(runtime, stored)
    => faults = 1 /\ runtime.mode = "none"

\* The authorization survives its renewals: when nothing is under way the
\* row holds a refresh token that Cloudflare accepts, after any failures and
\* restarts, unless one of the lapses was met: a renewal cut between the
\* exchange and the save, or a write from an outdated copy.
AuthorizationKept == Quiet /\ stored.rt # 0 /\ lapses = {} => stored.rt \in accepted

\* "retains renewable OAuth authorization for later instance route
\* reconciliation": the row keeps a token Cloudflare accepts when nothing
\* failed and every renewed token was saved.
AuthorizationRetained ==
  Quiet /\ stored.rt # 0 /\ faults = 0 /\ crashes = 0 /\ "renewal" \notin lapses => stored.rt \in accepted

\* "topology remains owned by the saved configuration": a rotation leaves
\* every other part of the row as it is.
RotationKeepsTopology ==
  [][(\E c \in Callers : call[c].pc = "save" /\ call'[c].pc = "use") => SameTopology(stored, stored')]_vars

\* The running configuration is the saved one when nothing is under way and
\* nothing failed.
SavedAlways == Quiet /\ faults = 0 /\ crashes = 0 => SameTopology(runtime, stored)

\* "Disabling the module removes local connector token files": with the
\* module off and nothing under way there are none.
FilesRemoved == Quiet /\ runtime.mode = "none" => files = NoFiles
=============================================================================
