-------------------------- MODULE RemoteAccessProofs --------------------------
(***************************************************************************)
(* Proofs about RemoteAccess for any number of requests, tokens, failures  *)
(* and restarts, in every interleaving of the requests, the reconciliation *)
(* pass, the renewals and the start.                                       *)
(*                                                                         *)
(* The invariant has four parts: the token files follow the running        *)
(* configuration (FollowInv); what a candidate is (Candidate); one request *)
(* at a time is halfway and, up to one failure, what runs is what is saved *)
(* (SavedInv); one caller at a time exchanges the refresh token, and the   *)
(* token it got is good until it is saved (TokenInv).  Each part is shown  *)
(* for the steps of the requests, of the calls that renew, and the others. *)
(***************************************************************************)
EXTENDS RemoteAccess, TLAPS

Modes   == { "none", "managed", "existing" }
Records == [ mode : Modes, admin : Nat, inst : Nat, auto : BOOLEAN, rt : Nat ]
(* A configuration without a mode has nothing in it but, in the runtime, a  *)
(* credential.                                                              *)
Configs == { c \in Records : c.mode = "none" => SameTopology(c, NoConfig) }
(* Elsewhere only a managed configuration has a credential.                 *)
Saved   == { c \in Configs : c.mode # "managed" => c.rt = 0 }

RequestPcs == { "none", "verify", "verified", "apply", "store", "undo", "delete", "done" }
CallPcs    == { "idle", "publish", "ask", "wait", "send", "merge", "save", "use" }
BootPcs    == { "read", "apply", "record", "done", "failed" }

ReqRecords  == [ kind : Kinds \cup { "none" }, pc : RequestPcs, prev : Saved, next : Saved ]
CallRecords == [ pc : CallPcs, token : Nat, copy : Configs ]

TypeOK ==
  /\ stored \in Saved /\ runtime \in Configs /\ files \in [ admin : Nat, inst : Nat ]
  /\ issued \in Nat /\ accepted \subseteq 1..issued /\ fresh \subseteq 1..issued
  /\ req \in [Requests -> ReqRecords]
  /\ call \in [Callers -> CallRecords]
  /\ lock \in SUBSET Callers
  /\ boot \in [ pc : BootPcs, copy : Saved ]
  /\ lapses \subseteq { "config", "token", "renewal" }
  /\ faults \in Nat /\ crashes \in Nat

(* A pass publishes the tokens of the configuration that runs.              *)
PassFollows ==
  boot.pc # "failed" /\ call[Pass].pc = "publish" => runtime.mode = "managed" /\ SameTopology(call[Pass].copy, runtime)

FollowInv == ConnectorsFollow /\ PassFollows

(* What the candidate of a request is.                                      *)
Candidate(r) ==
  InFlight(r) =>
    /\ req[r].kind # "none"
    /\ req[r].next.mode = "none" <=> req[r].kind = "disable"
    /\ req[r].kind \in { "admin", "publishing" } => req[r].next.rt = req[r].prev.rt
    /\ req[r].kind \in { "full", "existing", "disable" } => req[r].next.rt = 0
    /\ req[r].kind = "oauth" => req[r].prev.mode = "none" /\ req[r].pc \in { "apply", "store", "undo" }
    /\ req[r].pc = "delete" => req[r].kind = "disable"
    /\ req[r].pc \in { "store", "undo" } => req[r].kind # "disable"

(* Without a write from an outdated copy one request at a time is halfway,  *)
(* with its candidate running and the row as it read it.  (The requests, the *)
(* running and the stored configuration are parameters, so that the same     *)
(* words do for the state after a step.)                                    *)
HalfwayPcs == { "store", "undo", "delete" }

OneHalfway(rq, rt, st) ==
  /\ \A r, s \in Requests : rq[r].pc \in HalfwayPcs /\ rq[s].pc \in HalfwayPcs => r = s
  /\ \A r \in Requests : rq[r].pc \in { "store", "undo" } => SameTopology(rq[r].prev, st) /\ SameTopology(rt, rq[r].next)
  /\ \A r \in Requests : rq[r].pc = "delete" => rt.mode = "none"

BootPending(b) == b.pc \in { "read", "apply", "record" }

(* What runs is what is saved, but for what a failed deletion left and a row *)
(* the start has yet to apply.                                              *)
Settled(rt, st, b, n) ==
  \/ SameTopology(rt, st)
  \/ n = 1 /\ rt.mode = "none"
  \/ BootPending(b) /\ st.mode # "none"

(* A rollback is refused only where the start is about to apply the row.    *)
RollsBack(q, b) == q.prev.mode \in { "none", q.next.mode } \/ BootPending(b)

(* With one failure at most, nothing is left to repair but what is under way. *)
OneFault(rq, rt, st, b, n) ==
  /\ (\A r \in Requests : rq[r].pc \notin HalfwayPcs) => Settled(rt, st, b, n)
  /\ \A r \in Requests : rq[r].pc = "store" /\ n = 0 => RollsBack(rq[r], b)
  /\ \A r \in Requests : rq[r].pc = "undo" => n > 0 /\ RollsBack(rq[r], b)

SavedInv ==
  "config" \notin lapses =>
    /\ OneHalfway(req, runtime, stored)
    /\ faults <= 1 => OneFault(req, runtime, stored, boot, faults)

(* Nobody knows a token that was not issued.                                *)
Known ==
  /\ stored.rt <= issued /\ runtime.rt <= issued /\ boot.copy.rt <= issued
  /\ \A c \in Callers : call[c].copy.rt <= issued /\ call[c].token <= issued
  /\ \A r \in Requests : req[r].prev.rt <= issued /\ req[r].next.rt <= issued

(* Nobody has the token, of the requests none in S.                         *)
Unheld(t, S) ==
  /\ t # stored.rt /\ t # runtime.rt /\ t # boot.copy.rt
  /\ \A c \in Callers : t # call[c].copy.rt /\ t # call[c].token
  /\ \A s \in S : t # req[s].prev.rt /\ t # req[s].next.rt

SignIn(r, pc) == req[r].kind = "oauth" /\ req[r].pc = pc

(* One caller at a time exchanges, and the token it got is good until saved; *)
(* a request calls while it verifies.                                       *)
CallOK(c) ==
  /\ call[c].pc # "idle" => c = Pass \/ req[c].pc = "verify"
  /\ call[c].pc \in { "send", "merge", "save", "use" } => lock = { c }
  /\ call[c].pc \in { "merge", "save" } => call[c].token \in accepted
  /\ call[c].pc = "save" => call[c].copy.mode = "managed" /\ call[c].copy.rt = call[c].token

Merging == \E c \in Callers : call[c].pc = "merge"
Saving  == \E c \in Callers : call[c].pc = "save"

TokenInv ==
  /\ Known
  /\ \A c \in Callers : CallOK(c)
  /\ \A r \in Requests : SignIn(r, "apply") => req[r].next.rt \in accepted /\ Unheld(req[r].next.rt, Requests \ { r })
  /\ lapses = {} =>
       /\ stored.rt # 0 => stored.rt \in accepted \/ Merging \/ Saving
       /\ \A r \in Requests : SignIn(r, "store") => req[r].next.rt \in accepted \/ Merging

AccessInv == TypeOK /\ FollowInv /\ (\A r \in Requests : Candidate(r)) /\ SavedInv /\ TokenInv

-----------------------------------------------------------------------------
(* Configurations.                                                         *)

(* The sets of configurations, and what a field of one is.                  *)
LEMMA ConfigsTyped ==
  /\ NoConfig \in Saved /\ Saved \subseteq Configs
  /\ NoConfig.mode = "none" /\ NoConfig.rt = 0 /\ NoConfig.admin = 0 /\ NoConfig.inst = 0 /\ NoConfig.auto = FALSE
  /\ \A c \in Configs : c.rt \in Nat /\ c.admin \in Nat /\ c.inst \in Nat /\ c.mode \in Modes /\ c.auto \in BOOLEAN
  /\ \A c \in Configs : c.mode = "managed" => c \in Saved
  /\ \A c \in Saved : c.mode # "managed" => c.rt = 0
<1>1. NoConfig \in Records /\ NoConfig.mode = "none" /\ NoConfig.rt = 0 /\ NoConfig.admin = 0 /\ NoConfig.inst = 0 /\ NoConfig.auto = FALSE
  BY DEF NoConfig, Records, Modes
<1>2. [NoConfig EXCEPT !.rt = NoConfig.rt] = NoConfig
  BY DEF NoConfig
<1>3. NoConfig \in Configs /\ NoConfig \in Saved
  BY <1>1, <1>2 DEF Configs, Saved, SameTopology
<1>4. \A c \in Configs : c \in Records
  BY DEF Configs
<1>5. \A c \in Records : c.rt \in Nat /\ c.admin \in Nat /\ c.inst \in Nat /\ c.mode \in Modes /\ c.auto \in BOOLEAN
  BY DEF Records
<1> QED BY <1>1, <1>3, <1>4, <1>5 DEF Saved

(* Two configurations have the same topology when these four agree.         *)
LEMMA SameFields ==
  ASSUME NEW c \in Configs, NEW d \in Configs
  PROVE  SameTopology(c, d) <=> c.mode = d.mode /\ c.admin = d.admin /\ c.inst = d.inst /\ c.auto = d.auto
<1>1. c \in Records /\ d \in Records
  BY DEF Configs
<1> QED BY <1>1 DEF Records, SameTopology

(* The configuration that has another credential is one, and the same one   *)
(* otherwise.                                                               *)
LEMMA Renewed ==
  ASSUME NEW c \in Configs, NEW n \in Nat
  PROVE  /\ [c EXCEPT !.rt = n] \in Configs /\ [c EXCEPT !.rt = n].rt = n
         /\ [c EXCEPT !.rt = n].mode = c.mode /\ [c EXCEPT !.rt = n].admin = c.admin
         /\ [c EXCEPT !.rt = n].inst = c.inst /\ [c EXCEPT !.rt = n].auto = c.auto
<1> DEFINE d == [c EXCEPT !.rt = n]
<1>1. c \in Records /\ (c.mode = "none" => SameTopology(c, NoConfig))
  BY DEF Configs
<1>2. /\ d \in Records /\ d.rt = n /\ d.mode = c.mode /\ d.admin = c.admin
      /\ d.inst = c.inst /\ d.auto = c.auto
  BY <1>1 DEF Records
<1>3. [d EXCEPT !.rt = 0] = [c EXCEPT !.rt = 0]
  BY <1>1 DEF Records
<1>4. NoConfig.rt = 0
  BY ConfigsTyped
<1>5. c.mode = "none" => SameTopology(d, NoConfig)
  BY <1>1, <1>3, <1>4 DEF SameTopology
<1> QED BY <1>2, <1>5 DEF Configs

(* A configuration without a mode has nothing in it.                        *)
LEMMA Empty ==
  ASSUME NEW c \in Configs, c.mode = "none"
  PROVE  SameTopology(c, NoConfig)
  BY DEF Configs

-----------------------------------------------------------------------------
(* The requests that are accepted: which candidates there are.             *)

Accepted(r, kind, next, pc) ==
  /\ req[r].pc = "none" /\ kind \in Kinds
  /\ req' = [req EXCEPT ![r] = [ kind |-> kind, pc |-> pc, prev |-> stored, next |-> next ]]
  /\ UNCHANGED <<stored, runtime, files, call, lock, boot, lapses, faults, crashes>>
  /\ next.mode = "none" <=> kind = "disable"
  /\ kind \in { "admin", "publishing" } => next.rt = stored.rt
  /\ kind \in { "full", "existing", "disable" } => next.rt = 0
  /\ kind = "publishing" <=> pc = "verify"
  /\ kind # "oauth" => UNCHANGED cloud
  /\ kind = "oauth" => /\ stored.mode = "none" /\ next.rt = issued'
                       /\ issued' = issued + 1 /\ accepted' = accepted \cup { issued' } /\ fresh' = fresh \cup { issued' }

AnyRequest(r) ==
  \/ configureCloudflareAdminBoundary(r) \/ configureCloudflareInstancePublishing(r)
  \/ configureRemoteAccess(r) \/ completeCloudflareOAuthProvisioning(r) \/ disableRemoteAccess(r)

LEMMA RequestAccepted ==
  ASSUME TypeOK, NEW r \in Requests, AnyRequest(r)
  PROVE  \E kind \in Kinds, next \in Saved, pc \in { "apply", "verify" } : Accepted(r, kind, next, pc)
<1>1. stored \in Saved /\ stored \in Records /\ r \in Nat /\ issued \in Nat
  BY RemoteAccessBounds DEF TypeOK, Saved, Configs
<1>2. \A c \in Records : c.mode = "managed" => c \in Saved
  BY DEF Configs, Saved
<1>3. CASE configureCloudflareAdminBoundary(r)
  <2> DEFINE next == [stored EXCEPT !.mode = "managed", !.admin = r]
  <2>1. next \in Records /\ next.mode = "managed" /\ next.rt = stored.rt
    BY <1>1 DEF Records, Modes
  <2>2. next \in Saved /\ Accepts(r, "admin", next, "apply") /\ UNCHANGED cloud
    BY <1>2, <1>3, <2>1 DEF configureCloudflareAdminBoundary
  <2> HIDE DEF next
  <2>3. Accepted(r, "admin", next, "apply")
    BY <2>1, <2>2 DEF Accepts, Accepted
  <2> QED BY <2>2, <2>3 DEF Accepts
<1>4. CASE configureCloudflareInstancePublishing(r)
  <2> DEFINE next == [stored EXCEPT !.mode = "managed", !.inst = r, !.auto = TRUE]
  <2>1. next \in Records /\ next.mode = "managed" /\ next.rt = stored.rt
    BY <1>1 DEF Records, Modes
  <2>2. next \in Saved /\ Accepts(r, "publishing", next, "verify") /\ UNCHANGED cloud
    BY <1>2, <1>4, <2>1 DEF configureCloudflareInstancePublishing
  <2> HIDE DEF next
  <2>3. Accepted(r, "publishing", next, "verify")
    BY <2>1, <2>2 DEF Accepts, Accepted
  <2> QED BY <2>2, <2>3 DEF Accepts
<1>5. CASE configureRemoteAccess(r)
  <2> DEFINE full == [ mode |-> "managed", admin |-> r, inst |-> r, auto |-> stored.auto, rt |-> 0 ]
             existing == [NoConfig EXCEPT !.mode = "existing"]
  <2>1. full \in Records /\ full.mode = "managed" /\ full.rt = 0
    BY <1>1 DEF Records, Modes
  <2>2. existing \in Records /\ existing.mode = "existing" /\ existing.rt = 0
    BY DEF Records, Modes, NoConfig
  <2>3. full \in Saved /\ existing \in Saved
    BY <1>2, <2>1, <2>2 DEF Configs, Saved
  <2>4. UNCHANGED cloud /\ (Accepts(r, "full", full, "apply") \/ Accepts(r, "existing", existing, "apply"))
    BY <1>5 DEF configureRemoteAccess
  <2> HIDE DEF full, existing
  <2>5. CASE Accepts(r, "full", full, "apply")
    <3>1. Accepted(r, "full", full, "apply")
      BY <2>1, <2>4, <2>5 DEF Accepts, Accepted
    <3> QED BY <2>3, <2>5, <3>1 DEF Accepts
  <2>6. CASE Accepts(r, "existing", existing, "apply")
    <3>1. Accepted(r, "existing", existing, "apply")
      BY <2>2, <2>4, <2>6 DEF Accepts, Accepted
    <3> QED BY <2>3, <2>6, <3>1 DEF Accepts
  <2> QED BY <2>4, <2>5, <2>6
<1>6. CASE completeCloudflareOAuthProvisioning(r)
  <2> DEFINE next == [ mode |-> "managed", admin |-> r, inst |-> r, auto |-> TRUE, rt |-> issued + 1 ]
  <2>1. next \in Records /\ next.mode = "managed" /\ next.rt = issued + 1
    BY <1>1 DEF Records, Modes
  <2>2. /\ next \in Saved /\ stored.mode = "none" /\ issued' = issued + 1
        /\ accepted' = accepted \cup { issued' } /\ fresh' = fresh \cup { issued' }
        /\ Accepts(r, "oauth", next, "apply")
    BY <1>2, <1>6, <2>1 DEF completeCloudflareOAuthProvisioning
  <2> HIDE DEF next
  <2>3. Accepted(r, "oauth", next, "apply")
    BY <2>1, <2>2 DEF Accepts, Accepted
  <2> QED BY <2>2, <2>3 DEF Accepts
<1>7. CASE disableRemoteAccess(r)
  <2>1. Accepts(r, "disable", NoConfig, "apply") /\ UNCHANGED cloud
    BY <1>7 DEF disableRemoteAccess
  <2>2. Accepted(r, "disable", NoConfig, "apply") /\ NoConfig \in Saved
    BY <2>1, ConfigsTyped DEF Accepts, Accepted
  <2> QED BY <2>1, <2>2 DEF Accepts
<1> QED BY <1>3, <1>4, <1>5, <1>6, <1>7 DEF AnyRequest

-----------------------------------------------------------------------------
(* Requests and calls: what their operators do.                            *)

(* The pass is none of the requests.                                        *)
LEMMA PassIsNoRequest == Pass \notin Requests /\ Pass \in Callers /\ Callers = Requests \cup { Pass }
  BY RemoteAccessBounds DEF Pass, Callers

LEMMA GoesTo ==
  ASSUME TypeOK, NEW r \in Requests, NEW pc \in RequestPcs, Goes(r, pc)
  PROVE  /\ req' \in [Requests -> ReqRecords]
         /\ req'[r].pc = pc /\ req'[r].kind = req[r].kind /\ req'[r].prev = req[r].prev /\ req'[r].next = req[r].next
         /\ \A s \in Requests : s # r => req'[s] = req[s]
<1>1. req \in [Requests -> ReqRecords] /\ req' = [req EXCEPT ![r].pc = pc]
  BY DEF TypeOK, Goes
<1> QED BY <1>1 DEF ReqRecords

LEMMA EndsAt ==
  ASSUME TypeOK, NEW r \in Requests, Ended(r)
  PROVE  /\ req' \in [Requests -> ReqRecords]
         /\ req'[r].pc = "done" /\ req'[r].kind = req[r].kind /\ req'[r].prev = NoConfig /\ req'[r].next = NoConfig
         /\ \A s \in Requests : s # r => req'[s] = req[s]
<1>1. req \in [Requests -> ReqRecords] /\ req' = [req EXCEPT ![r] = Done(r)]
  BY DEF TypeOK, Ended
<1>2. /\ Done(r) \in ReqRecords /\ Done(r).pc = "done" /\ Done(r).kind = req[r].kind
      /\ Done(r).prev = NoConfig /\ Done(r).next = NoConfig
  <2>1. req[r].kind \in Kinds \cup { "none" }
    BY <1>1 DEF ReqRecords
  <2> QED BY <2>1, ConfigsTyped DEF Done, ReqRecords, RequestPcs
<1>3. req'[r] = Done(r) /\ \A s \in Requests : s # r => req'[s] = req[s]
  BY <1>1
<1>4. req' \in [Requests -> ReqRecords]
  BY <1>1, <1>2
<1> QED BY <1>2, <1>3, <1>4

LEMMA CallIs ==
  ASSUME TypeOK, NEW c \in Callers, NEW k \in CallRecords, call' = [call EXCEPT ![c] = k]
  PROVE  /\ call' \in [Callers -> CallRecords] /\ call'[c] = k
         /\ \A d \in Callers : d # c => call'[d] = call[d]
  BY DEF TypeOK

LEMMA CallTyped ==
  /\ NoCall \in CallRecords /\ NoCall.pc = "idle" /\ NoCall.token = 0 /\ NoCall.copy = NoConfig
  /\ TypeOK => \A c \in Callers : call[c] \in CallRecords /\ call[c].token \in Nat /\ call[c].copy \in Configs /\ call[c].pc \in CallPcs
  BY ConfigsTyped DEF NoCall, CallRecords, CallPcs, TypeOK

LEMMA CallGoes ==
  ASSUME TypeOK, NEW c \in Callers, NEW pc \in CallPcs, Proceeds(c, pc)
  PROVE  /\ call' \in [Callers -> CallRecords]
         /\ call'[c].pc = pc /\ call'[c].token = call[c].token /\ call'[c].copy = call[c].copy
         /\ \A d \in Callers : d # c => call'[d] = call[d]
<1>1. call \in [Callers -> CallRecords] /\ call' = [call EXCEPT ![c].pc = pc]
  BY DEF TypeOK, Proceeds
<1> QED BY <1>1 DEF CallRecords

(* A request that has its token, or got none.                               *)
Answered(s) ==
  /\ req'[s].kind = req[s].kind
  /\ \/ req'[s].pc = "verified" /\ req'[s].prev = req[s].prev /\ req'[s].next = req[s].next
     \/ req'[s].pc = "done" /\ req'[s].prev = NoConfig /\ req'[s].next = NoConfig

LEMMA Released ==
  ASSUME TypeOK, NEW c \in Callers, NEW ok \in BOOLEAN, Release(c, ok)
  PROVE  /\ lock' = {} /\ req' \in [Requests -> ReqRecords] /\ call' \in [Callers -> CallRecords]
         /\ call'[c] = NoCall /\ \A d \in Callers : d # c => call'[d] = call[d]
         /\ \A s \in Requests : IF s = c THEN Answered(s) ELSE req'[s] = req[s]
<1>1. call' = [call EXCEPT ![c] = NoCall] /\ lock' = {}
  BY DEF Release
<1>2. /\ call' \in [Callers -> CallRecords] /\ call'[c] = NoCall
      /\ \A d \in Callers : d # c => call'[d] = call[d]
  BY <1>1, CallTyped, CallIs
<1>3. CASE c = Pass
  <2>1. req' = req
    BY <1>3 DEF Release
  <2> QED BY <1>1, <1>2, <1>3, <2>1, PassIsNoRequest DEF TypeOK
<1>4. CASE c # Pass
  <2>1. c \in Requests /\ (Goes(c, "verified") \/ Ended(c))
    BY <1>4, PassIsNoRequest DEF Release
  <2>2. CASE Goes(c, "verified")
    <3>1. "verified" \in RequestPcs
      BY DEF RequestPcs
    <3>2. /\ req' \in [Requests -> ReqRecords]
          /\ req'[c].pc = "verified" /\ req'[c].kind = req[c].kind /\ req'[c].prev = req[c].prev /\ req'[c].next = req[c].next
          /\ \A s \in Requests : s # c => req'[s] = req[s]
      BY <2>1, <2>2, <3>1, GoesTo
    <3> QED BY <1>1, <1>2, <2>1, <3>2 DEF Answered
  <2>3. CASE Ended(c)
    <3>1. /\ req' \in [Requests -> ReqRecords]
          /\ req'[c].pc = "done" /\ req'[c].kind = req[c].kind /\ req'[c].prev = NoConfig /\ req'[c].next = NoConfig
          /\ \A s \in Requests : s # c => req'[s] = req[s]
      BY <2>1, <2>3, EndsAt
    <3> QED BY <1>1, <1>2, <2>1, <3>1 DEF Answered
  <2> QED BY <2>1, <2>2, <2>3
<1> QED BY <1>3, <1>4

-----------------------------------------------------------------------------
(* Types.                                                                  *)

(* What a candidate or a rollback makes of the runtime and the files.       *)
LEMMA ActivateTyped ==
  ASSUME TypeOK, NEW c \in Saved, Activate(c)
  PROVE  /\ runtime' \in Configs /\ files' \in [ admin : Nat, inst : Nat ] /\ SameTopology(runtime', c)
         /\ runtime'.mode = c.mode /\ runtime'.rt \in { c.rt, runtime.rt }
<1>1. c \in Configs /\ c.admin \in Nat /\ c.inst \in Nat /\ runtime.rt \in Nat /\ files.admin \in Nat /\ files.inst \in Nat
  BY ConfigsTyped DEF TypeOK
<1>2. CASE c.mode = "managed"
  <2>1. runtime' = c /\ files' = publishConnectorTokens(c)
    BY <1>2 DEF Activate
  <2>2. SameTopology(c, c)
    BY <1>1, SameFields
  <2> QED BY <1>1, <2>1, <2>2 DEF publishConnectorTokens
<1>3. CASE c.mode # "managed"
  <2>1. runtime' = [c EXCEPT !.rt = runtime.rt] /\ files' = files
    BY <1>3 DEF Activate
  <2>2. /\ runtime' \in Configs /\ runtime'.rt = runtime.rt /\ runtime'.mode = c.mode /\ runtime'.admin = c.admin
        /\ runtime'.inst = c.inst /\ runtime'.auto = c.auto
    BY <1>1, <2>1, Renewed
  <2> QED BY <1>1, <2>1, <2>2, SameFields DEF TypeOK
<1> QED BY <1>2, <1>3

LEMMA DisableTyped ==
  ASSUME TypeOK, Disable
  PROVE  /\ runtime' \in Configs /\ files' \in [ admin : Nat, inst : Nat ]
         /\ runtime'.mode = "none" /\ runtime'.rt \in { 0, runtime.rt }
<1>1. NoConfig \in Configs /\ runtime.rt \in Nat /\ NoConfig.mode = "none" /\ NoConfig.rt = 0
  BY ConfigsTyped DEF TypeOK
<1>2. CASE runtime.mode = "managed"
  <2>1. runtime' = NoConfig /\ files' = NoFiles
    BY <1>2 DEF Disable
  <2> QED BY <1>1, <2>1 DEF NoFiles
<1>3. CASE runtime.mode # "managed"
  <2>1. runtime' = [NoConfig EXCEPT !.rt = runtime.rt] /\ files' = files
    BY <1>3 DEF Disable
  <2> QED BY <1>1, <2>1, Renewed DEF TypeOK
<1> QED BY <1>2, <1>3

LEMMA DisableFailsTyped ==
  ASSUME TypeOK, DisableFails
  PROVE  /\ runtime' = runtime /\ files' \in [ admin : Nat, inst : Nat ] /\ runtime.mode = "managed"
         /\ faults' = faults + 1
<1>1. PICK kept \in SUBSET { "admin", "inst" } :
        files' = [f \in { "admin", "inst" } |-> IF f \in kept THEN files[f] ELSE 0]
  BY DEF DisableFails
<1>2. files'= [ admin |-> IF "admin" \in kept THEN files["admin"] ELSE 0, inst |-> IF "inst" \in kept THEN files["inst"] ELSE 0 ]
  BY <1>1
<1> QED BY <1>2 DEF DisableFails, Fault, TypeOK

(* What fails counts.                                                       *)
LEMMA FaultTyped == TypeOK /\ (UNCHANGED faults \/ Fault) => faults' \in Nat /\ (faults' = faults \/ faults' = faults + 1)
  BY DEF TypeOK, Fault

LEMMA LapseTyped ==
  ASSUME TypeOK, NEW what \in { "config", "token", "renewal" }, NEW met \in BOOLEAN, Lapse(what, met)
  PROVE  /\ lapses' \subseteq { "config", "token", "renewal" } /\ lapses \subseteq lapses'
         /\ what \notin lapses' => ~met
  BY DEF TypeOK, Lapse

LEMMA IssuedTyped ==
  ASSUME TypeOK, issued' = issued + 1, accepted' \subseteq accepted \cup { issued' }, fresh' \subseteq fresh \cup { issued' }
  PROVE  issued' \in Nat /\ accepted' \subseteq 1..issued' /\ fresh' \subseteq 1..issued'
<1>1. issued \in Nat /\ \A t \in accepted \cup fresh : t \in 1..issued
  BY DEF TypeOK
<1>2. issued' \in Nat /\ issued' \in 1..issued' /\ 1..issued \subseteq 1..issued'
  BY <1>1
<1> QED BY <1>1, <1>2

LEMMA TypeOfRequests ==
  ASSUME TypeOK, NEW r \in Requests,
         \/ AnyRequest(r) \/ VerifyInstancePublishing(r) \/ Configure(r) \/ PutRemoteAccessConfig(r) \/ RollBack(r)
         \/ DisableRuntime(r) \/ DeleteRemoteAccessConfig(r)
  PROVE  TypeOK'
<1>1. req[r] \in ReqRecords /\ req[r].prev \in Saved /\ req[r].next \in Saved /\ NoConfig \in Saved
  BY ConfigsTyped DEF TypeOK, ReqRecords
<1>2. /\ "apply" \in RequestPcs /\ "store" \in RequestPcs /\ "undo" \in RequestPcs /\ "delete" \in RequestPcs
      /\ "verify" \in RequestPcs
  BY DEF RequestPcs
<1>3. CASE AnyRequest(r)
  <2>1. PICK kind \in Kinds, next \in Saved, pc \in { "apply", "verify" } : Accepted(r, kind, next, pc)
    BY <1>3, RequestAccepted
  <2>2. /\ req' = [req EXCEPT ![r] = [ kind |-> kind, pc |-> pc, prev |-> stored, next |-> next ]]
        /\ UNCHANGED <<stored, runtime, files, call, lock, boot, lapses, faults, crashes>>
        /\ \/ UNCHANGED cloud
           \/ issued' = issued + 1 /\ accepted' = accepted \cup { issued' } /\ fresh' = fresh \cup { issued' }
    BY <2>1 DEF Accepted
  <2>3. [ kind |-> kind, pc |-> pc, prev |-> stored, next |-> next ] \in ReqRecords
    BY <1>2 DEF ReqRecords, TypeOK
  <2>4. req' \in [Requests -> ReqRecords]
    BY <2>2, <2>3 DEF TypeOK
  <2>5. issued' \in Nat /\ accepted' \subseteq 1..issued' /\ fresh' \subseteq 1..issued'
    <3>1. CASE UNCHANGED cloud
      BY <3>1 DEF TypeOK, cloud
    <3>2. CASE issued' = issued + 1 /\ accepted' = accepted \cup { issued' } /\ fresh' = fresh \cup { issued' }
      BY <3>2, IssuedTyped
    <3> QED BY <2>2, <3>1, <3>2
  <2> QED BY <2>2, <2>4, <2>5 DEF TypeOK
<1>4. CASE VerifyInstancePublishing(r)
  <2>1. /\ Goes(r, "apply") \/ Ended(r)
        /\ UNCHANGED faults \/ Fault
        /\ UNCHANGED <<stored, runtime, files, cloud, call, lock, boot, lapses, crashes>>
    BY <1>4 DEF VerifyInstancePublishing
  <2>2. req' \in [Requests -> ReqRecords]
    BY <2>1, <1>2, GoesTo, EndsAt
  <2> QED BY <2>1, <2>2, FaultTyped DEF TypeOK, cloud
<1>5. CASE Configure(r)
  <2>1. /\ Goes(r, "store") \/ Ended(r)
        /\ UNCHANGED faults \/ Fault
        /\ UNCHANGED <<stored, cloud, call, lock, boot, crashes>>
        /\ (Activate(req[r].next) /\ Lapse("config", Outrun(r, req[r].prev))) \/ UNCHANGED <<runtime, files, lapses>>
    BY <1>5 DEF Configure
  <2>2. req' \in [Requests -> ReqRecords]
    BY <2>1, <1>2, GoesTo, EndsAt
  <2>3. runtime' \in Configs /\ files' \in [ admin : Nat, inst : Nat ]
    BY <2>1, <1>1, ActivateTyped DEF TypeOK
  <2>4. lapses' \subseteq { "config", "token", "renewal" }
    BY <2>1 DEF TypeOK, Lapse
  <2> QED BY <2>1, <2>2, <2>3, <2>4, FaultTyped DEF TypeOK, cloud
<1>6. CASE PutRemoteAccessConfig(r)
  <2>1. /\ Ended(r) \/ Goes(r, "undo")
        /\ UNCHANGED faults \/ Fault
        /\ UNCHANGED <<runtime, files, cloud, call, lock, boot, crashes>>
        /\ stored' = req[r].next \/ stored' = stored
        /\ Lapse("token", req[r].prev.rt # stored.rt) \/ UNCHANGED lapses
    BY <1>6 DEF PutRemoteAccessConfig
  <2>2. req' \in [Requests -> ReqRecords]
    BY <2>1, <1>2, GoesTo, EndsAt
  <2>3. lapses' \subseteq { "config", "token", "renewal" }
    BY <2>1 DEF TypeOK, Lapse
  <2> QED BY <2>1, <2>2, <2>3, <1>1, FaultTyped DEF TypeOK, cloud
<1>7. CASE RollBack(r)
  <2>1. /\ Ended(r) /\ (UNCHANGED faults \/ Fault)
        /\ UNCHANGED <<stored, cloud, call, lock, boot, lapses, crashes>>
        /\ Disable \/ Activate(req[r].prev) \/ DisableFails \/ UNCHANGED <<runtime, files>>
    BY <1>7 DEF RollBack, DisableFails
  <2>2. req' \in [Requests -> ReqRecords]
    BY <2>1, EndsAt
  <2>3. runtime' \in Configs /\ files' \in [ admin : Nat, inst : Nat ]
    BY <2>1, <1>1, ActivateTyped, DisableTyped, DisableFailsTyped DEF TypeOK
  <2> QED BY <2>1, <2>2, <2>3, FaultTyped DEF TypeOK, cloud
<1>8. CASE DisableRuntime(r)
  <2>1. /\ Ended(r) \/ Goes(r, "delete")
        /\ UNCHANGED faults \/ Fault
        /\ UNCHANGED <<stored, cloud, call, lock, boot, crashes>>
        /\ Disable \/ DisableFails
        /\ Lapse("config", \E s \in Requests : Halfway(s)) \/ UNCHANGED lapses
    BY <1>8 DEF DisableRuntime, DisableFails
  <2>2. req' \in [Requests -> ReqRecords]
    BY <2>1, <1>2, GoesTo, EndsAt
  <2>3. runtime' \in Configs /\ files' \in [ admin : Nat, inst : Nat ]
    BY <2>1, DisableTyped, DisableFailsTyped DEF TypeOK
  <2>4. lapses' \subseteq { "config", "token", "renewal" }
    BY <2>1 DEF TypeOK, Lapse
  <2> QED BY <2>1, <2>2, <2>3, <2>4, FaultTyped DEF TypeOK, cloud
<1>9. CASE DeleteRemoteAccessConfig(r)
  <2>1. /\ Ended(r) /\ (UNCHANGED faults \/ Fault)
        /\ UNCHANGED <<runtime, files, cloud, call, lock, boot, lapses, crashes>>
        /\ stored' = NoConfig \/ stored' = stored
    BY <1>9 DEF DeleteRemoteAccessConfig
  <2>2. req' \in [Requests -> ReqRecords]
    BY <2>1, EndsAt
  <2> QED BY <2>1, <2>2, <1>1, FaultTyped DEF TypeOK, cloud
<1> QED BY <1>3, <1>4, <1>5, <1>6, <1>7, <1>8, <1>9

AnyCall(c) ==
  \/ apiWithConfig(c) \/ RefreshAgain(c) \/ oauthAccessToken(c) \/ ReadForRotation(c)
  \/ PersistCloudflareRuntimeConfig(c) \/ UseRotatedToken(c)

LEMMA TypeOfCalls ==
  ASSUME TypeOK, NEW c \in Callers, CallOK(c), AnyCall(c)
  PROVE  TypeOK'
<1>1. /\ call[c] \in CallRecords /\ call[c].token \in Nat /\ call[c].copy \in Configs /\ NoCall \in CallRecords
      /\ stored \in Configs /\ runtime \in Configs
  BY CallTyped, ConfigsTyped DEF TypeOK
<1>2. "use" \in CallPcs /\ "merge" \in CallPcs /\ "save" \in CallPcs /\ "send" \in CallPcs /\ "wait" \in CallPcs
  BY DEF CallPcs
<1>3. TRUE \in BOOLEAN /\ FALSE \in BOOLEAN
  OBVIOUS
<1>4. CASE apiWithConfig(c)
  <2>1. /\ call' = [call EXCEPT ![c] = [pc |-> "wait", token |-> 0, copy |-> CallConfig(c)]]
        /\ UNCHANGED <<stored, runtime, files, cloud, req, lock, boot, lapses, faults, crashes>>
    BY <1>4 DEF apiWithConfig
  <2>2. CallConfig(c) \in Configs
    BY <1>1, ConfigsTyped, PassIsNoRequest DEF CallConfig, TypeOK, ReqRecords
  <2>3. [pc |-> "wait", token |-> 0, copy |-> CallConfig(c)] \in CallRecords
    BY <1>2, <2>2 DEF CallRecords
  <2>4. call' \in [Callers -> CallRecords]
    BY <2>1, <2>3 DEF TypeOK
  <2> QED BY <2>1, <2>4 DEF TypeOK, cloud
<1>5. CASE RefreshAgain(c)
  <2>1. UNCHANGED <<stored, runtime, files, cloud, boot, lapses, faults, crashes>>
    BY <1>5 DEF RefreshAgain
  <2>2. lock' \in SUBSET Callers /\ req' \in [Requests -> ReqRecords] /\ call' \in [Callers -> CallRecords]
    <3>1. CASE Release(c, TRUE)
      BY <1>3, <3>1, Released
    <3>2. CASE ~Release(c, TRUE)
      <4>1. lock' = { c } /\ call' = [call EXCEPT ![c].pc = "send", ![c].token = CurrentToken(c)] /\ req' = req
        BY <1>5, <3>2 DEF RefreshAgain
      <4>2. CurrentToken(c) \in Nat
        BY <1>1, ConfigsTyped DEF CurrentToken
      <4>3. call' \in [Callers -> CallRecords]
        BY <1>1, <1>2, <4>1, <4>2 DEF CallRecords, TypeOK
      <4> QED BY <4>1, <4>3 DEF TypeOK
    <3> QED BY <3>1, <3>2
  <2> QED BY <2>1, <2>2 DEF TypeOK, cloud
<1>6. CASE oauthAccessToken(c)
  <2>1. UNCHANGED <<stored, runtime, files, boot, crashes>> /\ (UNCHANGED faults \/ Fault)
    BY <1>6 DEF oauthAccessToken
  <2>2. /\ issued' \in Nat /\ accepted' \subseteq 1..issued' /\ fresh' \subseteq 1..issued'
        /\ lapses' \subseteq { "config", "token", "renewal" }
    <3>1. \/ UNCHANGED <<cloud, lapses>>
          \/ /\ issued' = issued + 1 /\ accepted' \subseteq accepted \cup { issued' } /\ fresh' \subseteq fresh \cup { issued' }
             /\ lapses' \subseteq lapses \cup { "renewal" }
      BY <1>6 DEF oauthAccessToken, Lapse
    <3>2. CASE UNCHANGED <<cloud, lapses>>
      BY <3>2 DEF TypeOK, cloud
    <3>3. CASE ~UNCHANGED <<cloud, lapses>>
      BY <3>1, <3>3, IssuedTyped DEF TypeOK
    <3> QED BY <3>2, <3>3
  <2>3. lock' \in SUBSET Callers /\ req' \in [Requests -> ReqRecords] /\ call' \in [Callers -> CallRecords]
    <3>1. CASE Release(c, FALSE)
      BY <1>3, <3>1, Released
    <3>2. CASE ~Release(c, FALSE)
      <4>1. lock' = lock /\ req' = req /\ call' = [call EXCEPT ![c].pc = "merge", ![c].token = issued']
        BY <1>6, <3>2 DEF oauthAccessToken
      <4>2. call' \in [Callers -> CallRecords]
        BY <1>1, <1>2, <2>2, <4>1 DEF CallRecords, TypeOK
      <4> QED BY <4>1, <4>2 DEF TypeOK
    <3> QED BY <3>1, <3>2
  <2> QED BY <2>1, <2>2, <2>3, FaultTyped DEF TypeOK
<1>7. CASE ReadForRotation(c)
  <2>1. /\ UNCHANGED <<stored, runtime, files, cloud, boot, faults, crashes>>
        /\ lapses' \subseteq lapses \cup { "renewal" }
    BY <1>7 DEF ReadForRotation, Lapse
  <2>2. lock' \in SUBSET Callers /\ req' \in [Requests -> ReqRecords] /\ call' \in [Callers -> CallRecords]
    <3>1. CASE Release(c, FALSE)
      BY <1>3, <3>1, Released
    <3>2. CASE ~Release(c, FALSE)
      <4>1. lock' = lock /\ req' = req /\ call' = [call EXCEPT ![c].pc = "save", ![c].copy = [stored EXCEPT !.rt = call[c].token]]
        BY <1>7, <3>2 DEF ReadForRotation
      <4>2. [stored EXCEPT !.rt = call[c].token] \in Configs
        BY <1>1, Renewed
      <4>3. call' \in [Callers -> CallRecords]
        BY <1>1, <1>2, <4>1, <4>2 DEF CallRecords, TypeOK
      <4> QED BY <4>1, <4>3 DEF TypeOK
    <3> QED BY <3>1, <3>2
  <2> QED BY <2>1, <2>2 DEF TypeOK, cloud
<1>8. CASE PersistCloudflareRuntimeConfig(c)
  <2>1. /\ UNCHANGED <<runtime, files, cloud, boot, crashes>> /\ (UNCHANGED faults \/ Fault)
        /\ lapses' \subseteq lapses \cup { "renewal", "config" } /\ stored' \in { stored, call[c].copy } /\ call[c].pc = "save"
        /\ Release(c, FALSE) \/ (Proceeds(c, "use") /\ UNCHANGED <<lock, req>>)
    BY <1>8 DEF PersistCloudflareRuntimeConfig, Lapse
  <2>2. lock' \in SUBSET Callers /\ req' \in [Requests -> ReqRecords] /\ call' \in [Callers -> CallRecords]
    <3>1. CASE Release(c, FALSE)
      BY <1>3, <3>1, Released
    <3>2. CASE Proceeds(c, "use") /\ UNCHANGED <<lock, req>>
      BY <1>2, <3>2, CallGoes DEF TypeOK
    <3> QED BY <2>1, <3>1, <3>2
  <2>3. stored' \in Saved
    BY <2>1, <1>1, ConfigsTyped DEF CallOK, TypeOK
  <2>4. lapses' \subseteq { "config", "token", "renewal" }
    BY <2>1 DEF TypeOK
  <2> QED BY <2>1, <2>2, <2>3, <2>4, FaultTyped DEF TypeOK, cloud
<1>9. CASE UseRotatedToken(c)
  <2>1. /\ UNCHANGED <<stored, files, cloud, boot, lapses, faults, crashes>> /\ Release(c, TRUE)
        /\ runtime' = [runtime EXCEPT !.rt = call[c].token]
    BY <1>9 DEF UseRotatedToken
  <2>2. lock' \in SUBSET Callers /\ req' \in [Requests -> ReqRecords] /\ call' \in [Callers -> CallRecords]
    BY <1>3, <2>1, Released
  <2>3. runtime' \in Configs
    BY <1>1, <2>1, Renewed
  <2> QED BY <2>1, <2>2, <2>3 DEF TypeOK, cloud
<1> QED BY <1>4, <1>5, <1>6, <1>7, <1>8, <1>9 DEF AnyCall

AnyOther ==
  \/ Expire \/ Crash \/ ReadConfiguration \/ RestoreConfiguration \/ RecordConfigurationFailure
  \/ Reconcile \/ ReconcileTokens \/ ReconcileRoutes

LEMMA TypeOfOthers ==
  ASSUME TypeOK, AnyOther
  PROVE  TypeOK'
<1>1. stored \in Configs /\ NoConfig \in Configs /\ NoCall \in CallRecords /\ boot.copy \in Saved /\ boot \in [ pc : BootPcs, copy : Saved ]
  BY CallTyped, ConfigsTyped DEF TypeOK
<1>2. CASE Expire
  <2>1. fresh' \subseteq fresh /\ UNCHANGED <<stored, runtime, files, issued, accepted, req, call, lock, boot, lapses, faults, crashes>>
    BY <1>2 DEF Expire
  <2> QED BY <2>1 DEF TypeOK
<1>3. CASE Crash
  <2>1. /\ crashes' = crashes + 1 /\ runtime' = NoConfig /\ lock' = {} /\ boot' = [pc |-> "read", copy |-> NoConfig]
        /\ req' = [r \in Requests |-> IF InFlight(r) THEN Done(r) ELSE req[r]] /\ call' = [c \in Callers |-> NoCall]
        /\ lapses' \subseteq lapses \cup { "renewal" } /\ UNCHANGED <<stored, files, cloud, faults>>
    BY <1>3 DEF Crash, Lapse
  <2>2. \A r \in Requests : Done(r) \in ReqRecords /\ req[r] \in ReqRecords
    BY ConfigsTyped DEF Done, ReqRecords, RequestPcs, TypeOK
  <2>3. req' \in [Requests -> ReqRecords]
    BY <2>1, <2>2
  <2>4. call' \in [Callers -> CallRecords]
    BY <1>1, <2>1
  <2>5. boot' \in [ pc : BootPcs, copy : Saved ]
    BY <2>1, ConfigsTyped DEF BootPcs
  <2> QED BY <1>1, <2>1, <2>3, <2>4, <2>5 DEF TypeOK, cloud
<1>4. CASE ReadConfiguration
  <2>1. /\ boot' = [boot EXCEPT !.pc = "done"] \/ boot' = [pc |-> "apply", copy |-> stored]
        /\ UNCHANGED <<stored, runtime, files, cloud, req, call, lock, lapses, faults, crashes>>
    BY <1>4 DEF ReadConfiguration
  <2>2. boot' \in [ pc : BootPcs, copy : Saved ]
    BY <1>1, <2>1 DEF BootPcs, TypeOK
  <2> QED BY <2>1, <2>2 DEF TypeOK, cloud
<1>5. CASE RestoreConfiguration
  <2>1. /\ BootGoes("done") \/ BootGoes("record")
        /\ UNCHANGED faults \/ Fault
        /\ UNCHANGED <<stored, cloud, req, call, lock, crashes>>
        /\ lapses' \subseteq lapses \cup { "config" }
        /\ Activate(boot.copy) \/ UNCHANGED <<runtime, files>>
    BY <1>5 DEF RestoreConfiguration, Lapse
  <2>2. boot' \in [ pc : BootPcs, copy : Saved ]
    BY <1>1, <2>1 DEF BootPcs, BootGoes
  <2>3. runtime' \in Configs /\ files' \in [ admin : Nat, inst : Nat ]
    BY <1>1, <2>1, ActivateTyped DEF TypeOK
  <2> QED BY <2>1, <2>2, <2>3, FaultTyped DEF TypeOK, cloud
<1>6. CASE RecordConfigurationFailure
  <2>1. /\ BootGoes("failed") /\ UNCHANGED <<stored, files, cloud, req, call, lock, faults, crashes>>
        /\ runtime' = boot.copy \/ runtime' = [boot.copy EXCEPT !.rt = runtime.rt]
        /\ lapses' \subseteq lapses \cup { "config" }
    BY <1>6 DEF RecordConfigurationFailure, Lapse
  <2>2. boot' \in [ pc : BootPcs, copy : Saved ]
    BY <1>1, <2>1 DEF BootPcs, BootGoes
  <2>3. runtime' \in Configs
    BY <1>1, <2>1, ConfigsTyped, Renewed DEF TypeOK
  <2> QED BY <2>1, <2>2, <2>3 DEF TypeOK, cloud
<1>7. CASE Reconcile
  <2>1. /\ call' = [call EXCEPT ![Pass] = [NoCall EXCEPT !.pc = "publish", !.copy = runtime]]
        /\ UNCHANGED <<stored, runtime, files, cloud, req, lock, boot, lapses, faults, crashes>>
    BY <1>7 DEF Reconcile
  <2>2. [NoCall EXCEPT !.pc = "publish", !.copy = runtime] \in CallRecords
    BY DEF NoCall, CallRecords, CallPcs, TypeOK
  <2>3. call' \in [Callers -> CallRecords]
    BY <2>1, <2>2 DEF TypeOK
  <2> QED BY <2>1, <2>3 DEF TypeOK, cloud
<1>8. CASE ReconcileTokens
  <2>1. /\ Proceeds(Pass, "ask") \/ Proceeds(Pass, "idle")
        /\ UNCHANGED faults \/ Fault
        /\ files' = publishConnectorTokens(call[Pass].copy) \/ files' = files
        /\ UNCHANGED <<stored, runtime, cloud, req, lock, boot, lapses, crashes>>
    BY <1>8 DEF ReconcileTokens
  <2>2. call' \in [Callers -> CallRecords]
    BY <2>1, CallGoes, PassIsNoRequest DEF CallPcs
  <2>3. call[Pass].copy.admin \in Nat /\ call[Pass].copy.inst \in Nat /\ files.admin \in Nat /\ files.inst \in Nat
    BY CallTyped, ConfigsTyped, PassIsNoRequest DEF TypeOK
  <2>4. files' \in [ admin : Nat, inst : Nat ]
    BY <2>1, <2>3 DEF publishConnectorTokens, TypeOK
  <2> QED BY <2>1, <2>2, <2>4, FaultTyped DEF TypeOK, cloud
<1>9. CASE ReconcileRoutes
  <2>1. Proceeds(Pass, "idle") /\ UNCHANGED <<stored, runtime, files, cloud, req, lock, boot, lapses, faults, crashes>>
    BY <1>9 DEF ReconcileRoutes
  <2>2. call' \in [Callers -> CallRecords]
    BY <2>1, CallGoes, PassIsNoRequest DEF CallPcs
  <2> QED BY <2>1, <2>2 DEF TypeOK, cloud
<1> QED BY <1>2, <1>3, <1>4, <1>5, <1>6, <1>7, <1>8, <1>9 DEF AnyOther

-----------------------------------------------------------------------------
(* The candidates of requests.                                             *)

AnyStep(r) ==
  \/ VerifyInstancePublishing(r) \/ Configure(r) \/ PutRemoteAccessConfig(r) \/ RollBack(r)
  \/ DisableRuntime(r) \/ DeleteRemoteAccessConfig(r)

(* A candidate is a matter of the request alone.                            *)
LEMMA CandidateStays ==
  ASSUME NEW r \in Requests, Candidate(r), req'[r] = req[r]
  PROVE  Candidate(r)'
  BY DEF Candidate, InFlight

LEMMA CandidateEnds ==
  ASSUME NEW r \in Requests, req'[r].pc = "done"
  PROVE  Candidate(r)'
  BY DEF Candidate, InFlight

LEMMA CandidatesOfRequests ==
  ASSUME TypeOK, \A s \in Requests : Candidate(s), NEW r \in Requests, AnyRequest(r) \/ AnyStep(r)
  PROVE  \A s \in Requests : Candidate(s)'
<1>1. CASE AnyRequest(r)
  <2>1. PICK kind \in Kinds, next \in Saved, pc \in { "apply", "verify" } : Accepted(r, kind, next, pc)
    BY <1>1, RequestAccepted
  <2>2. req' = [req EXCEPT ![r] = [ kind |-> kind, pc |-> pc, prev |-> stored, next |-> next ]]
    BY <2>1 DEF Accepted
  <2>3. /\ req'[r].kind = kind /\ req'[r].pc = pc /\ req'[r].prev = stored /\ req'[r].next = next
        /\ \A s \in Requests : s # r => req'[s] = req[s]
    BY <2>2 DEF TypeOK
  <2>4. Candidate(r)'
    BY <2>1, <2>3, RemoteAccessBounds DEF Accepted, Candidate
  <2> QED BY <2>3, <2>4, CandidateStays
<1>2. CASE Ended(r)
  BY <1>2, EndsAt, CandidateStays, CandidateEnds
<1>3. ASSUME NEW pc \in { "apply", "store", "undo", "delete" }, Goes(r, pc), req[r].pc \notin { "none", "done" },
             pc = "delete" => req[r].kind = "disable", pc \in { "store", "undo" } => req[r].kind # "disable"
      PROVE  \A s \in Requests : Candidate(s)'
  <2>1. /\ req'[r].pc = pc /\ req'[r].kind = req[r].kind /\ req'[r].prev = req[r].prev /\ req'[r].next = req[r].next
        /\ \A s \in Requests : s # r => req'[s] = req[s]
    BY <1>3, GoesTo DEF RequestPcs
  <2>2. Candidate(r)'
    <3>1. Candidate(r)
      OBVIOUS
    <3>2. req[r].kind = "oauth" => pc # "delete"
      BY <1>3
    <3> QED BY <1>3, <2>1, <3>1, <3>2 DEF Candidate, InFlight
  <2> QED BY <2>1, <2>2, CandidateStays
<1>4. CASE AnyStep(r) /\ ~Ended(r)
  <2>1. CASE VerifyInstancePublishing(r)
    <3>1. Goes(r, "apply") /\ req[r].pc \in { "verify", "verified" }
      BY <1>4, <2>1 DEF VerifyInstancePublishing
    <3> QED BY <3>1, <1>3
  <2>2. CASE Configure(r)
    <3>1. Goes(r, "store") /\ req[r].pc = "apply" /\ req[r].kind # "disable"
      BY <1>4, <2>2 DEF Configure
    <3> QED BY <3>1, <1>3
  <2>3. CASE PutRemoteAccessConfig(r)
    <3>1. Goes(r, "undo") /\ req[r].pc = "store"
      BY <1>4, <2>3 DEF PutRemoteAccessConfig
    <3>2. req[r].kind # "disable"
      BY <3>1 DEF Candidate, InFlight
    <3> QED BY <3>1, <3>2, <1>3
  <2>4. CASE DisableRuntime(r)
    <3>1. Goes(r, "delete") /\ req[r].pc = "apply" /\ req[r].kind = "disable"
      BY <1>4, <2>4 DEF DisableRuntime
    <3> QED BY <3>1, <1>3
  <2>5. ~RollBack(r) /\ ~DeleteRemoteAccessConfig(r)
    BY <1>4 DEF RollBack, DeleteRemoteAccessConfig
  <2> QED BY <1>4, <2>1, <2>2, <2>3, <2>4, <2>5 DEF AnyStep
<1> QED BY <1>1, <1>2, <1>4

(* What a call does to the requests: nothing, or it answers its own.        *)
LEMMA CallAnswers ==
  ASSUME TypeOK, NEW c \in Callers, CallOK(c), AnyCall(c)
  PROVE  \A s \in Requests : req'[s] = req[s] \/ (s = c /\ Answered(s) /\ req[s].pc = "verify" /\ call'[c] = NoCall)
<1>1. CASE UNCHANGED req
  BY <1>1
<1>2. ASSUME NEW ok \in BOOLEAN, Release(c, ok), call[c].pc # "idle"
      PROVE  \A s \in Requests : req'[s] = req[s] \/ (s = c /\ Answered(s) /\ req[s].pc = "verify" /\ call'[c] = NoCall)
  BY <1>2, Released, PassIsNoRequest DEF CallOK
<1>3. UNCHANGED req \/ ((Release(c, TRUE) \/ Release(c, FALSE)) /\ call[c].pc # "idle")
  <2>1. CASE apiWithConfig(c)
    BY <2>1 DEF apiWithConfig
  <2>2. CASE RefreshAgain(c)
    BY <2>2 DEF RefreshAgain
  <2>3. CASE oauthAccessToken(c)
    BY <2>3 DEF oauthAccessToken
  <2>4. CASE ReadForRotation(c)
    BY <2>4 DEF ReadForRotation
  <2>5. CASE PersistCloudflareRuntimeConfig(c)
    BY <2>5 DEF PersistCloudflareRuntimeConfig
  <2>6. CASE UseRotatedToken(c)
    BY <2>6 DEF UseRotatedToken
  <2> QED BY <2>1, <2>2, <2>3, <2>4, <2>5, <2>6 DEF AnyCall
<1> QED BY <1>1, <1>2, <1>3

LEMMA CandidatesOfCalls ==
  ASSUME TypeOK, \A s \in Requests : Candidate(s), NEW c \in Callers, CallOK(c), AnyCall(c)
  PROVE  \A s \in Requests : Candidate(s)'
<1> TAKE s \in Requests
<1>1. CASE req'[s] = req[s]
  BY <1>1, CandidateStays
<1>2. CASE Answered(s) /\ req[s].pc = "verify"
  BY <1>2 DEF Answered, Candidate, InFlight
<1> QED BY <1>1, <1>2, CallAnswers

(* The other steps leave the requests alone, or end those in flight.        *)
LEMMA OthersAnswer ==
  ASSUME AnyOther
  PROVE  \/ UNCHANGED req
         \/ Crash /\ \A s \in Requests : req'[s] = IF InFlight(s) THEN Done(s) ELSE req[s]
  BY DEF AnyOther, Expire, Crash, ReadConfiguration, RestoreConfiguration, RecordConfigurationFailure,
         Reconcile, ReconcileTokens, ReconcileRoutes

LEMMA CandidatesOfOthers ==
  ASSUME \A s \in Requests : Candidate(s), AnyOther
  PROVE  \A s \in Requests : Candidate(s)'
<1>1. \A s \in Requests : Done(s).pc = "done"
  BY DEF Done
<1>2. \A s \in Requests : req'[s] = req[s] \/ req'[s].pc = "done"
  BY <1>1, OthersAnswer
<1> QED BY <1>2, CandidateStays, CandidateEnds

-----------------------------------------------------------------------------
(* The token files.                                                        *)

LEMMA FollowStays ==
  ASSUME FollowInv, TypeOK, UNCHANGED <<boot, files, crashes>>, faults' = faults \/ faults' = faults + 1,
         runtime' = runtime \/ (SameTopology(runtime', runtime) /\ runtime' \in Configs)
  PROVE  ConnectorsFollow'
<1>1. runtime'.mode = runtime.mode /\ runtime'["admin"] = runtime["admin"] /\ runtime'["inst"] = runtime["inst"]
  BY SameFields DEF TypeOK
<1>2. faults' = 0 => faults = 0
  BY DEF TypeOK
<1> QED BY <1>1, <1>2 DEF FollowInv, ConnectorsFollow

LEMMA ActivateFollows ==
  ASSUME FollowInv, TypeOK, NEW c \in Saved, Activate(c), ModeAllowed(c), boot.pc # "failed", UNCHANGED <<faults, crashes>>
  PROVE  ConnectorsFollow'
<1>1. CASE c.mode = "managed"
  <2>1. runtime' = c /\ files' = publishConnectorTokens(c)
    BY <1>1 DEF Activate
  <2>2. (c["admin"] # 0 => files'["admin"] = c["admin"]) /\ (c["inst"] # 0 => files'["inst"] = c["inst"])
    BY <2>1 DEF publishConnectorTokens
  <2> QED BY <1>1, <2>1, <2>2 DEF ConnectorsFollow
<1>2. CASE c.mode # "managed"
  <2>1. runtime'.mode = c.mode
    BY ActivateTyped
  <2>2. files' = files /\ runtime.mode # "managed"
    BY <1>2 DEF Activate, ModeAllowed
  <2> QED BY <1>2, <2>1, <2>2 DEF FollowInv, ConnectorsFollow
<1> QED BY <1>1, <1>2

LEMMA DisableFollows ==
  ASSUME FollowInv, TypeOK, Disable, UNCHANGED <<boot, crashes>>
  PROVE  ConnectorsFollow'
<1>1. runtime'.mode = "none"
  BY DisableTyped
<1>2. runtime.mode = "managed" => files' = NoFiles
  BY DEF Disable
<1>3. runtime.mode # "managed" => files' = files
  BY DEF Disable
<1> QED BY <1>1, <1>2, <1>3 DEF FollowInv, ConnectorsFollow

LEMMA DisableFailsFollows ==
  ASSUME FollowInv, TypeOK, DisableFails
  PROVE  ConnectorsFollow'
  BY DisableFailsTyped DEF ConnectorsFollow, TypeOK

(* A pass that does not hold the mutex has published nothing.               *)
LEMMA PassStays ==
  ASSUME FollowInv, TypeOK, UNCHANGED boot, UNCHANGED call,
         ReconcileFree \/ runtime' = runtime
  PROVE  PassFollows'
  BY DEF FollowInv, PassFollows, ReconcileFree, SameTopology

LEMMA FollowOfRequests ==
  ASSUME FollowInv, TypeOK, NEW r \in Requests, AnyRequest(r) \/ AnyStep(r)
  PROVE  FollowInv'
<1>1. req[r].prev \in Saved /\ req[r].next \in Saved
  BY DEF TypeOK, ReqRecords
<1>2. UNCHANGED <<boot, call, crashes>>
  BY RequestAccepted DEF Accepted, AnyStep, VerifyInstancePublishing, Configure, PutRemoteAccessConfig, RollBack, DisableRuntime,
     DeleteRemoteAccessConfig
<1>3. CASE boot.pc = "failed"
  BY <1>2, <1>3 DEF FollowInv, ConnectorsFollow, PassFollows
<1>4. CASE UNCHANGED <<runtime, files>> /\ (faults' = faults \/ faults' = faults + 1)
  BY <1>2, <1>4, FollowStays, PassStays DEF FollowInv
<1>5. ASSUME NEW c \in Saved, Activate(c), ModeAllowed(c), ReconcileFree, UNCHANGED faults
      PROVE  FollowInv'
  BY <1>2, <1>3, <1>5, ActivateFollows, PassStays DEF FollowInv
<1>6. CASE Disable /\ ReconcileFree
  BY <1>2, <1>6, DisableFollows, PassStays DEF FollowInv
<1>7. CASE DisableFails /\ ReconcileFree
  BY <1>2, <1>7, DisableFailsFollows, PassStays DEF FollowInv
<1>8. CASE AnyRequest(r)
  BY <1>4, <1>8, RequestAccepted DEF Accepted
<1>9. CASE VerifyInstancePublishing(r) \/ PutRemoteAccessConfig(r) \/ DeleteRemoteAccessConfig(r)
  BY <1>4, <1>9 DEF VerifyInstancePublishing, PutRemoteAccessConfig, DeleteRemoteAccessConfig, Fault
<1>10. CASE Configure(r)
  <2>1. \/ Activate(req[r].next) /\ ModeAllowed(req[r].next) /\ ReconcileFree /\ UNCHANGED faults
        \/ UNCHANGED <<runtime, files>> /\ (faults' = faults \/ faults' = faults + 1)
    BY <1>10 DEF Configure, Fault
  <2> QED BY <1>1, <1>4, <1>5, <2>1
<1>11. CASE RollBack(r)
  <2>1. /\ ReconcileFree
        /\ \/ Activate(req[r].prev) /\ ModeAllowed(req[r].prev) /\ UNCHANGED faults
           \/ UNCHANGED <<runtime, files>> /\ (faults' = faults \/ faults' = faults + 1)
           \/ Disable \/ DisableFails
    BY <1>11 DEF RollBack, Fault
  <2> QED BY <1>1, <1>4, <1>5, <1>6, <1>7, <2>1
<1>12. CASE DisableRuntime(r)
  BY <1>6, <1>7, <1>12 DEF DisableRuntime
<1> QED BY <1>8, <1>9, <1>10, <1>11, <1>12 DEF AnyStep

LEMMA FollowOfCalls ==
  ASSUME FollowInv, TypeOK, NEW c \in Callers, CallOK(c), AnyCall(c)
  PROVE  FollowInv'
<1>1. /\ UNCHANGED <<boot, files, crashes>> /\ (faults' = faults \/ faults' = faults + 1)
      /\ runtime' = runtime \/ runtime' = [runtime EXCEPT !.rt = call[c].token]
  BY DEF AnyCall, apiWithConfig, RefreshAgain, oauthAccessToken, ReadForRotation, PersistCloudflareRuntimeConfig, UseRotatedToken, Fault
<1>2. runtime \in Configs /\ call[c].token \in Nat
  BY CallTyped DEF TypeOK
<1>3. runtime' \in Configs /\ SameTopology(runtime', runtime) /\ runtime'.mode = runtime.mode
  <2> DEFINE n == [runtime EXCEPT !.rt = call[c].token]
  <2>0. n \in Configs /\ n.mode = runtime.mode /\ n.admin = runtime.admin /\ n.inst = runtime.inst /\ n.auto = runtime.auto
    BY <1>2, Renewed
  <2> HIDE DEF n
  <2>1. runtime' \in Configs /\ runtime'.mode = runtime.mode /\ runtime'.admin = runtime.admin
        /\ runtime'.inst = runtime.inst /\ runtime'.auto = runtime.auto
    <3>1. runtime' = runtime \/ runtime' = n
      BY <1>1 DEF n
    <3> QED BY <1>2, <2>0, <3>1
  <2> QED BY <1>2, <2>1, SameFields
<1>4. ConnectorsFollow'
  BY <1>1, <1>3, FollowStays
<1>5. call'[Pass].pc = "publish" => call'[Pass] = call[Pass]
  <2>1. call'[c].pc # "publish" /\ \A d \in Callers : d # c => call'[d] = call[d]
    <3>1. CASE Release(c, TRUE) \/ Release(c, FALSE)
      BY <3>1, Released, CallTyped
    <3>2. CASE apiWithConfig(c)
      BY <3>2 DEF apiWithConfig, TypeOK
    <3>3. CASE RefreshAgain(c) /\ ~Release(c, TRUE)
      <4>1. call' = [call EXCEPT ![c].pc = "send", ![c].token = CurrentToken(c)]
        BY <3>3 DEF RefreshAgain
      <4> QED BY <4>1 DEF TypeOK, CallRecords
    <3>4. CASE oauthAccessToken(c) /\ ~Release(c, FALSE)
      <4>1. call' = [call EXCEPT ![c].pc = "merge", ![c].token = issued']
        BY <3>4 DEF oauthAccessToken
      <4> QED BY <4>1 DEF TypeOK, CallRecords
    <3>5. CASE ReadForRotation(c) /\ ~Release(c, FALSE)
      <4>1. call' = [call EXCEPT ![c].pc = "save", ![c].copy = [stored EXCEPT !.rt = call[c].token]]
        BY <3>5 DEF ReadForRotation
      <4> QED BY <4>1 DEF TypeOK, CallRecords
    <3>6. CASE PersistCloudflareRuntimeConfig(c) /\ ~Release(c, FALSE)
      <4>1. Proceeds(c, "use") /\ "use" \in CallPcs
        BY <3>6 DEF PersistCloudflareRuntimeConfig, CallPcs
      <4> QED BY <4>1, CallGoes
    <3>7. CASE UseRotatedToken(c)
      BY <3>7, <3>1 DEF UseRotatedToken
    <3> QED BY <3>1, <3>2, <3>3, <3>4, <3>5, <3>6, <3>7 DEF AnyCall
  <2> QED BY <2>1, PassIsNoRequest
<1>6. PassFollows'
  <2> SUFFICES ASSUME boot'.pc # "failed", call'[Pass].pc = "publish"
               PROVE  runtime'.mode = "managed" /\ SameTopology(call'[Pass].copy, runtime')
    BY DEF PassFollows, SameTopology
  <2>1. runtime.mode = "managed" /\ SameTopology(call[Pass].copy, runtime) /\ call'[Pass] = call[Pass]
    BY <1>1, <1>5 DEF FollowInv, PassFollows
  <2>2. call[Pass].copy \in Configs
    BY CallTyped, PassIsNoRequest
  <2> QED BY <1>2, <1>3, <2>1, <2>2, SameFields
<1> QED BY <1>4, <1>6 DEF FollowInv

LEMMA FollowOfOthers ==
  ASSUME FollowInv, TypeOK, AnyOther
  PROVE  FollowInv'
<1>1. CASE Expire
  <2>1. UNCHANGED <<runtime, boot, call, files, crashes, faults>>
    BY <1>1 DEF Expire
  <2> QED BY <2>1, FollowStays, PassStays DEF FollowInv
<1>2. CASE Crash
  <2>1. runtime'.mode = "none" /\ crashes' # 0 /\ call'[Pass].pc = "idle"
    BY <1>2, ConfigsTyped, CallTyped, PassIsNoRequest DEF Crash, TypeOK
  <2> QED BY <2>1 DEF FollowInv, ConnectorsFollow, PassFollows
<1>3. CASE ReadConfiguration
  <2>1. boot.pc # "failed" /\ UNCHANGED <<runtime, call, files, crashes, faults>>
    BY <1>3 DEF ReadConfiguration
  <2> QED BY <2>1 DEF FollowInv, ConnectorsFollow, PassFollows, SameTopology
<1>4. CASE RestoreConfiguration
  <2>1. boot.pc = "apply" /\ UNCHANGED <<call, crashes>> /\ (faults' = faults \/ faults' = faults + 1)
    BY <1>4 DEF RestoreConfiguration, Fault
  <2>2. CASE ReconcileFree /\ ModeAllowed(boot.copy) /\ Activate(boot.copy) /\ UNCHANGED faults
    <3>1. boot.copy \in Saved
      BY DEF TypeOK
    <3>2. ConnectorsFollow'
      BY <2>1, <2>2, <3>1, ActivateFollows
    <3>3. PassFollows'
      BY <2>1, <2>2 DEF PassFollows, ReconcileFree
    <3> QED BY <3>2, <3>3 DEF FollowInv
  <2>3. CASE UNCHANGED <<runtime, files>>
    BY <2>1, <2>3 DEF FollowInv, ConnectorsFollow, PassFollows, SameTopology, TypeOK
  <2> QED BY <1>4, <2>2, <2>3 DEF RestoreConfiguration
<1>5. CASE RecordConfigurationFailure
  <2>1. boot'.pc = "failed"
    BY <1>5 DEF RecordConfigurationFailure, BootGoes, TypeOK
  <2> QED BY <2>1 DEF FollowInv, ConnectorsFollow, PassFollows
<1>6. CASE Reconcile
  <2>1. /\ runtime.mode = "managed" /\ UNCHANGED <<runtime, boot, files, crashes, faults>>
        /\ call' = [call EXCEPT ![Pass] = [NoCall EXCEPT !.pc = "publish", !.copy = runtime]]
    BY <1>6 DEF Reconcile
  <2>2. call'[Pass] = [NoCall EXCEPT !.pc = "publish", !.copy = runtime]
    BY <2>1, PassIsNoRequest DEF TypeOK
  <2>3. call'[Pass].copy = runtime
    BY <2>2 DEF NoCall
  <2>4. SameTopology(runtime, runtime)
    BY SameFields DEF TypeOK
  <2>5. PassFollows'
    BY <2>1, <2>3, <2>4 DEF PassFollows, SameTopology
  <2> QED BY <2>1, <2>5, FollowStays DEF FollowInv
<1>7. CASE ReconcileTokens
  <2>1. /\ call[Pass].pc = "publish" /\ UNCHANGED <<runtime, boot, crashes>>
        /\ Proceeds(Pass, "ask") \/ Proceeds(Pass, "idle")
    BY <1>7 DEF ReconcileTokens
  <2>2. call'[Pass].pc # "publish"
    BY <2>1, CallGoes, PassIsNoRequest DEF CallPcs
  <2>3. CASE UNCHANGED files
    <3>1. faults' = faults \/ faults' = faults + 1
      BY <1>7 DEF ReconcileTokens, Fault
    <3> QED BY <2>1, <2>2, <2>3, <3>1, FollowStays DEF FollowInv, PassFollows
  <2>4. CASE ~UNCHANGED files
    <3>1. files' = publishConnectorTokens(call[Pass].copy) /\ UNCHANGED faults
      BY <1>7, <2>4 DEF ReconcileTokens
    <3>2. boot.pc # "failed" => runtime.mode = "managed" /\ SameTopology(call[Pass].copy, runtime)
      BY <2>1 DEF FollowInv, PassFollows
    <3>3. call[Pass].copy \in Configs /\ runtime \in Configs
      BY CallTyped, PassIsNoRequest DEF TypeOK
    <3>4. boot.pc # "failed" => call[Pass].copy["admin"] = runtime["admin"] /\ call[Pass].copy["inst"] = runtime["inst"]
      BY <3>2, <3>3, SameFields
    <3>5. boot.pc # "failed" => /\ runtime["admin"] # 0 => files'["admin"] = runtime["admin"]
                                /\ runtime["inst"] # 0 => files'["inst"] = runtime["inst"]
      BY <3>1, <3>4 DEF publishConnectorTokens
    <3> QED BY <2>1, <2>2, <3>2, <3>5 DEF FollowInv, ConnectorsFollow, PassFollows
  <2> QED BY <2>3, <2>4
<1>8. CASE ReconcileRoutes
  <2>1. Proceeds(Pass, "idle") /\ UNCHANGED <<runtime, boot, files, crashes, faults>>
    BY <1>8 DEF ReconcileRoutes
  <2>2. call'[Pass].pc # "publish"
    BY <2>1, CallGoes, PassIsNoRequest DEF CallPcs
  <2> QED BY <2>1, <2>2, FollowStays DEF FollowInv, PassFollows
<1> QED BY <1>1, <1>2, <1>3, <1>4, <1>5, <1>6, <1>7, <1>8 DEF AnyOther

-----------------------------------------------------------------------------
(* What runs is what is saved.                                             *)

(* Having the same topology is an equivalence; configurations without a mode *)
(* are alike.                                                               *)
LEMMA Alike ==
  ASSUME NEW c \in Configs, NEW d \in Configs
  PROVE  /\ SameTopology(c, c)
         /\ SameTopology(c, d) => SameTopology(d, c) /\ c.mode = d.mode
         /\ \A e \in Configs : SameTopology(c, d) /\ SameTopology(d, e) => SameTopology(c, e)
         /\ c.mode = "none" /\ d.mode = "none" => SameTopology(c, d)
<1>1. NoConfig \in Configs
  BY ConfigsTyped
<1>2. \A e \in Configs : c.mode = "none" => SameTopology(c, NoConfig)
  BY Empty
<1>3. d.mode = "none" => SameTopology(d, NoConfig)
  BY Empty
<1> QED BY <1>1, <1>2, <1>3, SameFields

LEMMA SavedPrimed ==
  SavedInv' <=> ("config" \notin lapses' =>
                   /\ OneHalfway(req', runtime', stored')
                   /\ faults' <= 1 => OneFault(req', runtime', stored', boot', faults'))
  BY DEF SavedInv, OneHalfway, OneFault, Settled, RollsBack, BootPending, SameTopology

LEMMA RequestTyped ==
  ASSUME TypeOK, NEW r \in Requests
  PROVE  /\ req[r] \in ReqRecords /\ req[r].prev \in Configs /\ req[r].next \in Configs
         /\ req[r].prev \in Saved /\ req[r].next \in Saved
         /\ stored \in Configs /\ runtime \in Configs /\ boot.copy \in Configs
  BY ConfigsTyped DEF TypeOK, ReqRecords

(* A step that leaves those that are halfway alone, and the row and the      *)
(* runtime but for the credential.                                          *)
LEMMA SavedStays ==
  ASSUME TypeOK, TypeOK', SavedInv, lapses \subseteq lapses', faults' = faults \/ faults' = faults + 1,
         "config" \notin lapses' => SameTopology(runtime, runtime') /\ SameTopology(stored, stored'),
         BootPending(boot) => BootPending(boot') \/ stored.mode = "none",
         \A s \in Requests : req[s].pc \in HalfwayPcs \/ req'[s].pc \in HalfwayPcs => req'[s] = req[s]
  PROVE  SavedInv'
<1> SUFFICES ASSUME "config" \notin lapses'
             PROVE  /\ OneHalfway(req', runtime', stored')
                    /\ faults' <= 1 => OneFault(req', runtime', stored', boot', faults')
  BY SavedPrimed
<1>1. /\ OneHalfway(req, runtime, stored)
      /\ faults <= 1 => OneFault(req, runtime, stored, boot, faults)
  BY DEF SavedInv
<1>2. /\ stored \in Configs /\ stored' \in Configs /\ runtime \in Configs /\ runtime' \in Configs /\ faults \in Nat
      /\ \A s \in Requests : req[s].prev \in Configs /\ req[s].next \in Configs
  BY ConfigsTyped, RequestTyped DEF TypeOK
<1>3. /\ stored'.mode = stored.mode /\ runtime'.mode = runtime.mode
      /\ \A c \in Configs : SameTopology(c, stored) => SameTopology(c, stored')
      /\ \A c \in Configs : SameTopology(runtime, c) => SameTopology(runtime', c)
  BY <1>2, Alike
<1>4. OneHalfway(req', runtime', stored')
  BY <1>1, <1>2, <1>3 DEF OneHalfway, HalfwayPcs
<1>5. ASSUME faults' <= 1
      PROVE  OneFault(req', runtime', stored', boot', faults')
  <2>1. OneFault(req, runtime, stored, boot, faults) /\ (faults' = faults \/ (faults = 0 /\ faults' = 1))
    BY <1>1, <1>2, <1>5
  <2>2. (\A s \in Requests : req'[s].pc \notin HalfwayPcs) => Settled(runtime', stored', boot', faults')
    <3>1. (\A s \in Requests : req'[s].pc \notin HalfwayPcs) => Settled(runtime, stored, boot, faults)
      BY <2>1 DEF OneFault
    <3> QED BY <2>1, <3>1, <1>2, <1>3 DEF Settled
  <2>3. \A s \in Requests : req[s].pc \in { "store", "undo" } /\ RollsBack(req[s], boot) => RollsBack(req[s], boot')
    <3> SUFFICES ASSUME NEW s \in Requests, req[s].pc \in { "store", "undo" }, stored.mode = "none"
                 PROVE  req[s].prev.mode = "none"
      BY DEF RollsBack
    <3> QED BY <1>1, <1>2, Alike DEF OneHalfway
  <2>4. \A s \in Requests : req'[s].pc \in { "store", "undo" } => req'[s] = req[s]
    BY DEF HalfwayPcs
  <2> QED BY <2>1, <2>2, <2>3, <2>4 DEF OneFault
<1> QED BY <1>4, <1>5

(* A request that was halfway and ends leaves nobody halfway.               *)
LEMMA SavedEnds ==
  ASSUME TypeOK, SavedInv, NEW r \in Requests, req[r].pc \in HalfwayPcs, Ended(r), lapses \subseteq lapses',
         "config" \notin lapses' /\ faults' <= 1 => Settled(runtime', stored', boot', faults')
  PROVE  SavedInv'
<1> SUFFICES ASSUME "config" \notin lapses'
             PROVE  /\ OneHalfway(req', runtime', stored')
                    /\ faults' <= 1 => OneFault(req', runtime', stored', boot', faults')
  BY SavedPrimed
<1>1. \A s \in Requests : req'[s].pc \notin HalfwayPcs
  BY EndsAt DEF SavedInv, OneHalfway, HalfwayPcs
<1> QED BY <1>1 DEF OneHalfway, OneFault, HalfwayPcs

LEMMA SavedOfConfigure ==
  ASSUME TypeOK, TypeOK', SavedInv, NEW r \in Requests, Configure(r)
  PROVE  SavedInv'
<1>1. CASE Ended(r)
  <2>1. req[r].pc = "apply" /\ UNCHANGED <<stored, boot>> /\ (faults' = faults \/ faults' = faults + 1)
    BY DEF Configure, Fault
  <2>2. \A s \in Requests : req[s].pc \in HalfwayPcs \/ req'[s].pc \in HalfwayPcs => req'[s] = req[s]
    BY <1>1, <2>1, EndsAt DEF HalfwayPcs
  <2>3. UNCHANGED <<runtime, lapses>>
    <3>1. ~Goes(r, "store")
      BY <1>1, EndsAt, GoesTo DEF RequestPcs
    <3> QED BY <3>1 DEF Configure
  <2> QED BY <2>1, <2>2, <2>3, SavedStays, RequestTyped, Alike
<1>2. CASE ~Ended(r)
  <2>1. /\ req[r].pc = "apply" /\ UNCHANGED <<stored, boot, faults>> /\ ModeAllowed(req[r].next) /\ Activate(req[r].next)
        /\ Goes(r, "store") /\ Lapse("config", Outrun(r, req[r].prev))
    BY <1>2 DEF Configure
  <2> SUFFICES ASSUME "config" \notin lapses'
               PROVE  /\ OneHalfway(req', runtime', stored')
                      /\ faults' <= 1 => OneFault(req', runtime', stored', boot', faults')
    BY SavedPrimed
  <2>2. PICK met \in BOOLEAN : met = Outrun(r, req[r].prev)
    BY DEF Outrun
  <2>3. "config" \notin lapses /\ SameTopology(req[r].prev, stored) /\ \A s \in Requests \ { r } : ~Halfway(s)
    BY <2>1, <2>2 DEF Lapse, Outrun
  <2>4. /\ req'[r].pc = "store" /\ req'[r].prev = req[r].prev /\ req'[r].next = req[r].next
        /\ \A s \in Requests : s # r => req'[s].pc \notin HalfwayPcs
        /\ \A s \in Requests : req[s].pc \notin HalfwayPcs
    BY <2>1, <2>3, GoesTo DEF Halfway, HalfwayPcs, RequestPcs
  <2>5. SameTopology(runtime', req[r].next) /\ runtime'.mode = req[r].next.mode
    BY <2>1, RequestTyped, ActivateTyped
  <2>6. OneHalfway(req', runtime', stored')
    BY <2>1, <2>3, <2>4, <2>5 DEF OneHalfway, HalfwayPcs
  <2>7. ASSUME faults = 0
        PROVE  RollsBack(req'[r], boot')
    <3>1. Settled(runtime, stored, boot, faults)
      BY <2>3, <2>4, <2>7 DEF SavedInv, OneFault
    <3>2. CASE SameTopology(runtime, stored)
      <4>1. runtime.mode = stored.mode /\ req[r].prev.mode = stored.mode
        BY <2>3, <3>2, RequestTyped, Alike
      <4> QED BY <2>1, <2>4, <4>1 DEF ModeAllowed, RollsBack
    <3>3. CASE BootPending(boot)
      BY <2>1, <3>3 DEF RollsBack
    <3> QED BY <2>7, <3>1, <3>2, <3>3 DEF Settled
  <2>8. OneFault(req', runtime', stored', boot', faults')
    BY <2>1, <2>4, <2>7 DEF OneFault, HalfwayPcs
  <2> QED BY <2>6, <2>8
<1> QED BY <1>1, <1>2

LEMMA SavedOfPut ==
  ASSUME TypeOK, TypeOK', SavedInv, NEW r \in Requests, PutRemoteAccessConfig(r)
  PROVE  SavedInv'
<1>1. req[r].pc = "store" /\ req[r].pc \in HalfwayPcs /\ UNCHANGED <<runtime, boot>>
  BY DEF PutRemoteAccessConfig, HalfwayPcs
<1>2. CASE Ended(r)
  <2>1. ~Goes(r, "undo")
    BY <1>2, EndsAt, GoesTo DEF RequestPcs
  <2>2. stored' = req[r].next /\ UNCHANGED faults /\ Lapse("token", req[r].prev.rt # stored.rt)
    BY <2>1 DEF PutRemoteAccessConfig
  <2>3. lapses \subseteq lapses' /\ ("config" \in lapses => "config" \in lapses')
    BY <2>2 DEF Lapse
  <2>4. "config" \notin lapses' => SameTopology(runtime', stored')
    BY <1>1, <2>2, <2>3 DEF SavedInv, OneHalfway
  <2> QED BY <1>1, <1>2, <2>3, <2>4, SavedEnds DEF Settled
<1>3. CASE ~Ended(r)
  <2>1. Goes(r, "undo") /\ faults' = faults + 1 /\ UNCHANGED <<stored, lapses>>
    BY <1>3 DEF PutRemoteAccessConfig, Fault
  <2> SUFFICES ASSUME "config" \notin lapses'
               PROVE  /\ OneHalfway(req', runtime', stored')
                      /\ faults' <= 1 => OneFault(req', runtime', stored', boot', faults')
    BY SavedPrimed
  <2>2. OneHalfway(req, runtime, stored) /\ (faults <= 1 => OneFault(req, runtime, stored, boot, faults))
    BY <2>1 DEF SavedInv
  <2>3. /\ req'[r].pc = "undo" /\ req'[r].prev = req[r].prev /\ req'[r].next = req[r].next
        /\ \A s \in Requests : s # r => req'[s] = req[s] /\ req'[s].pc \notin HalfwayPcs
    BY <1>1, <2>1, <2>2, GoesTo DEF OneHalfway, HalfwayPcs, RequestPcs
  <2>4. OneHalfway(req', runtime', stored')
    BY <1>1, <2>1, <2>2, <2>3 DEF OneHalfway, HalfwayPcs
  <2>5. ASSUME faults' <= 1
        PROVE  OneFault(req', runtime', stored', boot', faults')
    <3>1. faults = 0 /\ faults' = 1
      BY <2>1, <2>5 DEF TypeOK
    <3>2. RollsBack(req[r], boot)
      BY <1>1, <2>2, <3>1 DEF OneFault
    <3>3. RollsBack(req'[r], boot') /\ faults' > 0
      BY <1>1, <2>3, <3>1, <3>2 DEF RollsBack
    <3> QED BY <2>3, <3>1, <3>3 DEF OneFault, HalfwayPcs
  <2> QED BY <2>4, <2>5
<1> QED BY <1>2, <1>3

LEMMA SavedOfRollBack ==
  ASSUME TypeOK, TypeOK', SavedInv, NEW r \in Requests, RollBack(r)
  PROVE  SavedInv'
<1>1. req[r].pc = "undo" /\ req[r].pc \in HalfwayPcs /\ Ended(r) /\ UNCHANGED <<stored, boot, lapses>>
  BY DEF RollBack, HalfwayPcs
<1>2. /\ req[r].prev \in Saved /\ req[r].prev \in Configs /\ req[r].next \in Configs
      /\ stored \in Configs /\ runtime \in Configs /\ runtime' \in Configs /\ faults \in Nat
  BY RequestTyped DEF TypeOK
<1> SUFFICES ASSUME "config" \notin lapses, faults' <= 1
             PROVE  Settled(runtime', stored', boot', faults')
  BY <1>1, SavedEnds
<1>3. faults' = faults \/ faults' = faults + 1
  BY DEF RollBack, DisableFails, Fault
<1>4. OneHalfway(req, runtime, stored) /\ OneFault(req, runtime, stored, boot, faults)
  BY <1>2, <1>3 DEF SavedInv
<1>5. /\ SameTopology(req[r].prev, stored) /\ SameTopology(runtime, req[r].next)
      /\ faults > 0 /\ RollsBack(req[r], boot)
  BY <1>1, <1>4 DEF OneHalfway, OneFault
<1>6. UNCHANGED faults
  BY <1>2, <1>3, <1>5
<1>7. /\ IF req[r].prev.mode = "none" THEN Disable
         ELSE IF ModeAllowed(req[r].prev) THEN Activate(req[r].prev)
         ELSE UNCHANGED <<runtime, files>>
  BY <1>2, <1>6 DEF RollBack, DisableFails, Fault
<1>8. req[r].prev.mode = stored.mode /\ runtime.mode = req[r].next.mode
  BY <1>2, <1>5, Alike
<1>9. CASE req[r].prev.mode = "none"
  <2>1. runtime'.mode = "none"
    BY <1>7, <1>9, DisableTyped
  <2> QED BY <1>1, <1>2, <1>8, <1>9, <2>1, Alike DEF Settled
<1>10. CASE req[r].prev.mode # "none" /\ ModeAllowed(req[r].prev)
  <2>1. SameTopology(runtime', req[r].prev)
    BY <1>2, <1>7, <1>10, ActivateTyped
  <2> QED BY <1>1, <1>2, <1>5, <2>1, Alike DEF Settled
<1>11. CASE req[r].prev.mode # "none" /\ ~ModeAllowed(req[r].prev)
  BY <1>1, <1>5, <1>8, <1>11 DEF Settled, RollsBack, ModeAllowed
<1> QED BY <1>9, <1>10, <1>11

LEMMA SavedOfDisable ==
  ASSUME TypeOK, TypeOK', SavedInv, NEW r \in Requests, DisableRuntime(r)
  PROVE  SavedInv'
<1>1. req[r].pc = "apply" /\ UNCHANGED <<stored, boot>>
  BY DEF DisableRuntime
<1>2. CASE Ended(r)
  <2>1. ~Goes(r, "delete")
    BY <1>2, EndsAt, GoesTo DEF RequestPcs
  <2>2. UNCHANGED <<runtime, lapses>> /\ faults' = faults + 1
    BY <2>1 DEF DisableRuntime, DisableFails, Fault
  <2>3. \A s \in Requests : req[s].pc \in HalfwayPcs \/ req'[s].pc \in HalfwayPcs => req'[s] = req[s]
    BY <1>1, <1>2, EndsAt DEF HalfwayPcs
  <2> QED BY <1>1, <2>2, <2>3, SavedStays, RequestTyped, Alike
<1>3. CASE ~Ended(r)
  <2>1. Disable /\ Goes(r, "delete") /\ Lapse("config", \E s \in Requests : Halfway(s))
    BY <1>3 DEF DisableRuntime
  <2> SUFFICES ASSUME "config" \notin lapses'
               PROVE  /\ OneHalfway(req', runtime', stored')
                      /\ faults' <= 1 => OneFault(req', runtime', stored', boot', faults')
    BY SavedPrimed
  <2>2. \A s \in Requests : req[s].pc \notin HalfwayPcs
    BY <2>1 DEF Lapse, Halfway, HalfwayPcs
  <2>3. req'[r].pc = "delete" /\ \A s \in Requests : s # r => req'[s].pc \notin HalfwayPcs
    BY <2>1, <2>2, GoesTo DEF RequestPcs
  <2>4. runtime'.mode = "none"
    BY <2>1, DisableTyped
  <2> QED BY <2>3, <2>4 DEF OneHalfway, OneFault, HalfwayPcs
<1> QED BY <1>2, <1>3

LEMMA SavedOfDelete ==
  ASSUME TypeOK, TypeOK', SavedInv, NEW r \in Requests, DeleteRemoteAccessConfig(r)
  PROVE  SavedInv'
<1>1. req[r].pc = "delete" /\ req[r].pc \in HalfwayPcs /\ Ended(r) /\ UNCHANGED <<runtime, boot, lapses>>
  BY DEF DeleteRemoteAccessConfig, HalfwayPcs
<1> SUFFICES ASSUME "config" \notin lapses, faults' <= 1
             PROVE  Settled(runtime', stored', boot', faults')
  BY <1>1, SavedEnds
<1>2. runtime.mode = "none" /\ runtime \in Configs
  BY <1>1 DEF SavedInv, OneHalfway, TypeOK
<1>3. CASE stored' = NoConfig
  BY <1>1, <1>2, <1>3, Alike, ConfigsTyped DEF Settled
<1>4. CASE faults' = faults + 1
  BY <1>1, <1>2, <1>4 DEF Settled, TypeOK
<1> QED BY <1>3, <1>4 DEF DeleteRemoteAccessConfig, Fault

LEMMA SameRenewed ==
  ASSUME NEW c \in Configs, NEW n \in Nat
  PROVE  SameTopology(c, [c EXCEPT !.rt = n]) /\ SameTopology([c EXCEPT !.rt = n], c)
<1> DEFINE d == [c EXCEPT !.rt = n]
<1>1. d \in Configs /\ d.mode = c.mode /\ d.admin = c.admin /\ d.inst = c.inst /\ d.auto = c.auto
  BY Renewed
<1> HIDE DEF d
<1>2. SameTopology(c, d) /\ SameTopology(d, c)
  BY <1>1, SameFields
<1> QED BY <1>2 DEF d

LEMMA SavedOfRequests ==
  ASSUME TypeOK, TypeOK', SavedInv, NEW r \in Requests, AnyRequest(r) \/ AnyStep(r)
  PROVE  SavedInv'
<1>1. CASE AnyRequest(r)
  <2>1. PICK kind \in Kinds, next \in Saved, pc \in { "apply", "verify" } : Accepted(r, kind, next, pc)
    BY <1>1, RequestAccepted
  <2>2. /\ req[r].pc = "none" /\ UNCHANGED <<stored, runtime, boot, lapses, faults>>
        /\ req' = [req EXCEPT ![r] = [ kind |-> kind, pc |-> pc, prev |-> stored, next |-> next ]]
    BY <2>1 DEF Accepted
  <2>3. req'[r].pc = pc /\ \A s \in Requests : s # r => req'[s] = req[s]
    BY <2>2 DEF TypeOK
  <2>4. \A s \in Requests : req[s].pc \in HalfwayPcs \/ req'[s].pc \in HalfwayPcs => req'[s] = req[s]
    BY <2>2, <2>3 DEF HalfwayPcs
  <2> QED BY <2>2, <2>4, SavedStays, RequestTyped, Alike
<1>2. CASE VerifyInstancePublishing(r)
  <2>1. /\ UNCHANGED <<stored, runtime, boot, lapses>> /\ (faults' = faults \/ faults' = faults + 1)
        /\ req[r].pc \in { "verify", "verified" } /\ (Goes(r, "apply") \/ Ended(r))
    BY <1>2 DEF VerifyInstancePublishing, Fault
  <2>2. req'[r].pc \in { "apply", "done" } /\ \A s \in Requests : s # r => req'[s] = req[s]
    BY <2>1, GoesTo, EndsAt DEF RequestPcs
  <2>3. \A s \in Requests : req[s].pc \in HalfwayPcs \/ req'[s].pc \in HalfwayPcs => req'[s] = req[s]
    BY <2>1, <2>2 DEF HalfwayPcs
  <2> QED BY <2>1, <2>3, SavedStays, RequestTyped, Alike
<1> QED BY <1>1, <1>2, SavedOfConfigure, SavedOfPut, SavedOfRollBack, SavedOfDisable, SavedOfDelete DEF AnyStep

(* A renewal changes the credential alone, or else writes an outdated copy. *)
LEMMA SavedOfCalls ==
  ASSUME TypeOK, TypeOK', SavedInv, NEW c \in Callers, CallOK(c), AnyCall(c)
  PROVE  SavedInv'
<1>1. /\ UNCHANGED boot /\ (faults' = faults \/ faults' = faults + 1)
      /\ runtime' = runtime \/ runtime' = [runtime EXCEPT !.rt = call[c].token]
      /\ lapses \subseteq lapses'
      /\ stored' = stored \/ (stored' = call[c].copy /\ Lapse("config", ~SameTopology(call[c].copy, stored)))
  BY DEF AnyCall, apiWithConfig, RefreshAgain, oauthAccessToken, ReadForRotation, PersistCloudflareRuntimeConfig, UseRotatedToken,
         Fault, Lapse
<1>2. runtime \in Configs /\ stored \in Configs /\ call[c].token \in Nat /\ call[c].copy \in Configs /\ stored' \in Configs
  BY CallTyped, ConfigsTyped DEF TypeOK
<1>3. SameTopology(runtime, runtime')
  <2>1. CASE runtime' = runtime
    BY <1>2, <2>1, Alike
  <2>2. CASE runtime' = [runtime EXCEPT !.rt = call[c].token]
    BY <1>2, <2>2, SameRenewed
  <2> QED BY <1>1, <2>1, <2>2
<1>4. "config" \notin lapses' => SameTopology(stored, stored')
  <2>1. CASE stored' = stored
    BY <1>2, <2>1, Alike
  <2>2. CASE stored' = call[c].copy /\ Lapse("config", ~SameTopology(call[c].copy, stored))
    <3>1. "config" \notin lapses' => SameTopology(call[c].copy, stored)
      BY <2>2 DEF Lapse
    <3> QED BY <1>2, <2>2, <3>1, Alike
  <2> QED BY <1>1, <2>1, <2>2
<1>5. \A s \in Requests : req[s].pc \in HalfwayPcs \/ req'[s].pc \in HalfwayPcs => req'[s] = req[s]
  BY CallAnswers DEF Answered, HalfwayPcs
<1> QED BY <1>1, <1>3, <1>4, <1>5, SavedStays

LEMMA SavedOfOthers ==
  ASSUME TypeOK, TypeOK', SavedInv, AnyOther
  PROVE  SavedInv'
<1>1. CASE Expire \/ Reconcile \/ ReconcileTokens \/ ReconcileRoutes
  <2>1. UNCHANGED <<stored, runtime, boot, lapses, req>> /\ (faults' = faults \/ faults' = faults + 1)
    BY <1>1 DEF Expire, Reconcile, ReconcileTokens, ReconcileRoutes, Fault
  <2> QED BY <2>1, SavedStays, Alike, ConfigsTyped DEF TypeOK
<1>2. CASE Crash
  <2>1. /\ runtime' = NoConfig /\ UNCHANGED stored /\ boot'.pc = "read" /\ lapses \subseteq lapses'
        /\ \A s \in Requests : req'[s] = IF InFlight(s) THEN Done(s) ELSE req[s]
    BY <1>2 DEF Crash, Lapse
  <2>2. \A s \in Requests : req'[s].pc \notin HalfwayPcs
    <3>1. \A s \in Requests : Done(s).pc = "done"
      BY DEF Done
    <3> QED BY <2>1, <3>1 DEF InFlight, HalfwayPcs
  <2>3. Settled(runtime', stored', boot', faults')
    <3>1. CASE stored.mode = "none"
      BY <2>1, <3>1, Alike, ConfigsTyped DEF Settled, TypeOK
    <3> QED BY <2>1, <3>1 DEF Settled, BootPending
  <2> QED BY <2>2, <2>3, SavedPrimed DEF OneHalfway, OneFault, HalfwayPcs
<1>3. CASE ReadConfiguration
  <2>1. UNCHANGED <<stored, runtime, req, lapses, faults>> /\ (boot'.pc = "apply" \/ stored.mode = "none")
    BY <1>3 DEF ReadConfiguration
  <2>2. BootPending(boot) => BootPending(boot') \/ stored.mode = "none"
    BY <2>1 DEF BootPending
  <2> QED BY <2>1, <2>2, SavedStays, Alike, ConfigsTyped DEF TypeOK
<1>4. CASE RestoreConfiguration \/ RecordConfigurationFailure
  <2>1. boot.copy \in Saved /\ boot.copy \in Configs /\ stored \in Configs /\ runtime \in Configs /\ runtime' \in Configs
    BY ConfigsTyped DEF TypeOK
  <2>2. CASE RestoreConfiguration /\ UNCHANGED runtime /\ boot'.pc = "record"
    <3>1. UNCHANGED <<stored, req>> /\ (faults' = faults \/ faults' = faults + 1) /\ lapses \subseteq lapses'
      BY <2>2 DEF RestoreConfiguration, Fault, Lapse
    <3> QED BY <2>1, <2>2, <3>1, SavedStays, Alike DEF BootPending
  <2>3. CASE UNCHANGED <<stored, req>> /\ Lapse("config", Outrun(0, boot.copy)) /\ SameTopology(runtime', boot.copy)
    <3> SUFFICES ASSUME "config" \notin lapses'
                 PROVE  /\ OneHalfway(req', runtime', stored')
                        /\ faults' <= 1 => OneFault(req', runtime', stored', boot', faults')
      BY SavedPrimed
    <3>1. ~Outrun(0, boot.copy)
      BY <2>3 DEF Lapse
    <3>2. SameTopology(boot.copy, stored) /\ \A s \in Requests : req'[s].pc \notin HalfwayPcs
      BY <2>3, <3>1, RemoteAccessBounds DEF Outrun, Halfway, HalfwayPcs
    <3>3. SameTopology(runtime', stored')
      BY <2>1, <2>3, <3>2, Alike
    <3> QED BY <3>2, <3>3 DEF OneHalfway, OneFault, HalfwayPcs, Settled
  <2>4. CASE RecordConfigurationFailure
    <3>1. /\ UNCHANGED <<stored, req>> /\ Lapse("config", Outrun(0, boot.copy))
          /\ runtime' = boot.copy \/ runtime' = [boot.copy EXCEPT !.rt = runtime.rt]
      BY <2>4 DEF RecordConfigurationFailure
    <3>2. runtime.rt \in Nat
      BY <2>1, ConfigsTyped
    <3>3. SameTopology(runtime', boot.copy)
      <4>1. CASE runtime' = boot.copy
        BY <2>1, <4>1, Alike
      <4>2. CASE runtime' = [boot.copy EXCEPT !.rt = runtime.rt]
        BY <2>1, <3>2, <4>2, SameRenewed
      <4> QED BY <3>1, <4>1, <4>2
    <3> QED BY <2>3, <3>1, <3>3
  <2>5. CASE RestoreConfiguration
    <3>1. /\ UNCHANGED <<stored, req>>
          /\ \/ Activate(boot.copy) /\ Lapse("config", Outrun(0, boot.copy))
             \/ UNCHANGED runtime /\ BootGoes("record")
      BY <2>5 DEF RestoreConfiguration
    <3>2. CASE Activate(boot.copy) /\ Lapse("config", Outrun(0, boot.copy))
      BY <2>1, <2>3, <3>1, <3>2, ActivateTyped
    <3>3. CASE UNCHANGED runtime /\ BootGoes("record")
      BY <2>2, <2>5, <3>3 DEF BootGoes, TypeOK
    <3> QED BY <3>1, <3>2, <3>3
  <2> QED BY <1>4, <2>4, <2>5
<1> QED BY <1>1, <1>2, <1>3, <1>4 DEF AnyOther

-----------------------------------------------------------------------------
(* Who has which token.                                                    *)

(* A step passes on no token but those of the requests in A, and none that   *)
(* nobody had but the one just issued.                                      *)
Passes(A) ==
  \A t \in Nat \ { 0 }, S \in SUBSET Requests :
    A \subseteq S /\ Unheld(t, S) /\ (t = issued' => issued' = issued) => Unheld(t, S)'

LEMMA PassesOfRequests ==
  ASSUME TypeOK, NEW r \in Requests, AnyRequest(r) \/ AnyStep(r)
  PROVE  Passes({ r })
<1> SUFFICES ASSUME NEW t \in Nat \ { 0 }, NEW S \in SUBSET Requests, r \in S, Unheld(t, S), t = issued' => issued' = issued
             PROVE  Unheld(t, S)'
  BY DEF Passes
<1>1. /\ t # stored.rt /\ t # runtime.rt /\ t # boot.copy.rt
      /\ \A c \in Callers : t # call[c].copy.rt /\ t # call[c].token
      /\ \A s \in S : t # req[s].prev.rt /\ t # req[s].next.rt
  BY DEF Unheld
<1>2. NoConfig.rt = 0 /\ req[r].prev \in Saved /\ req[r].next \in Saved
  BY ConfigsTyped, RequestTyped
<1>3. CASE AnyRequest(r)
  <2>1. PICK kind \in Kinds, next \in Saved, pc \in { "apply", "verify" } : Accepted(r, kind, next, pc)
    BY <1>3, RequestAccepted
  <2>2. /\ req' = [req EXCEPT ![r] = [ kind |-> kind, pc |-> pc, prev |-> stored, next |-> next ]]
        /\ UNCHANGED <<stored, runtime, call, boot>>
        /\ next.rt \in { 0, stored.rt } \/ (next.rt = issued' /\ issued' = issued + 1)
    BY <2>1, RemoteAccessBounds DEF Accepted
  <2>3. t # next.rt
    BY <1>1, <2>2 DEF TypeOK
  <2>4. req'[r].prev = stored /\ req'[r].next = next /\ \A s \in Requests : s # r => req'[s] = req[s]
    BY <2>2 DEF TypeOK
  <2> QED BY <1>1, <2>2, <2>3, <2>4 DEF Unheld
<1>4. CASE AnyStep(r)
  <2>1. UNCHANGED <<call, boot>>
    BY <1>4 DEF AnyStep, VerifyInstancePublishing, Configure, PutRemoteAccessConfig, RollBack, DisableRuntime, DeleteRemoteAccessConfig
  <2>2. /\ \A s \in Requests : s # r => req'[s] = req[s]
        /\ \/ req'[r].prev = req[r].prev /\ req'[r].next = req[r].next
           \/ req'[r].prev = NoConfig /\ req'[r].next = NoConfig
    <3>1. Ended(r) \/ \E pc \in RequestPcs : Goes(r, pc)
      BY <1>4 DEF AnyStep, VerifyInstancePublishing, Configure, PutRemoteAccessConfig, RollBack, DisableRuntime,
         DeleteRemoteAccessConfig, RequestPcs
    <3> QED BY <3>1, EndsAt, GoesTo
  <2>3. stored' \in { stored, req[r].next, NoConfig }
    BY <1>4 DEF AnyStep, VerifyInstancePublishing, Configure, PutRemoteAccessConfig, RollBack, DisableRuntime, DeleteRemoteAccessConfig
  <2>4. runtime'.rt \in { runtime.rt, req[r].next.rt, req[r].prev.rt, 0 }
    <3>1. UNCHANGED runtime \/ Disable \/ Activate(req[r].next) \/ Activate(req[r].prev)
      BY <1>4 DEF AnyStep, VerifyInstancePublishing, Configure, PutRemoteAccessConfig, RollBack, DisableRuntime,
         DeleteRemoteAccessConfig, DisableFails
    <3> QED BY <1>2, <3>1, ActivateTyped, DisableTyped
  <2> QED BY <1>1, <1>2, <2>1, <2>2, <2>3, <2>4 DEF Unheld
<1> QED BY <1>3, <1>4

(* What a call may do to the calls.                                         *)
CallMoves(c) ==
  /\ \A d \in Callers : d # c => call'[d] = call[d]
  /\ \/ call'[c] = NoCall
     \/ call'[c].token \in { 0, call[c].token, CurrentToken(c) } /\ call'[c].copy \in { call[c].copy, CallConfig(c) }
     \/ call'[c].token = issued' /\ issued' = issued + 1 /\ call'[c].copy = call[c].copy
     \/ call'[c].token = call[c].token /\ call'[c].copy = [stored EXCEPT !.rt = call[c].token]

LEMMA CallsMove ==
  ASSUME TypeOK, NEW c \in Callers, AnyCall(c)
  PROVE  CallMoves(c)
<1>0. call \in [Callers -> CallRecords]
  BY DEF TypeOK
<1>1. CASE Release(c, TRUE) \/ Release(c, FALSE)
  BY <1>1, Released DEF CallMoves
<1>2. CASE apiWithConfig(c)
  <2>1. call' = [call EXCEPT ![c] = [pc |-> "wait", token |-> 0, copy |-> CallConfig(c)]]
    BY <1>2 DEF apiWithConfig
  <2>2. call'[c].token = 0 /\ call'[c].copy = CallConfig(c) /\ \A d \in Callers : d # c => call'[d] = call[d]
    BY <1>0, <2>1
  <2> QED BY <2>2 DEF CallMoves
<1>3. CASE RefreshAgain(c) /\ ~Release(c, TRUE)
  <2>1. call' = [call EXCEPT ![c].pc = "send", ![c].token = CurrentToken(c)]
    BY <1>3 DEF RefreshAgain
  <2>2. call'[c].token = CurrentToken(c) /\ call'[c].copy = call[c].copy /\ \A d \in Callers : d # c => call'[d] = call[d]
    BY <1>0, <2>1 DEF CallRecords
  <2> QED BY <2>2 DEF CallMoves
<1>4. CASE oauthAccessToken(c) /\ ~Release(c, FALSE)
  <2>1. call' = [call EXCEPT ![c].pc = "merge", ![c].token = issued'] /\ issued' = issued + 1
    BY <1>4 DEF oauthAccessToken
  <2>2. call'[c].token = issued' /\ call'[c].copy = call[c].copy /\ \A d \in Callers : d # c => call'[d] = call[d]
    BY <1>0, <2>1 DEF CallRecords
  <2> QED BY <2>1, <2>2 DEF CallMoves
<1>5. CASE ReadForRotation(c) /\ ~Release(c, FALSE)
  <2>1. call' = [call EXCEPT ![c].pc = "save", ![c].copy = [stored EXCEPT !.rt = call[c].token]]
    BY <1>5 DEF ReadForRotation
  <2>2. call'[c].token = call[c].token /\ call'[c].copy = [stored EXCEPT !.rt = call[c].token]
        /\ \A d \in Callers : d # c => call'[d] = call[d]
    BY <1>0, <2>1 DEF CallRecords
  <2> QED BY <2>2 DEF CallMoves
<1>6. CASE PersistCloudflareRuntimeConfig(c) /\ ~Release(c, FALSE)
  <2>1. Proceeds(c, "use")
    BY <1>6 DEF PersistCloudflareRuntimeConfig
  <2> QED BY <2>1, CallGoes DEF CallMoves, CallPcs
<1>7. CASE UseRotatedToken(c)
  BY <1>1, <1>7 DEF UseRotatedToken
<1> QED BY <1>1, <1>2, <1>3, <1>4, <1>5, <1>6, <1>7 DEF AnyCall

LEMMA PassesOfCalls ==
  ASSUME TypeOK, NEW c \in Callers, CallOK(c), AnyCall(c)
  PROVE  Passes({ c } \cap Requests)
<1> SUFFICES ASSUME NEW t \in Nat \ { 0 }, NEW S \in SUBSET Requests, { c } \cap Requests \subseteq S, Unheld(t, S),
                    t = issued' => issued' = issued
             PROVE  Unheld(t, S)'
  BY DEF Passes
<1>1. /\ t # stored.rt /\ t # runtime.rt /\ t # boot.copy.rt
      /\ \A d \in Callers : t # call[d].copy.rt /\ t # call[d].token
      /\ \A s \in S : t # req[s].prev.rt /\ t # req[s].next.rt
  BY DEF Unheld
<1>2. NoConfig.rt = 0 /\ NoCall.copy = NoConfig /\ NoCall.token = 0
  BY ConfigsTyped, CallTyped
<1>3. t # CurrentToken(c) /\ t # CallConfig(c).rt
  BY <1>1, PassIsNoRequest DEF CurrentToken, CallConfig
<1>4. [stored EXCEPT !.rt = call[c].token].rt = call[c].token /\ [runtime EXCEPT !.rt = call[c].token].rt = call[c].token
  <2>1. call[c].token \in Nat /\ stored \in Configs /\ runtime \in Configs
    BY CallTyped, ConfigsTyped DEF TypeOK
  <2> QED BY <2>1, Renewed
<1>5. \A d \in Callers : t # call'[d].copy.rt /\ t # call'[d].token
  <2>1. issued' = issued + 1 => t # issued'
    BY DEF TypeOK
  <2>2. CallMoves(c)
    BY CallsMove
  <2>3. t # call'[c].copy.rt /\ t # call'[c].token
    BY <1>1, <1>2, <1>3, <1>4, <2>1, <2>2 DEF CallMoves
  <2> QED BY <1>1, <2>2, <2>3 DEF CallMoves
<1>6. UNCHANGED boot /\ stored' \in { stored, call[c].copy } /\ runtime' \in { runtime, [runtime EXCEPT !.rt = call[c].token] }
  BY DEF AnyCall, apiWithConfig, RefreshAgain, oauthAccessToken, ReadForRotation, PersistCloudflareRuntimeConfig, UseRotatedToken
<1>7. \A s \in S : t # req'[s].prev.rt /\ t # req'[s].next.rt
  <2>1. \A s \in Requests : \/ req'[s].prev = req[s].prev /\ req'[s].next = req[s].next
                            \/ req'[s].prev = NoConfig /\ req'[s].next = NoConfig
    BY CallAnswers DEF Answered
  <2> QED BY <1>1, <1>2, <2>1
<1> QED BY <1>1, <1>4, <1>5, <1>6, <1>7 DEF Unheld

LEMMA PassesOfOthers ==
  ASSUME TypeOK, AnyOther
  PROVE  Passes({})
<1> SUFFICES ASSUME NEW t \in Nat \ { 0 }, NEW S \in SUBSET Requests, Unheld(t, S)
             PROVE  Unheld(t, S)'
  BY DEF Passes
<1>1. /\ t # stored.rt /\ t # runtime.rt /\ t # boot.copy.rt
      /\ \A d \in Callers : t # call[d].copy.rt /\ t # call[d].token
      /\ \A s \in S : t # req[s].prev.rt /\ t # req[s].next.rt
  BY DEF Unheld
<1>2. NoConfig.rt = 0 /\ NoCall.copy = NoConfig /\ NoCall.token = 0
  BY ConfigsTyped, CallTyped
<1>3. UNCHANGED stored
  BY DEF AnyOther, Expire, Crash, ReadConfiguration, RestoreConfiguration, RecordConfigurationFailure, Reconcile,
         ReconcileTokens, ReconcileRoutes
<1>4. runtime'.rt \in { runtime.rt, boot.copy.rt, 0 }
  <2>1. CASE RestoreConfiguration
    <3>1. boot.copy \in Saved
      BY DEF TypeOK
    <3>2. Activate(boot.copy) \/ UNCHANGED runtime
      BY <2>1 DEF RestoreConfiguration
    <3> QED BY <3>1, <3>2, ActivateTyped
  <2>2. CASE RecordConfigurationFailure
    <3>1. [boot.copy EXCEPT !.rt = runtime.rt].rt = runtime.rt
      BY Renewed, ConfigsTyped DEF TypeOK
    <3> QED BY <2>2, <3>1 DEF RecordConfigurationFailure
  <2>3. CASE ~RestoreConfiguration /\ ~RecordConfigurationFailure
    <3>1. runtime' = runtime \/ runtime' = NoConfig
      BY <2>3 DEF AnyOther, Expire, Crash, ReadConfiguration, Reconcile, ReconcileTokens, ReconcileRoutes
    <3> QED BY <1>2, <3>1
  <2> QED BY <2>1, <2>2, <2>3
<1>5. boot'.copy \in { boot.copy, stored, NoConfig }
  <2>1. \/ boot' = boot \/ boot' = [boot EXCEPT !.pc = "done"] \/ boot' = [boot EXCEPT !.pc = "record"]
        \/ boot' = [boot EXCEPT !.pc = "failed"]
        \/ boot' = [pc |-> "apply", copy |-> stored] \/ boot' = [pc |-> "read", copy |-> NoConfig]
    BY DEF AnyOther, Expire, Crash, ReadConfiguration, RestoreConfiguration, RecordConfigurationFailure, Reconcile,
           ReconcileTokens, ReconcileRoutes, BootGoes
  <2>2. boot \in [ pc : BootPcs, copy : Saved ]
    BY DEF TypeOK
  <2> QED BY <2>1, <2>2
<1>6. \A d \in Callers : call'[d].copy \in { call[d].copy, runtime, NoConfig } /\ call'[d].token \in { call[d].token, 0 }
  <2>1. CASE Crash
    BY <1>2, <2>1 DEF Crash
  <2>2. CASE Reconcile
    <3>1. call' = [call EXCEPT ![Pass] = [NoCall EXCEPT !.pc = "publish", !.copy = runtime]]
      BY <2>2 DEF Reconcile
    <3>2. [NoCall EXCEPT !.pc = "publish", !.copy = runtime].copy = runtime /\ [NoCall EXCEPT !.pc = "publish", !.copy = runtime].token = 0
      BY DEF NoCall
    <3> QED BY <3>1, <3>2 DEF TypeOK
  <2>3. CASE ReconcileTokens \/ ReconcileRoutes
    <3>1. Proceeds(Pass, "ask") \/ Proceeds(Pass, "idle")
      BY <2>3 DEF ReconcileTokens, ReconcileRoutes
    <3>2. Pass \in Callers /\ "ask" \in CallPcs /\ "idle" \in CallPcs
      BY PassIsNoRequest DEF CallPcs
    <3>3. \A d \in Callers : call'[d].copy = call[d].copy /\ call'[d].token = call[d].token
      BY <3>1, <3>2, CallGoes
    <3> QED BY <3>3
  <2>4. CASE Expire \/ ReadConfiguration \/ RestoreConfiguration \/ RecordConfigurationFailure
    BY <2>4 DEF Expire, ReadConfiguration, RestoreConfiguration, RecordConfigurationFailure
  <2> QED BY <2>1, <2>2, <2>3, <2>4 DEF AnyOther
<1>7. \A s \in Requests : \/ req'[s].prev = req[s].prev /\ req'[s].next = req[s].next
                          \/ req'[s].prev = NoConfig /\ req'[s].next = NoConfig
  <2>1. \A s \in Requests : Done(s).prev = NoConfig /\ Done(s).next = NoConfig
    BY DEF Done
  <2> QED BY <2>1, OthersAnswer
<1> QED BY <1>1, <1>2, <1>3, <1>4, <1>5, <1>6, <1>7 DEF Unheld

(* So nobody gets to know a token before it is issued.                      *)
LEMMA KnownStays ==
  ASSUME TypeOK, TypeOK', Known, issued' = issued \/ issued' = issued + 1, NEW A \in SUBSET Requests, Passes(A)
  PROVE  Known'
<1>1. issued \in Nat /\ issued' \in Nat
  BY DEF TypeOK
<1>2. \A t \in Nat : t > issued => Unheld(t, Requests)
  BY <1>1 DEF Known, Unheld
<1>3. \A t \in Nat : t > issued' => Unheld(t, Requests)'
  <2> TAKE t \in Nat
  <2> HAVE t > issued'
  <2>1. t > issued /\ t # issued' /\ t # 0
    BY <1>1
  <2>2. Unheld(t, Requests)
    BY <1>2, <2>1
  <2> QED BY <2>1, <2>2 DEF Passes
<1>4. /\ stored'.rt \in Nat /\ runtime'.rt \in Nat /\ boot'.copy.rt \in Nat
      /\ \A c \in Callers : call'[c].copy.rt \in Nat /\ call'[c].token \in Nat
      /\ \A r \in Requests : req'[r].prev.rt \in Nat /\ req'[r].next.rt \in Nat
  <2>1. stored' \in Configs /\ runtime' \in Configs /\ boot'.copy \in Configs
    BY ConfigsTyped DEF TypeOK
  <2>2. \A c \in Callers : call'[c].copy \in Configs /\ call'[c].token \in Nat
    BY DEF TypeOK, CallRecords
  <2>3. \A r \in Requests : req'[r].prev \in Configs /\ req'[r].next \in Configs
    BY ConfigsTyped DEF TypeOK, ReqRecords
  <2> QED BY <2>1, <2>2, <2>3, ConfigsTyped
<1>5. /\ \A t \in Nat : t > issued' => t # stored'.rt /\ t # runtime'.rt /\ t # boot'.copy.rt
      /\ \A t \in Nat : t > issued' => \A c \in Callers : t # call'[c].copy.rt /\ t # call'[c].token
      /\ \A t \in Nat : t > issued' => \A r \in Requests : t # req'[r].prev.rt /\ t # req'[r].next.rt
  BY <1>3 DEF Unheld
<1>6. \A n \in Nat : ~(n > issued') => n <= issued'
  BY <1>1
<1> QED BY <1>4, <1>5, <1>6 DEF Known

(* The token of a sign-in that is not yet running is the request's own.     *)
LEMMA SignInStays ==
  ASSUME TypeOK, NEW A \in SUBSET Requests, Passes(A), issued' = issued \/ issued' = issued + 1,
         NEW r \in Requests \ A, req'[r] = req[r], SignIn(r, "apply"),
         req[r].next.rt \in accepted, Unheld(req[r].next.rt, Requests \ { r })
  PROVE  Unheld(req[r].next.rt, Requests \ { r })'
<1>1. PICK t \in Nat \ { 0 } : t = req[r].next.rt /\ t <= issued
  <2>1. issued \in Nat /\ req[r].next.rt \in 1..issued
    BY DEF TypeOK
  <2> QED BY <2>1
<1>2. Unheld(t, Requests \ { r }) /\ A \subseteq Requests \ { r } /\ (t = issued' => issued' = issued)
  BY <1>1 DEF TypeOK
<1>3. Unheld(t, Requests \ { r })'
  BY <1>2 DEF Passes
<1>4. req'[r].next.rt = t
  BY <1>1
<1>5. Unheld(req[r].next.rt, Requests \ { r })' <=> Unheld(t, Requests \ { r })'
  BY <1>4 DEF Unheld
<1> QED BY <1>3, <1>5

-----------------------------------------------------------------------------
(* The authorization.                                                      *)

LEMMA TokenOfRequests ==
  ASSUME TypeOK, TypeOK', \A s \in Requests : Candidate(s), TokenInv, NEW r \in Requests, AnyRequest(r) \/ AnyStep(r)
  PROVE  TokenInv'
<1>1. UNCHANGED <<call, lock>> /\ lapses \subseteq lapses'
  <2>1. AnyRequest(r) => UNCHANGED <<call, lock, lapses>>
    BY RequestAccepted DEF Accepted
  <2> QED BY <2>1 DEF AnyStep, VerifyInstancePublishing, Configure, PutRemoteAccessConfig, RollBack, DisableRuntime,
            DeleteRemoteAccessConfig, Lapse
<1>2. (issued' = issued \/ issued' = issued + 1) /\ accepted \subseteq accepted'
  <2>1. AnyRequest(r) => (issued' = issued \/ issued' = issued + 1) /\ accepted \subseteq accepted'
    BY RequestAccepted, RemoteAccessBounds DEF Accepted, cloud
  <2>2. AnyStep(r) => UNCHANGED <<issued, accepted>>
    BY DEF AnyStep, VerifyInstancePublishing, Configure, PutRemoteAccessConfig, RollBack, DisableRuntime,
       DeleteRemoteAccessConfig, cloud
  <2> QED BY <2>1, <2>2
<1>3. \A s \in Requests : s # r => req'[s] = req[s]
  <2>1. CASE AnyRequest(r)
    <3>1. PICK q \in ReqRecords : req' = [req EXCEPT ![r] = q]
      <4>1. PICK kind \in Kinds, next \in Saved, pc \in { "apply", "verify" } : Accepted(r, kind, next, pc)
        BY <2>1, RequestAccepted
      <4>2. [ kind |-> kind, pc |-> pc, prev |-> stored, next |-> next ] \in ReqRecords
        BY DEF ReqRecords, RequestPcs, TypeOK
      <4> QED BY <4>1, <4>2 DEF Accepted
    <3> QED BY <3>1 DEF TypeOK
  <2>2. CASE AnyStep(r)
    <3>1. Ended(r) \/ \E pc \in RequestPcs : Goes(r, pc)
      BY <2>2 DEF AnyStep, VerifyInstancePublishing, Configure, PutRemoteAccessConfig, RollBack, DisableRuntime,
         DeleteRemoteAccessConfig, RequestPcs
    <3> QED BY <3>1, EndsAt, GoesTo
  <2> QED BY <2>1, <2>2
<1>4. Known'
  BY <1>2, KnownStays, PassesOfRequests DEF TokenInv
<1>5. \A c \in Callers : CallOK(c)'
  <2>1. call[r].pc = "idle"
    <3>1. CASE VerifyInstancePublishing(r)
      <4>1. r \in Callers /\ r # Pass
        BY PassIsNoRequest
      <4> QED BY <3>1, <4>1 DEF VerifyInstancePublishing, TokenInv, CallOK
    <3>2. CASE ~VerifyInstancePublishing(r)
      <4>1. req[r].pc # "verify"
        <5>1. AnyRequest(r) => req[r].pc = "none"
          BY RequestAccepted DEF Accepted
        <5> QED BY <3>2, <5>1 DEF AnyStep, Configure, PutRemoteAccessConfig, RollBack, DisableRuntime, DeleteRemoteAccessConfig
      <4>2. r \in Callers /\ r # Pass
        BY PassIsNoRequest
      <4> QED BY <4>1, <4>2 DEF TokenInv, CallOK
    <3> QED BY <3>1, <3>2
  <2> TAKE c \in Callers
  <2>2. CASE c = r
    BY <1>1, <2>1, <2>2 DEF CallOK
  <2>3. CASE c # r
    BY <1>1, <1>2, <1>3, <2>3, PassIsNoRequest DEF CallOK, TokenInv
  <2> QED BY <2>2, <2>3
<1>6. ASSUME NEW s \in Requests, SignIn(s, "apply")'
      PROVE  req'[s].next.rt \in accepted' /\ Unheld(req[s].next.rt, Requests \ { s })'
  <2>1. CASE s # r
    <3>1. SignIn(s, "apply") /\ req'[s] = req[s]
      BY <1>3, <1>6, <2>1 DEF SignIn
    <3>2. req[s].next.rt \in accepted /\ Unheld(req[s].next.rt, Requests \ { s })
      BY <3>1 DEF TokenInv
    <3> QED BY <1>2, <2>1, <3>1, <3>2, PassesOfRequests, SignInStays
  <2>2. CASE s = r /\ AnyStep(r)
    <3>1. ~VerifyInstancePublishing(r) \/ Ended(r)
      <4>1. VerifyInstancePublishing(r) => req[r].pc \in { "verify", "verified" } /\ (Goes(r, "apply") \/ Ended(r))
        BY DEF VerifyInstancePublishing
      <4>2. Goes(r, "apply") => req'[r].kind = req[r].kind
        BY GoesTo DEF RequestPcs
      <4> QED BY <1>6, <2>2, <4>1, <4>2 DEF SignIn, Candidate, InFlight
    <3>2. Ended(r) \/ Goes(r, "store") \/ Goes(r, "undo") \/ Goes(r, "delete")
      BY <2>2, <3>1 DEF AnyStep, Configure, PutRemoteAccessConfig, RollBack, DisableRuntime, DeleteRemoteAccessConfig
    <3>3. req'[r].pc # "apply"
      BY <3>2, EndsAt, GoesTo DEF RequestPcs
    <3> QED BY <1>6, <2>2, <3>3 DEF SignIn
  <2>3. CASE s = r /\ AnyRequest(r)
    <3>1. PICK kind \in Kinds, next \in Saved, pc \in { "apply", "verify" } : Accepted(r, kind, next, pc)
      BY <2>3, RequestAccepted
    <3>2. /\ req' = [req EXCEPT ![r] = [ kind |-> kind, pc |-> pc, prev |-> stored, next |-> next ]]
          /\ UNCHANGED <<stored, runtime, call, boot>>
      BY <3>1 DEF Accepted
    <3>3. req'[r].kind = kind /\ req'[r].next = next
      BY <3>2 DEF TypeOK
    <3>4. next.rt = issued' /\ issued' = issued + 1 /\ next.rt \in accepted'
      BY <1>6, <2>3, <3>1, <3>3 DEF Accepted, SignIn
    <3>5. \A t \in Nat : t > issued => Unheld(t, Requests)
      BY DEF TokenInv, Known, Unheld, TypeOK
    <3>6. issued \in Nat /\ issued + 1 > issued /\ issued + 1 \in Nat
      BY DEF TypeOK
    <3>7. PICK t \in Nat : t = issued + 1
      BY <3>6
    <3>8. Unheld(t, Requests)
      BY <3>5, <3>6, <3>7
    <3>9. Unheld(t, Requests \ { r })' /\ req'[r].next.rt = t
      BY <1>3, <3>2, <3>3, <3>4, <3>7, <3>8 DEF Unheld
    <3>10. Unheld(req[r].next.rt, Requests \ { r })' <=> Unheld(t, Requests \ { r })'
      BY <3>9 DEF Unheld
    <3> QED BY <2>3, <3>3, <3>4, <3>9, <3>10
  <2> QED BY <2>1, <2>2, <2>3
<1>7. ASSUME lapses' = {}
      PROVE  /\ stored'.rt # 0 => stored'.rt \in accepted' \/ Merging' \/ Saving'
             /\ \A s \in Requests : SignIn(s, "store")' => req'[s].next.rt \in accepted' \/ Merging'
  <2>1. lapses = {} /\ (Merging' <=> Merging) /\ (Saving' <=> Saving)
    BY <1>1, <1>7 DEF Merging, Saving
  <2>2. /\ stored.rt # 0 => stored.rt \in accepted \/ Merging \/ Saving
        /\ \A s \in Requests : SignIn(s, "store") => req[s].next.rt \in accepted \/ Merging
    BY <2>1 DEF TokenInv
  <2>3. \A s \in Requests : SignIn(s, "store")' => req'[s].next.rt \in accepted' \/ Merging'
    <3> SUFFICES ASSUME NEW s \in Requests, SignIn(s, "store")'
                 PROVE  req'[s].next.rt \in accepted' \/ Merging'
      OBVIOUS
    <3>1. CASE s # r
      BY <1>2, <1>3, <2>1, <2>2, <3>1 DEF SignIn
    <3>2. CASE s = r
      <4>1. req'[r].kind = "oauth" /\ req'[r].pc = "store"
        BY <3>2 DEF SignIn
      <4>2. ~AnyRequest(r)
        <5>1. ASSUME AnyRequest(r)
              PROVE  req'[r].pc \in { "apply", "verify" }
          <6>1. PICK kind \in Kinds, next \in Saved, pc \in { "apply", "verify" } : Accepted(r, kind, next, pc)
            BY <5>1, RequestAccepted
          <6> QED BY <6>1 DEF Accepted, TypeOK
        <5> QED BY <4>1, <5>1
      <4>3. ~Ended(r) /\ ~Goes(r, "apply") /\ ~Goes(r, "undo") /\ ~Goes(r, "delete")
        BY <4>1, EndsAt, GoesTo DEF RequestPcs
      <4>4. Goes(r, "store") /\ req[r].pc = "apply"
        BY <4>2, <4>3 DEF AnyStep, VerifyInstancePublishing, Configure, PutRemoteAccessConfig, RollBack, DisableRuntime,
           DeleteRemoteAccessConfig
      <4>5. SignIn(r, "apply") /\ req'[r].next = req[r].next
        BY <4>1, <4>4, GoesTo DEF SignIn, RequestPcs
      <4> QED BY <1>2, <3>2, <4>5 DEF TokenInv
    <3> QED BY <3>1, <3>2
  <2>4. stored'.rt # 0 => stored'.rt \in accepted' \/ Merging' \/ Saving'
    <3>1. CASE stored' = stored
      BY <1>2, <2>1, <2>2, <3>1
    <3>2. CASE stored' = NoConfig
      BY <3>2, ConfigsTyped
    <3>3. CASE stored' = req[r].next /\ req[r].pc = "store" /\ Lapse("token", req[r].prev.rt # stored.rt)
      <4>1. req[r].prev.rt = stored.rt
        BY <1>7, <3>3 DEF Lapse
      <4>2. req[r].kind \in { "admin", "publishing", "full", "existing", "disable", "oauth" }
        <5>1. req[r].kind \in Kinds \cup { "none" }
          BY RequestTyped DEF ReqRecords
        <5> QED BY <3>3, <5>1, RemoteAccessBounds DEF Candidate, InFlight
      <4>3. CASE req[r].kind = "oauth"
        BY <1>2, <2>1, <2>2, <3>3, <4>3 DEF SignIn
      <4>4. CASE req[r].kind # "oauth"
        <5>1. req[r].next.rt = 0 \/ req[r].next.rt = req[r].prev.rt
          BY <3>3, <4>2, <4>4 DEF Candidate, InFlight
        <5> QED BY <1>2, <2>1, <2>2, <3>3, <4>1, <5>1
      <4> QED BY <4>3, <4>4
    <3>4. AnyRequest(r) => stored' = stored
      BY RequestAccepted DEF Accepted
    <3> QED BY <3>1, <3>2, <3>3, <3>4 DEF AnyStep, VerifyInstancePublishing, Configure, PutRemoteAccessConfig, RollBack,
            DisableRuntime, DeleteRemoteAccessConfig
  <2> QED BY <2>3, <2>4
<1> QED BY <1>4, <1>5, <1>6, <1>7 DEF TokenInv

(* The states in which a caller has the lock.                               *)
Locked == { "send", "merge", "save", "use" }

LEMMA CallGuards ==
  ASSUME TypeOK, NEW c \in Callers, CallOK(c), AnyCall(c)
  PROVE  /\ c = Pass \/ req[c].pc = "verify"
         /\ \/ lock' = lock
            \/ lock' = {} /\ lock \in { {}, { c } }
            \/ lock = {} /\ lock' = { c } /\ call'[c].pc = "send"
         /\ \/ accepted' = accepted /\ issued' = issued
            \/ call[c].pc = "send" /\ accepted' = (accepted \ { call[c].token }) \cup { issued' } /\ issued' = issued + 1
         /\ \A d \in Callers : d # c => call'[d] = call[d]
<1>1. c = Pass \/ req[c].pc = "verify"
  <2>1. apiWithConfig(c) => c = Pass \/ req[c].pc = "verify"
    BY DEF apiWithConfig
  <2>2. ~apiWithConfig(c) => call[c].pc # "idle"
    BY DEF AnyCall, RefreshAgain, oauthAccessToken, ReadForRotation, PersistCloudflareRuntimeConfig, UseRotatedToken
  <2> QED BY <2>1, <2>2 DEF CallOK
<1>2. \/ accepted' = accepted /\ issued' = issued
      \/ call[c].pc = "send" /\ accepted' = (accepted \ { call[c].token }) \cup { issued' } /\ issued' = issued + 1
  BY DEF AnyCall, apiWithConfig, RefreshAgain, oauthAccessToken, ReadForRotation, PersistCloudflareRuntimeConfig, UseRotatedToken,
     cloud
<1>3. \/ lock' = lock
      \/ lock' = {} /\ lock \in { {}, { c } }
      \/ lock = {} /\ lock' = { c } /\ call'[c].pc = "send"
  <2>1. CASE RefreshAgain(c)
    <3>1. lock = {} /\ (lock' = {} \/ (lock' = { c } /\ call' = [call EXCEPT ![c].pc = "send", ![c].token = CurrentToken(c)]))
      BY <2>1 DEF RefreshAgain, Release
    <3>2. call' = [call EXCEPT ![c].pc = "send", ![c].token = CurrentToken(c)] => call'[c].pc = "send"
      BY DEF TypeOK, CallRecords
    <3> QED BY <3>1, <3>2
  <2>2. CASE ~RefreshAgain(c) /\ ~apiWithConfig(c)
    <3>1. call[c].pc \in Locked /\ (lock' = lock \/ lock' = {})
      BY <2>2 DEF AnyCall, oauthAccessToken, ReadForRotation, PersistCloudflareRuntimeConfig, UseRotatedToken, Release, Locked
    <3> QED BY <3>1 DEF CallOK, Locked
  <2>3. CASE apiWithConfig(c)
    BY <2>3 DEF apiWithConfig
  <2> QED BY <2>1, <2>2, <2>3
<1> QED BY <1>1, <1>2, <1>3, CallsMove DEF CallMoves

(* The caller that acted.                                                   *)
LEMMA CallStaysOK ==
  ASSUME TypeOK, NEW c \in Callers, CallOK(c), AnyCall(c)
  PROVE  CallOK(c)'
<1>0. call \in [Callers -> CallRecords] /\ call[c].token \in Nat /\ stored \in Configs
  BY CallTyped, ConfigsTyped DEF TypeOK
<1>1. CASE Release(c, TRUE) \/ Release(c, FALSE)
  <2>1. call'[c].pc = "idle"
    BY <1>1, Released, CallTyped
  <2> QED BY <2>1 DEF CallOK
<1>2. CASE apiWithConfig(c)
  <2>1. call' = [call EXCEPT ![c] = [pc |-> "wait", token |-> 0, copy |-> CallConfig(c)]] /\ UNCHANGED req
    BY <1>2 DEF apiWithConfig
  <2>2. call'[c].pc = "wait"
    BY <1>0, <2>1
  <2> QED BY <2>1, <2>2, CallGuards DEF CallOK
<1>3. CASE RefreshAgain(c) /\ ~Release(c, TRUE)
  <2>1. call' = [call EXCEPT ![c].pc = "send", ![c].token = CurrentToken(c)] /\ UNCHANGED req /\ lock' = { c }
    BY <1>3 DEF RefreshAgain
  <2>2. call'[c].pc = "send"
    BY <1>0, <2>1 DEF CallRecords
  <2> QED BY <2>1, <2>2, CallGuards DEF CallOK
<1>4. CASE oauthAccessToken(c) /\ ~Release(c, FALSE)
  <2>1. /\ call' = [call EXCEPT ![c].pc = "merge", ![c].token = issued'] /\ UNCHANGED <<req, lock>>
        /\ call[c].pc = "send" /\ issued' \in accepted'
    BY <1>4 DEF oauthAccessToken
  <2>2. call'[c].pc = "merge" /\ call'[c].token = issued'
    BY <1>0, <2>1 DEF CallRecords
  <2> QED BY <2>1, <2>2, CallGuards DEF CallOK
<1>5. CASE ReadForRotation(c) /\ ~Release(c, FALSE)
  <2>1. /\ call' = [call EXCEPT ![c].pc = "save", ![c].copy = [stored EXCEPT !.rt = call[c].token]]
        /\ UNCHANGED <<req, lock, accepted>> /\ stored.mode = "managed" /\ call[c].pc = "merge"
    BY <1>5 DEF ReadForRotation, cloud
  <2>2. call'[c].pc = "save" /\ call'[c].token = call[c].token /\ call'[c].copy = [stored EXCEPT !.rt = call[c].token]
    BY <1>0, <2>1 DEF CallRecords
  <2>3. call'[c].copy.mode = "managed" /\ call'[c].copy.rt = call[c].token
    BY <1>0, <2>1, <2>2, Renewed
  <2> QED BY <2>1, <2>2, <2>3, CallGuards DEF CallOK
<1>6. CASE PersistCloudflareRuntimeConfig(c) /\ ~Release(c, FALSE)
  <2>1. Proceeds(c, "use") /\ UNCHANGED <<req, lock>> /\ call[c].pc = "save"
    BY <1>6 DEF PersistCloudflareRuntimeConfig
  <2>2. call'[c].pc = "use"
    BY <2>1, CallGoes DEF CallPcs
  <2> QED BY <2>1, <2>2, CallGuards DEF CallOK
<1>7. CASE UseRotatedToken(c)
  BY <1>1, <1>7 DEF UseRotatedToken
<1> QED BY <1>1, <1>2, <1>3, <1>4, <1>5, <1>6, <1>7 DEF AnyCall

LEMMA TokenOfCalls ==
  ASSUME TypeOK, TypeOK', \A s \in Requests : Candidate(s), SavedInv, TokenInv, NEW c \in Callers, AnyCall(c)
  PROVE  TokenInv'
<1>1. CallOK(c)
  BY DEF TokenInv
<1>2. (issued' = issued \/ issued' = issued + 1) /\ Passes({ c } \cap Requests)
  BY <1>1, CallGuards, PassesOfCalls
<1>3. Known'
  BY <1>2, KnownStays DEF TokenInv
<1>4. \A d \in Callers : CallOK(d)'
  <2> TAKE d \in Callers
  <2>1. CASE d = c
    BY <1>1, <2>1, CallStaysOK
  <2>2. CASE d # c
    <3>1. CallOK(d) /\ call'[d] = call[d]
      BY <1>1, <2>2, CallGuards DEF TokenInv
    <3>2. d # Pass => req'[d] = req[d]
      BY <1>1, <2>2, CallAnswers, PassIsNoRequest
    <3>3. call[d].pc \in Locked => lock = { d } /\ lock' = lock /\ accepted' = accepted
      <4> SUFFICES ASSUME call[d].pc \in Locked
                   PROVE  lock = { d } /\ lock' = lock /\ accepted' = accepted
        OBVIOUS
      <4>1. lock = { d } /\ lock # {} /\ lock # { c }
        BY <2>2, <3>1 DEF CallOK, Locked
      <4>2. call[c].pc # "send"
        BY <1>1, <4>1 DEF CallOK
      <4> QED BY <1>1, <4>1, <4>2, CallGuards
    <3> QED BY <3>1, <3>2, <3>3 DEF CallOK, Locked
  <2> QED BY <2>1, <2>2
<1>5. \A s \in Requests : req'[s].pc \in { "apply", "store" } => s # c /\ req'[s] = req[s]
  <2> TAKE s \in Requests
  <2>1. s # Pass
    BY PassIsNoRequest
  <2>2. s = c => req[s].pc = "verify"
    BY <1>1, <2>1, CallGuards
  <2>3. req'[s] = req[s] \/ req'[s].pc \in { "verified", "done" }
    BY <1>1, CallAnswers DEF Answered
  <2> QED BY <2>2, <2>3
<1>6. ASSUME NEW s \in Requests, SignIn(s, "apply")'
      PROVE  req'[s].next.rt \in accepted' /\ Unheld(req[s].next.rt, Requests \ { s })'
  <2>1. SignIn(s, "apply") /\ req'[s] = req[s] /\ s # c
    BY <1>5, <1>6 DEF SignIn
  <2>2. req[s].next.rt \in accepted /\ Unheld(req[s].next.rt, Requests \ { s })
    BY <2>1 DEF TokenInv
  <2>3. Unheld(req[s].next.rt, Requests \ { s })'
    BY <1>2, <2>1, <2>2, SignInStays
  <2>4. req[s].next.rt # call[c].token
    BY <2>2 DEF Unheld
  <2> QED BY <1>1, <2>1, <2>2, <2>3, <2>4, CallGuards
<1>7. ASSUME lapses' = {}
      PROVE  /\ stored'.rt # 0 => stored'.rt \in accepted' \/ Merging' \/ Saving'
             /\ \A s \in Requests : SignIn(s, "store")' => req'[s].next.rt \in accepted' \/ Merging'
  <2>1. lapses = {}
    BY <1>7 DEF AnyCall, apiWithConfig, RefreshAgain, oauthAccessToken, ReadForRotation, PersistCloudflareRuntimeConfig,
       UseRotatedToken, Lapse
  <2>2. /\ stored.rt # 0 => stored.rt \in accepted \/ Merging \/ Saving
        /\ \A s \in Requests : SignIn(s, "store") => req[s].next.rt \in accepted \/ Merging
    BY <2>1 DEF TokenInv
  <2>3. \A s \in Requests : SignIn(s, "store")' => SignIn(s, "store") /\ req'[s] = req[s]
    BY <1>5 DEF SignIn
  <2>4. \A d \in Callers : d # c => call'[d] = call[d]
    BY <1>1, CallGuards
  <2>5. CASE call[c].pc \notin { "merge", "save" } /\ UNCHANGED <<stored, accepted>>
    BY <2>2, <2>3, <2>4, <2>5 DEF Merging, Saving
  <2>6. CASE oauthAccessToken(c)
    <3>1. CASE call[c].token \notin accepted
      BY <2>5, <2>6, <3>1 DEF oauthAccessToken, cloud
    <3>2. CASE call[c].token \in accepted
      <4>1. call' = [call EXCEPT ![c].pc = "merge", ![c].token = issued']
        BY <1>7, <2>6, <3>2 DEF oauthAccessToken, Lapse
      <4>2. call'[c].pc = "merge"
        BY <4>1 DEF TypeOK, CallRecords
      <4> QED BY <4>2 DEF Merging
    <3> QED BY <3>1, <3>2
  <2>7. CASE ReadForRotation(c)
    <3>1. /\ call' = [call EXCEPT ![c].pc = "save", ![c].copy = [stored EXCEPT !.rt = call[c].token]]
          /\ stored.mode = "managed"
      BY <1>7, <2>7 DEF ReadForRotation, Lapse
    <3>2. call'[c].pc = "save"
      BY <3>1 DEF TypeOK, CallRecords
    <3>3. \A s \in Requests : ~SignIn(s, "store")
      <4> SUFFICES ASSUME NEW s \in Requests, SignIn(s, "store")
                   PROVE  FALSE
        OBVIOUS
      <4>1. req[s].prev.mode = "none" /\ req[s].pc = "store"
        BY DEF SignIn, Candidate, InFlight
      <4>2. SameTopology(req[s].prev, stored)
        BY <2>1, <4>1 DEF SavedInv, OneHalfway
      <4> QED BY <3>1, <4>1, <4>2, RequestTyped, Alike
    <3> QED BY <2>3, <3>2, <3>3 DEF Saving
  <2>8. CASE PersistCloudflareRuntimeConfig(c)
    <3>1. call[c].pc = "save" /\ stored' = call[c].copy /\ UNCHANGED accepted
      BY <1>7, <2>8 DEF PersistCloudflareRuntimeConfig, Lapse, cloud
    <3>2. stored'.rt \in accepted'
      BY <1>1, <3>1 DEF CallOK
    <3>3. Merging => Merging'
      BY <2>4, <3>1 DEF Merging
    <3> QED BY <2>2, <2>3, <3>1, <3>2, <3>3
  <2>9. CASE apiWithConfig(c)
    <3>1. call[c].pc \notin { "merge", "save" }
      BY <2>9 DEF apiWithConfig
    <3> QED BY <2>5, <2>9, <3>1 DEF apiWithConfig, cloud
  <2>10. CASE RefreshAgain(c)
    BY <2>5, <2>10 DEF RefreshAgain, cloud
  <2>11. CASE UseRotatedToken(c)
    BY <2>5, <2>11 DEF UseRotatedToken, cloud
  <2> QED BY <2>6, <2>7, <2>8, <2>9, <2>10, <2>11 DEF AnyCall
<1> QED BY <1>3, <1>4, <1>6, <1>7 DEF TokenInv

LEMMA TokenOfOthers ==
  ASSUME TypeOK, TypeOK', TokenInv, AnyOther
  PROVE  TokenInv'
<1>1. UNCHANGED <<stored, issued, accepted>> /\ lapses \subseteq lapses'
  BY DEF AnyOther, Expire, Crash, ReadConfiguration, RestoreConfiguration, RecordConfigurationFailure, Reconcile,
         ReconcileTokens, ReconcileRoutes, Lapse, cloud
<1>2. Known'
  BY <1>1, KnownStays, PassesOfOthers DEF TokenInv
<1>3. \A s \in Requests : req'[s].pc \in { "apply", "store" } => req'[s] = req[s]
  <2>1. \A s \in Requests : Done(s).pc = "done"
    BY DEF Done
  <2> QED BY <2>1, OthersAnswer
<1>4. /\ \/ UNCHANGED req
         \/ \A c \in Callers : call'[c].pc = "idle"
      /\ \A c \in Callers : \/ call'[c] = call[c] /\ lock' = lock
                            \/ call'[c].pc = "idle"
                            \/ call'[c].pc \in { "publish", "ask" } /\ c = Pass
  <2>1. CASE Crash
    BY <2>1, CallTyped DEF Crash
  <2>2. CASE Reconcile
    <3>1. call' = [call EXCEPT ![Pass] = [NoCall EXCEPT !.pc = "publish", !.copy = runtime]] /\ UNCHANGED <<lock, req>>
      BY <2>2 DEF Reconcile
    <3>2. [NoCall EXCEPT !.pc = "publish", !.copy = runtime].pc = "publish"
      BY DEF NoCall
    <3> QED BY <3>1, <3>2 DEF TypeOK
  <2>3. CASE ReconcileTokens \/ ReconcileRoutes
    <3>1. (Proceeds(Pass, "ask") \/ Proceeds(Pass, "idle")) /\ UNCHANGED <<lock, req>>
      BY <2>3 DEF ReconcileTokens, ReconcileRoutes
    <3>2. call'[Pass].pc \in { "ask", "idle" } /\ \A c \in Callers : c # Pass => call'[c] = call[c]
      BY <3>1, CallGoes, PassIsNoRequest DEF CallPcs
    <3> QED BY <3>1, <3>2
  <2>4. CASE Expire \/ ReadConfiguration \/ RestoreConfiguration \/ RecordConfigurationFailure
    BY <2>4 DEF Expire, ReadConfiguration, RestoreConfiguration, RecordConfigurationFailure
  <2> QED BY <2>1, <2>2, <2>3, <2>4 DEF AnyOther
<1>5. \A c \in Callers : CallOK(c)'
  <2> TAKE c \in Callers
  <2>1. CASE call'[c].pc = "idle"
    BY <2>1 DEF CallOK
  <2>2. CASE call'[c].pc \in { "publish", "ask" } /\ c = Pass
    BY <2>2 DEF CallOK
  <2>3. CASE call'[c] = call[c] /\ lock' = lock /\ call'[c].pc # "idle"
    <3>1. CallOK(c) /\ UNCHANGED <<req, accepted>>
      BY <1>1, <1>4, <2>3 DEF TokenInv
    <3> QED BY <2>3, <3>1 DEF CallOK
  <2> QED BY <1>4, <2>1, <2>2, <2>3
<1>6. ASSUME NEW s \in Requests, SignIn(s, "apply")'
      PROVE  req'[s].next.rt \in accepted' /\ Unheld(req[s].next.rt, Requests \ { s })'
  <2>1. SignIn(s, "apply") /\ req'[s] = req[s]
    BY <1>3, <1>6 DEF SignIn
  <2>2. req[s].next.rt \in accepted /\ Unheld(req[s].next.rt, Requests \ { s })
    BY <2>1 DEF TokenInv
  <2>3. Unheld(req[s].next.rt, Requests \ { s })'
    BY <1>1, <2>1, <2>2, SignInStays, PassesOfOthers
  <2> QED BY <1>1, <2>1, <2>2, <2>3
<1>7. ASSUME lapses' = {}
      PROVE  /\ stored'.rt # 0 => stored'.rt \in accepted' \/ Merging' \/ Saving'
             /\ \A s \in Requests : SignIn(s, "store")' => req'[s].next.rt \in accepted' \/ Merging'
  <2>1. lapses = {}
    BY <1>1, <1>7
  <2>2. /\ stored.rt # 0 => stored.rt \in accepted \/ Merging \/ Saving
        /\ \A s \in Requests : SignIn(s, "store") => req[s].next.rt \in accepted \/ Merging
    BY <2>1 DEF TokenInv
  <2>3. \A s \in Requests : SignIn(s, "store")' => SignIn(s, "store") /\ req'[s] = req[s]
    BY <1>3 DEF SignIn
  <2>4. \A c \in Callers : call[c].pc \in { "merge", "save" } => call'[c] = call[c]
    <3>1. CASE Crash
      BY <1>7, <3>1 DEF Crash, Lapse
    <3>2. CASE Reconcile
      BY <3>2 DEF Reconcile, TypeOK
    <3>3. CASE ReconcileTokens \/ ReconcileRoutes
      BY <3>3 DEF ReconcileTokens, ReconcileRoutes, Proceeds, TypeOK
    <3>4. CASE Expire \/ ReadConfiguration \/ RestoreConfiguration \/ RecordConfigurationFailure
      BY <3>4 DEF Expire, ReadConfiguration, RestoreConfiguration, RecordConfigurationFailure
    <3> QED BY <3>1, <3>2, <3>3, <3>4 DEF AnyOther
  <2>5. (Merging => Merging') /\ (Saving => Saving')
    BY <2>4 DEF Merging, Saving
  <2> QED BY <1>1, <2>2, <2>3, <2>5
<1> QED BY <1>2, <1>5, <1>6, <1>7 DEF TokenInv

-----------------------------------------------------------------------------
(* The theorems.                                                           *)

LEMMA AccessInit == Init => AccessInv
<1> SUFFICES ASSUME Init
             PROVE  AccessInv
  OBVIOUS
<1>1. /\ stored = NoConfig /\ runtime = NoConfig /\ files = NoFiles /\ issued = 0 /\ accepted = {} /\ fresh = {}
      /\ req = [r \in Requests |-> NoReq] /\ call = [c \in Callers |-> NoCall] /\ lock = {}
      /\ boot = [pc |-> "read", copy |-> NoConfig] /\ lapses = {} /\ faults = 0 /\ crashes = 0
  BY DEF Init
<1>2. /\ NoReq \in ReqRecords /\ NoReq.pc = "none" /\ NoReq.kind = "none" /\ NoReq.prev = NoConfig /\ NoReq.next = NoConfig
  BY ConfigsTyped DEF NoReq, ReqRecords, RequestPcs
<1>3. TypeOK
  BY <1>1, <1>2, CallTyped, ConfigsTyped DEF TypeOK, NoFiles, BootPcs
<1>4. FollowInv
  BY <1>1, CallTyped, ConfigsTyped, PassIsNoRequest DEF FollowInv, ConnectorsFollow, PassFollows
<1>5. \A r \in Requests : Candidate(r)
  BY <1>1, <1>2 DEF Candidate, InFlight
<1>6. SavedInv
  <2>1. SameTopology(runtime, stored)
    BY <1>1, ConfigsTyped, Alike
  <2> QED BY <1>1, <1>2, <2>1 DEF SavedInv, OneHalfway, OneFault, Settled, HalfwayPcs
<1>7. TokenInv
  <2>1. Known
    BY <1>1, <1>2, CallTyped, ConfigsTyped DEF Known
  <2>2. \A c \in Callers : CallOK(c)
    BY <1>1, CallTyped DEF CallOK
  <2> QED BY <1>1, <1>2, <2>1, <2>2, ConfigsTyped DEF TokenInv, SignIn
<1> QED BY <1>3, <1>4, <1>5, <1>6, <1>7 DEF AccessInv

LEMMA AccessStep == AccessInv /\ [Next]_vars => AccessInv'
<1> SUFFICES ASSUME AccessInv, [Next]_vars
             PROVE  AccessInv'
  OBVIOUS
<1>1. TypeOK /\ FollowInv /\ (\A r \in Requests : Candidate(r)) /\ SavedInv /\ TokenInv
  BY DEF AccessInv
<1>2. CASE UNCHANGED vars
  BY <1>1, <1>2 DEF vars, cloud, AccessInv, TypeOK, FollowInv, ConnectorsFollow, PassFollows, Candidate, InFlight, SavedInv,
     OneHalfway, OneFault, Settled, RollsBack, BootPending, TokenInv, Known, CallOK, SignIn, Unheld, Merging, Saving, SameTopology
<1>3. ASSUME NEW r \in Requests, AnyRequest(r) \/ AnyStep(r)
      PROVE  AccessInv'
  <2>1. TypeOK'
    BY <1>1, <1>3, TypeOfRequests DEF AnyStep
  <2> QED BY <1>1, <1>3, <2>1, FollowOfRequests, CandidatesOfRequests, SavedOfRequests, TokenOfRequests DEF AccessInv
<1>4. ASSUME NEW c \in Callers, AnyCall(c)
      PROVE  AccessInv'
  <2>1. CallOK(c)
    BY <1>1 DEF TokenInv
  <2>2. TypeOK'
    BY <1>1, <1>4, <2>1, TypeOfCalls
  <2> QED BY <1>1, <1>4, <2>1, <2>2, FollowOfCalls, CandidatesOfCalls, SavedOfCalls, TokenOfCalls DEF AccessInv
<1>5. CASE AnyOther
  <2>1. TypeOK'
    BY <1>1, <1>5, TypeOfOthers
  <2> QED BY <1>1, <1>5, <2>1, FollowOfOthers, CandidatesOfOthers, SavedOfOthers, TokenOfOthers DEF AccessInv
<1> QED BY <1>2, <1>3, <1>4, <1>5 DEF Next, AnyOther, AnyRequest, AnyStep, AnyCall

(* The strengthened invariant of remote access holds in every reachable     *)
(* state, however requests, passes, renewals, the start, failures and       *)
(* restarts interleave.                                                     *)
THEOREM AccessInvariance == Spec => []AccessInv
<1> QED BY AccessInit, AccessStep, PTL DEF Spec

(* The connector token files are those of the running configuration, and    *)
(* there are none when remote access is off: Configure, Disable and the      *)
(* reconciliation pass take one mutex (remoteaccess.Manager and the          *)
(* Cloudflare manager).                                                     *)
THEOREM ConnectorsFollowRuntime == Spec => []ConnectorsFollow
<1>1. AccessInv => ConnectorsFollow
  BY DEF AccessInv, FollowInv
<1> QED BY <1>1, AccessInvariance, PTL

(* Requests apply a candidate before they store it and roll it back when the *)
(* store fails: with one failure at most, and nobody writing from an         *)
(* outdated copy, what runs when nothing is under way is what is saved.      *)
THEOREM SavedConfigurationRuns == Spec => []SavedIsActive
<1>1. ASSUME AccessInv, Quiet, "config" \notin lapses, faults <= 1, ~SameTopology(runtime, stored)
      PROVE  faults = 1 /\ runtime.mode = "none"
  <2>1. OneFault(req, runtime, stored, boot, faults)
    BY <1>1 DEF AccessInv, SavedInv
  <2>2. \A r \in Requests : req[r].pc \notin HalfwayPcs
    BY <1>1 DEF Quiet, InFlight, HalfwayPcs
  <2>3. ~BootPending(boot)
    BY <1>1 DEF Quiet, BootPending
  <2> QED BY <1>1, <2>1, <2>2, <2>3 DEF OneFault, Settled
<1>2. AccessInv => SavedIsActive
  BY <1>1 DEF SavedIsActive
<1> QED BY <1>2, AccessInvariance, PTL

(* A renewal saves the next token before it uses it, under oauthRefresh: the *)
(* row holds a token Cloudflare accepts unless a renewal was cut before its  *)
(* save, or a copy that was out of date was written.                         *)
THEOREM AuthorizationSurvives == Spec => []AuthorizationKept
<1>1. ASSUME AccessInv, Quiet, stored.rt # 0, lapses = {}
      PROVE  stored.rt \in accepted
  <2>1. ~Merging /\ ~Saving
    BY <1>1 DEF Quiet, Merging, Saving
  <2> QED BY <1>1, <2>1 DEF AccessInv, TokenInv
<1>2. AccessInv => AuthorizationKept
  BY <1>1 DEF AuthorizationKept
<1> QED BY <1>2, AccessInvariance, PTL
=============================================================================
