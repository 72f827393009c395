---------------------------- MODULE HostWorkflows ----------------------------
(***************************************************************************)
(* The provisioner of the Host Agent: ExecuteWithProgress hands the job it *)
(* was given to the workflow of the job's type.  The workflows are modules *)
(* of their own, composed here over one execution: they share the job row  *)
(* (kind, job, claims), the execution (pc, cancelled, result), the status  *)
(* of the instance row and the quarantine of the managed path.             *)
(***************************************************************************)
EXTENDS Naturals, Sequences

CONSTANTS
    MaxClaims,              \* jobLeaseMaxClaims
    MaxJobs,                \* bound: runtime jobs of a behaviour
    RestoreFaultSets,       \* what may go wrong in a restore
    ConfigurationFaultSets, \* what may go wrong in a configuration job
    MaxFrames, MaxOutputs   \* bounds: frames and files of a chat answer

VARIABLES
    kind, pc, cancelled, result, job, claims, status, blocked, faults,
    original, host, point, staged, caller, lost, res, record,
    archive, ws, volume, aside, leftover, copy, mutated, first, restored,
    want, file, containers, on, snap, todo, failedUndo,
    before, phase, env, compose, box, tag, meta, imageID, jobs, honest,
    stream, outputs, out, requests, events, registry, stored, session, discarded

updateVars == <<original, host, point, staged, caller, lost, res, record>>
restoreVars == <<archive, ws, volume, aside, leftover, copy, mutated, first, restored>>
configurationVars == <<want, file, containers, on, snap, todo, failedUndo>>
runtimeVars == <<before, phase, env, compose, box, tag, meta, imageID, jobs, honest>>
chatVars == <<stream, outputs, out, requests, events, registry, stored, session, discarded>>
vars == <<kind, pc, cancelled, result, job, claims, status, blocked, faults,
          updateVars, restoreVars, configurationVars, runtimeVars, chatVars>>

ConfigurationKinds == { "runtime.sync", "messaging", "mcp" }

U == INSTANCE HermesUpdate
R == INSTANCE RestorePoint WITH FaultSets <- RestoreFaultSets
C == INSTANCE ConfigTransaction
        WITH FaultSets <- ConfigurationFaultSets, Kinds <- ConfigurationKinds, box <- containers
J == INSTANCE RuntimeJobs
T == INSTANCE ChatTurn

ASSUME BoundsAssumption ==
    /\ MaxClaims \in Nat \ {0} /\ MaxJobs \in Nat /\ MaxFrames \in Nat /\ MaxOutputs \in Nat
    /\ \A f \in RestoreFaultSets : f \subseteq R!Commands
    /\ \A f \in ConfigurationFaultSets : f \subseteq C!Commands

(* The state of the workflows the job is not about.                        *)
None == "none"
NoUpdate == /\ original = None /\ host = None /\ point = None /\ staged = None
            /\ caller = None /\ lost = None /\ res = None /\ record = None
NoRestore == /\ archive = None /\ ws = None /\ volume = None /\ aside = None /\ leftover = None
             /\ copy = None /\ mutated = None /\ first = None /\ restored = None
NoConfiguration == /\ want = None /\ file = None /\ containers = None /\ on = None
                   /\ snap = None /\ todo = None /\ failedUndo = None
NoRuntimeJob == /\ before = None /\ phase = None /\ env = None /\ compose = None /\ box = None
                /\ tag = None /\ meta = None /\ imageID = None /\ jobs = None /\ honest = None
NoChat == /\ stream = None /\ outputs = None /\ out = None /\ requests = None /\ events = None
          /\ registry = None /\ stored = None /\ session = None /\ discarded = None

Init ==
    \/ /\ kind = "hermes.update" /\ U!Init
       /\ result = None /\ status = None /\ faults = {}
       /\ NoRestore /\ NoConfiguration /\ NoRuntimeJob /\ NoChat
    \/ /\ kind = "recovery.restore" /\ R!Init
       /\ NoUpdate /\ NoConfiguration /\ NoRuntimeJob /\ NoChat
    \/ /\ C!Init /\ blocked = FALSE
       /\ NoUpdate /\ NoRestore /\ NoRuntimeJob /\ NoChat
    \/ /\ J!Init /\ blocked = FALSE /\ faults = {}
       /\ NoUpdate /\ NoRestore /\ NoConfiguration /\ NoChat
    \/ /\ kind = "chat.send" /\ T!Init
       /\ status = None /\ blocked = FALSE /\ faults = {}
       /\ NoUpdate /\ NoRestore /\ NoConfiguration /\ NoRuntimeJob

(* ExecuteWithProgress: the job's type selects the workflow, the others    *)
(* are left alone.                                                         *)
Update ==
    /\ kind = "hermes.update"
    /\ UNCHANGED <<kind, result, status, faults, restoreVars, configurationVars, runtimeVars, chatVars>>
Restore ==
    /\ kind = "recovery.restore"
    /\ UNCHANGED <<kind, updateVars, configurationVars, runtimeVars, chatVars>>
Configuration ==
    /\ kind \in ConfigurationKinds
    /\ UNCHANGED <<blocked, updateVars, restoreVars, runtimeVars, chatVars>>
Runtime ==
    /\ kind \in J!Kinds
    /\ UNCHANGED <<blocked, faults, updateVars, restoreVars, configurationVars, chatVars>>
Chat ==
    /\ kind = "chat.send"
    /\ UNCHANGED <<kind, status, blocked, faults, updateVars, restoreVars, configurationVars,
                   runtimeVars>>

ExecuteWithProgress ==
    \/ Update /\ U!Step
    \/ Restore /\ R!Step
    \/ Configuration /\ C!Step
    \/ Runtime /\ J!Step
    \/ Chat /\ T!Step

Claim ==
    \/ Update /\ U!Claim
    \/ Restore /\ R!Claim
    \/ Configuration /\ C!Claim
    \/ Runtime /\ J!Claim
    \/ Chat /\ T!Claim

GiveUp ==
    \/ Update /\ U!GiveUp
    \/ Restore /\ R!GiveUp
    \/ Configuration /\ C!GiveUp
    \/ Runtime /\ J!GiveUp
    \/ Chat /\ T!GiveUp

(* The execution ends early: its context is canceled, the agent dies.      *)
CutOff ==
    \/ Update /\ (U!Cancel \/ U!Crash)
    \/ Restore /\ (R!Cancel \/ R!Restart)
    \/ Configuration /\ (C!Cancel \/ C!Crash)
    \/ Runtime /\ (J!Cancel \/ J!Crash)
    \/ Chat /\ (T!Cancel \/ T!Crash)

(* A restored instance is started; the operator asks for the next job; an  *)
(* image reference is built anew; requests of a chat get lost.             *)
Outside ==
    \/ Restore /\ R!Start
    \/ Runtime /\ \E k \in J!Kinds : J!Request(k)
    \/ Runtime /\ J!Retag
    \/ Chat /\ (T!Faults \/ T!Operator)

Next == ExecuteWithProgress \/ Claim \/ GiveUp \/ CutOff \/ Outside

(* The agent goes on with the job it executes, its host polls, and leases  *)
(* run out; nothing makes an execution be cut off or an operator act.  An  *)
(* upload of a chat has a deadline, and an output that is reported again   *)
(* and again is recorded in the end.                                       *)
Spec ==
    /\ Init /\ [][Next]_vars
    /\ WF_vars(ExecuteWithProgress) /\ WF_vars(Claim) /\ WF_vars(GiveUp)
    /\ WF_vars(Chat /\ T!UploadFails) /\ WF_vars(Chat /\ T!HandledLate) /\ SF_vars(Chat /\ T!Answers)

------------------------------------------------------------------------------
(* A success the control plane records is true on the host, whatever       *)
(* earlier attempts that crashed or were canceled left behind: the target  *)
(* is installed and in its former state, workspace and data are those of   *)
(* the archive, every configuration file was changed and the containers    *)
(* run on them, the containers are in the state the job was to bring about, *)
(* and a chat answer is on record as Hermes gave it.                       *)
SuccessIsTrue ==
    CASE kind = "hermes.update" -> U!SuccessIsReal
      [] kind = "recovery.restore" -> R!SuccessIsComplete
      [] kind \in ConfigurationKinds -> C!SuccessApplied
      [] kind \in J!Kinds -> J!SuccessIsTrue
      [] kind = "chat.send" -> T!SuccessIsTrue

(* What the user has is not lost: an update changes nothing before the     *)
(* control plane has verified a backup of the data as they were, and a     *)
(* recorded target is installed; the former workspace survives every       *)
(* failed restore; a bad archive changes nothing; an output the registry   *)
(* calls ready is stored.                                                  *)
NothingLost ==
    CASE kind = "hermes.update" -> U!ChangesOnlyBehindBackup /\ U!RecordedTargetIsInstalled
      [] kind = "recovery.restore" -> R!OldWorkspaceKept /\ R!BadArchiveChangesNothing
      [] kind = "chat.send" -> T!ReadyIsStored
      [] OTHER -> TRUE

(* Containers exist only behind completely written files and run on the    *)
(* secrets of the file, through every crash and retry of a provisioning.   *)
RunsOnItsFiles == kind \in J!Kinds => J!RunsOnItsFiles

(* A restore cut off by a crash is not started with a workspace and data   *)
(* that do not belong together, as long as the volume is cleared entirely  *)
(* or not at all, rollbacks work and the execution is not canceled.        *)
RestoreRunsWhole ==
    kind = "recovery.restore" /\ faults \cap { "clear", "rollback", "cancel" } = {} =>
        R!RunsWhole

(* "Any post-write failure restores the previous environment, manifest,    *)
(* and Hermes YAML before the job completes": when no attempt is cut off,  *)
(* a failed job that does not give the instance up has put everything      *)
(* back, its readiness marker included; the MCP job even when attempts     *)
(* were canceled, because its rollback has a context of its own.           *)
ConfigurationRestored ==
    kind \in ConfigurationKinds =>
        /\ faults \cap { "cancel", "crash" } = {} => C!FailureRestored /\ C!MarkerMatches
        /\ kind = "mcp" /\ faults \cap { "rollback", "crash" } = {} => C!FailureWhole

(* A stopped instance is not started by a change of its configuration, in  *)
(* no rollback either.                                                     *)
StoppedStays == kind \in ConfigurationKinds => C!StoppedStays

(* The status a failed first attempt leaves on record is the state of the  *)
(* runtime, unless it is FAILED; an update that fails and leaves the old   *)
(* image leaves the old data.                                              *)
FirstFailureIsTrue ==
    CASE kind = "hermes.update" -> claims <= 1 => U!RecordedStatusIsTrue /\ U!OldImageHasOldData
      [] kind \in J!Kinds -> J!FirstFailureIsTrue
      [] OTHER -> TRUE

(* Every job of the provisioner ends, with a result or given up.           *)
JobsEnd == (job = "active") ~> (job # "active")

------------------------------------------------------------------------------
(* What the repository's documents and messages say, and the code does not  *)
(* keep (README, Disagreements).                                           *)

(* README.md: a failed installation uses the verified pre-update archive    *)
(* for rollback.                                                           *)
FailedUpdateHasOldData == kind = "hermes.update" => U!OldImageHasOldData

(* Only successful lease-fenced completion records the new image.          *)
OnlySuccessRecordsTarget == kind = "hermes.update" => U!OnlySuccessRecordsTarget

(* restoreRecoveryPoint: "original stopped state was restored".            *)
OriginalRestored == kind = "recovery.restore" => R!OriginalRestored

(* An independent bounded context rolls a partial restore back.            *)
RestoreEndsWhole == kind = "recovery.restore" => R!EndsWhole

(* A failed configuration job leaves one configuration, canceled or not.   *)
ConfigurationWhole == kind \in ConfigurationKinds => C!FailureWhole

(* A failed image repair leaves the recorded status true on every attempt. *)
FailureIsTrue == kind \in J!Kinds => J!FailureIsTrue

(* Deleting a chat session deletes its artifact directory.                 *)
DeletedChatIsGone == kind = "chat.send" => T!DeletedIsGone
==============================================================================
