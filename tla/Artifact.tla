------------------------------ MODULE Artifact ------------------------------
(***************************************************************************)
(* leancert/export.py and leancert/verification.py: exporters, each in its  *)
(* own process, turn a proved claim into a project directory; a verifier    *)
(* (`leancert verify`) finds such directories and checks them again.  They  *)
(* share nothing but the file system.  A process may be killed between any  *)
(* two steps.                                                               *)
(*                                                                          *)
(* The bytes of a file are what they depend on: the theorems it states for  *)
(* the Lean source, the provenance for provenance.json, the claim for the   *)
(* others.  A digest stands for the bytes.                                  *)
(***************************************************************************)
EXTENDS Rendering, FiniteSets

CONSTANTS
    Exporters,   \* processes that export, also the names of their staging directories
    Dests,       \* names of requested output directories, siblings of the staging ones
    Sound,       \* theorems of which the Lean kernel accepts the proof
    Requests,    \* exporter -> exports that it may be asked for
    Present,     \* destination -> what is there at the start (Absent or a project)
    Files,       \* files of a project, in the order they are written
    Mortal,      \* exporters that may be killed
    Absent       \* no directory of that name

Names  == Exporters \cup Dests

Request == [result : Result, dest : Dests, verify : BOOLEAN]

(* All but the last, README.md, are listed in the manifest. *)
Required == ToSet(Front(Files))

(* A project directory; by: who made it ("user" for one that was there).    *)
Manifest == [claim : SUBSET Statement, source : SUBSET Statement, prov : Provenance]
Project  == [by : Exporters \cup {"user"}, files : SUBSET ToSet(Files),
             claim : SUBSET Statement, source : SUBSET Statement, prov : Provenance,
             manifest : Manifest \cup {None}]

(* What a call returns that exported. *)
Success == {"prepared", "verified"}

ASSUME ArtifactAssumption ==
    /\ Sound \subseteq Statement
    /\ Files \in Seq(STRING) /\ Files # << >> /\ IsInjective(Files)
    /\ Requests \in [Exporters -> SUBSET Request]
    /\ \A e \in Exporters : \A r \in Requests[e] : Faithful(r.result)
    /\ None \notin Request \cup Certificate \cup Manifest \cup Names \cup Success \cup {"env"}
    /\ Absent \notin Project
    /\ Exporters \cap Dests = {} /\ "user" \notin Exporters
    /\ Present \in [Dests -> Project \cup {Absent}]
    /\ \A d \in Dests : Present[d] # Absent => Present[d].by = "user"
    /\ Mortal \subseteq Exporters

VARIABLES
    dirs,      \* name -> the directory of that name
    pc,        \* exporter -> where it is
    request,   \* exporter -> its arguments
    outcome,   \* exporter -> what the call returned
    vpc,       \* where the verifier is
    failFast,  \* --fail-fast
    todo,      \* projects discovered and not yet looked at
    project,   \* the one being looked at
    manifest,  \* the manifest read for it
    results,   \* project -> status
    exit       \* what `leancert verify` returned

exporterVars == <<pc, request, outcome>>
verifierVars == <<vpc, failFast, todo, project, manifest, results, exit>>
vars == <<dirs, exporterVars, verifierVars>>

Outcomes == {None, "unsupported", "exists", "raised", "unavailable", "limit", "mismatch"} \cup Success
Statuses == {"verified", "verification_failed", "invalid_artifact", "infrastructure_failure",
             "resource_limit"}

TypeOK ==
    /\ dirs \in [Names -> Project \cup {Absent}]
    /\ pc \in [Exporters -> {"idle", "write", "manifest", "check", "rewrite", "publish",
                             "cleanup", "done", "killed"}]
    /\ request \in [Exporters -> Request \cup {None}]
    /\ outcome \in [Exporters -> Outcomes]
    /\ vpc \in {"idle", "next", "files", "open", "source", "done"}
    /\ failFast \in BOOLEAN
    /\ todo \subseteq Names /\ project \in Names \cup {None}
    /\ manifest \in Manifest \cup {None}
    /\ DOMAIN results \subseteq Names /\ \A n \in DOMAIN results : results[n] \in Statuses
    /\ exit \in (0..4) \cup {-1, -2}     \* -1: still running, -2: an exception

Init ==
    /\ dirs = [n \in Names |-> IF n \in Dests THEN Present[n] ELSE Absent]
    /\ pc = [e \in Exporters |-> "idle"]
    /\ request = [e \in Exporters |-> None]
    /\ outcome = [e \in Exporters |-> None]
    /\ vpc = "idle" /\ failFast = FALSE /\ todo = {} /\ project = None /\ manifest = None
    /\ results = << >> /\ exit = -1

-----------------------------------------------------------------------------
(* Exporter *)

(* Mutant of Place: the project is built at its destination. *)
PlaceAtDest(e) == request[e].dest

(* The directory an exporter writes to: a fresh sibling of the destination. *)
Place(e) == e

At(e, from, to) == pc[e] = from /\ pc' = [pc EXCEPT ![e] = to]
Ends(e, what) == outcome' = [outcome EXCEPT ![e] = what]

(* Mutant of Exportable: an abbreviated revision is enough. *)
ExportableAbbreviated(r) ==
    /\ r.prov.toolchain # None /\ r.prov.source = "canonical" /\ r.prov.revision # None
    /\ r.kind = "bound" => r.prov.toolchain = "released"
    /\ Source(r) # {}

(* Dependency identities that an export needs (only export_verified_bound   *)
(* looks at the form of the toolchain), and a source that can be rendered.  *)
Exportable(r) ==
    /\ r.prov.toolchain # None /\ r.prov.source = "canonical" /\ r.prov.revision = "full"
    /\ r.kind = "bound" => r.prov.toolchain = "released"
    /\ Source(r) # {}

Unsupported(e, r) ==
    /\ request' = [request EXCEPT ![e] = r]
    /\ At(e, "idle", "done") /\ Ends(e, "unsupported")
    /\ UNCHANGED <<dirs, verifierVars>>

(* The calls begin alike, for a request r. *)
Start(e, r) ==
    \/ ~Exportable(r.result) /\ Unsupported(e, r)
    \/ /\ Exportable(r.result) /\ dirs[r.dest] # Absent
       /\ request' = [request EXCEPT ![e] = r]
       /\ At(e, "idle", "done") /\ Ends(e, "exists")
       /\ UNCHANGED <<dirs, verifierVars>>
    \/ /\ Exportable(r.result) /\ dirs[r.dest] = Absent
       /\ request' = [request EXCEPT ![e] = r]
       /\ dirs' = [dirs EXCEPT ![Place(e)'] =
                     [by |-> e, files |-> {}, claim |-> Claim(r.result),
                      source |-> Source(r.result), prov |-> r.result.prov, manifest |-> None]]
       /\ At(e, "idle", "write")
       /\ UNCHANGED <<outcome, verifierVars>>

Asked(e, kind) == {r \in Requests[e] : r.result.kind = kind}

ExportBound(e)         == \E r \in Asked(e, "bound") : Start(e, r)
ExportSystemRoot(e)    == \E r \in Asked(e, "system_root") : Start(e, r)
ExportEventualBound(e) == \E r \in Asked(e, "eventual_bound") : Start(e, r)
ExportScalarRoot(e)    == \E r \in Asked(e, "scalar_root") : Start(e, r)
ExportIntegral(e)      == \E r \in Asked(e, "integral") : Start(e, r)

(* A conjunction is exported as one bound with the checks of its members.   *)
ExportConjunction(e) ==
    \E r \in Asked(e, "conjunction") :
      \/ ~Composable(r.result) /\ Unsupported(e, r)
      \/ Composable(r.result) /\ Start(e, [r EXCEPT !.result = Composed(r.result)])

Mine(e) == dirs[Place(e)]
Written(e) == Cardinality(Mine(e).files)

WriteFile(e) ==
    /\ At(e, "write", IF Written(e) + 1 = Len(Files) THEN "manifest" ELSE "write")
    /\ dirs' = [dirs EXCEPT ![Place(e)].files = @ \cup {Files[Written(e) + 1]}]
    /\ UNCHANGED <<request, outcome, verifierVars>>

(* The digests of the files as they are now. *)
WriteManifest(e) ==
    /\ At(e, "manifest", IF request[e].verify THEN "check" ELSE "publish")
    /\ dirs' = [dirs EXCEPT ![Place(e)].manifest =
                  [claim |-> Mine(e).claim, source |-> Mine(e).source, prov |-> Mine(e).prov]]
    /\ UNCHANGED <<request, outcome, verifierVars>>

(* A write or the making of a directory fails: an exception. *)
WriteFails(e) ==
    /\ pc[e] \in {"write", "manifest", "rewrite"}
    /\ pc' = [pc EXCEPT ![e] = "cleanup"] /\ Ends(e, "raised")
    /\ UNCHANGED <<dirs, request, verifierVars>>

Pinned(prov) == prov.env # None \/ prov.package # None

(* The kernel replays a source: it accepts what is sound. *)
Replayed(source) == {IF source \subseteq Sound THEN "verified" ELSE "mismatch", "limit"}

(* _verify_in_managed_environment.  Resolving a package may raise what is   *)
(* not a LeanRuntimeError.                                                  *)
KernelCheck(e) ==
    /\ pc[e] = "check"
    /\ \E answer \in IF Pinned(request[e].result.prov)
                       THEN {"unavailable"} \cup Replayed(Mine(e).source)
                              \cup (IF request[e].result.prov.env = None THEN {"raised"} ELSE {})
                       ELSE {"unsupported"} :
         IF answer = "verified"
           THEN At(e, "check", "rewrite") /\ UNCHANGED outcome
           ELSE At(e, "check", "cleanup") /\ Ends(e, answer)
    /\ UNCHANGED <<dirs, request, verifierVars>>

(* provenance.json is written again, naming the environment of the replay.  *)
Rewrite(e) ==
    /\ At(e, "rewrite", "publish")
    /\ dirs' = [dirs EXCEPT ![Place(e)].prov = [@ EXCEPT !.env = "env", !.lock = "lock"]]
    /\ UNCHANGED <<request, outcome, verifierVars>>

(* Mutant of Free: a rename replaces whatever is there. *)
FreeAlways(d) == TRUE

(* rename(2) refuses a directory that is not empty. *)
Free(d) == dirs[d] = Absent

(* Mutant of Publish: wait until the destination is free. *)
PublishWhenFree(e) ==
    /\ At(e, "publish", "done") /\ Free(request[e].dest)
    /\ dirs' = [dirs EXCEPT ![request[e].dest] = Mine(e), ![Place(e)] = Absent]
    /\ Ends(e, IF request[e].verify THEN "verified" ELSE "prepared")
    /\ UNCHANGED <<request, verifierVars>>

(* The staging directory becomes the destination in one step. *)
Publish(e) ==
    LET d == request[e].dest IN
    /\ pc[e] = "publish"
    /\ \/ /\ Free(d)
          /\ dirs' = [dirs EXCEPT ![d] = Mine(e), ![Place(e)] = Absent]
          /\ At(e, "publish", "done")
          /\ Ends(e, IF request[e].verify THEN "verified" ELSE "prepared")
       \/ /\ ~Free(d)
          /\ At(e, "publish", "cleanup") /\ Ends(e, "raised")
          /\ UNCHANGED dirs
    /\ UNCHANGED <<request, verifierVars>>

(* Mutant of Leftover: only an exception removes the staging directory.     *)
LeftoverUnlessRaised(e) == IF outcome[e] = "raised" THEN Absent ELSE Mine(e)

(* `finally`: the staging directory is removed unless it was published. *)
Leftover(e) == Absent

Cleanup(e) ==
    /\ At(e, "cleanup", "done")
    /\ dirs' = [dirs EXCEPT ![Place(e)] = Leftover(e)]
    /\ UNCHANGED <<request, outcome, verifierVars>>

(* The process is killed; `finally` does not run. *)
Killed(e) ==
    /\ e \in Mortal /\ pc[e] \notin {"idle", "done", "killed"}
    /\ pc' = [pc EXCEPT ![e] = "killed"]
    /\ UNCHANGED <<dirs, request, outcome, verifierVars>>

-----------------------------------------------------------------------------
(* Verifier *)

HasManifest(n) == dirs[n] # Absent /\ dirs[n].manifest # None

(* Exit code of a report: what could not be decided outranks what failed.   *)
ExitCode(statuses) ==
    CASE statuses = {} -> 2
      [] "infrastructure_failure" \in statuses -> 3
      [] "resource_limit" \in statuses -> 4
      [] "invalid_artifact" \in statuses -> 2
      [] "verification_failed" \in statuses -> 1
      [] OTHER -> 0

Forget == project' = None /\ manifest' = None
Finish(code) == vpc' = "done" /\ exit' = code /\ Forget

(* The command is run on one directory, or on the parent of them all.  No   *)
(* project in it is an invalid artifact.                                    *)
Discover ==
    /\ vpc = "idle"
    /\ failFast' \in BOOLEAN
    /\ \E roots \in {Names} \cup {{d} : d \in Dests} :
         todo' = {n \in roots : HasManifest(n)}
    /\ IF todo' = {} THEN Finish(2) ELSE vpc' = "next" /\ UNCHANGED <<exit, project, manifest>>
    /\ UNCHANGED <<dirs, exporterVars, results>>

(* Mutant of Add: the project is forgotten before its status is filed.      *)
AddForgotten(n, status) == [m \in DOMAIN results \cup {None} |-> IF m = None THEN status ELSE results[m]]

Add(n, status) == [m \in DOMAIN results \cup {n} |-> IF m = n THEN status ELSE results[m]]

(* Mutant of Halts: --fail-fast stops after the first project. *)
HaltsAtOnce(status) == failFast

(* --fail-fast stops after the first project that is not verified. *)
Halts(status) == failFast /\ status # "verified"

(* A status for the project under way; the report is made when no project   *)
(* is left.                                                                 *)
Record(status) ==
    /\ results' = Add(project, status)
    /\ IF todo = {} \/ Halts(status)
         THEN Finish(ExitCode({results'[n] : n \in DOMAIN results'}))
         ELSE vpc' = "next" /\ Forget /\ UNCHANGED exit
    /\ UNCHANGED <<dirs, exporterVars, failFast, todo>>

(* _validate_project reads the manifest first, ... *)
ReadManifest ==
    /\ vpc = "next"
    /\ \E n \in todo :
         /\ project' = n /\ todo' = todo \ {n}
         /\ vpc' = "files"
         /\ manifest' = IF HasManifest(n) THEN dirs[n].manifest ELSE None
    /\ UNCHANGED <<dirs, exporterVars, failFast, results, exit>>

(* ... then it compares every digest, and reads what it compared. *)
Validates(p, m) ==
    /\ m # None /\ p # Absent /\ Required \subseteq p.files
    /\ m.claim = p.claim /\ m.source = p.source /\ m.prov = p.prov
    /\ p.prov.toolchain = "released" /\ p.prov.source = "canonical" /\ p.prov.revision = "full"
    /\ Pinned(p.prov)

ValidateFiles ==
    /\ vpc = "files"
    /\ IF Validates(dirs[project], manifest)
         THEN vpc' = "open" /\ UNCHANGED <<dirs, exporterVars, failFast, todo, project, manifest, results, exit>>
         ELSE Record("invalid_artifact")

(* The environment is opened; it may be unavailable, and resolving a        *)
(* package may raise what the verifier does not catch.                      *)
OpenEnvironment ==
    /\ vpc = "open"
    /\ \/ /\ vpc' = "source"
          /\ UNCHANGED <<dirs, exporterVars, failFast, todo, project, manifest, results, exit>>
       \/ Record("infrastructure_failure")
       \/ /\ manifest.prov.env = None
          /\ Finish(-2) /\ UNCHANGED <<dirs, exporterVars, failFast, todo, results>>

(* The source is read, again, and checked.  That the file is gone by then   *)
(* is an error outside the handler: the report is lost and the exit code 2. *)
CheckSource ==
    /\ vpc = "source"
    /\ IF dirs[project] = Absent
         THEN Finish(2) /\ UNCHANGED <<dirs, exporterVars, failFast, todo, results>>
         ELSE \E answer \in Replayed(dirs[project].source) :
                Record(CASE answer = "verified" -> "verified"
                         [] answer = "mismatch" -> "verification_failed"
                         [] answer = "limit" -> "resource_limit")

(* The managed environment fails to execute the check. *)
ExecutionFails ==
    /\ vpc = "source" /\ dirs[project] # Absent
    /\ Record("infrastructure_failure")

-----------------------------------------------------------------------------
Calls(e) ==
    \/ ExportBound(e) \/ ExportSystemRoot(e) \/ ExportEventualBound(e)
    \/ ExportScalarRoot(e) \/ ExportIntegral(e) \/ ExportConjunction(e)

Exporting(e) ==
    \/ WriteFile(e) \/ WriteManifest(e) \/ WriteFails(e) \/ KernelCheck(e) \/ Rewrite(e)
    \/ Publish(e) \/ Cleanup(e)

Verifying ==
    ReadManifest \/ ValidateFiles \/ OpenEnvironment \/ CheckSource \/ ExecutionFails

Next ==
    \/ \E e \in Exporters : Calls(e) \/ Exporting(e) \/ Killed(e)
    \/ Discover
    \/ Verifying

(* A call that was made runs on; nobody has to make one.                    *)
Fairness == WF_vars(Verifying) /\ \A e \in Exporters : WF_vars(Exporting(e))

Spec == Init /\ [][Next]_vars /\ Fairness

-----------------------------------------------------------------------------
(* Properties *)

Published(e) == \E d \in Dests : dirs[d] # Absent /\ dirs[d].by = e
Complete(p)  == p.files = ToSet(Files) /\ p.manifest # None

(* What an exporter leaves at the destination is complete at every moment,  *)
(* wherever it is killed, whatever fails and whoever exports there too; and *)
(* when a rebuild was requested, the claim that was proved is among the     *)
(* theorems that the kernel accepted: rendering loses no comparison of it.  *)
(* Build rejection, missing tooling and the time limit publish nothing.     *)
AtomicPublication ==
    \A e \in Exporters : \A d \in Dests :
      dirs[d] # Absent /\ dirs[d].by = e =>
        /\ Complete(dirs[d])
        /\ request[e].verify => dirs[d].claim \subseteq Sound

(* An exporter reports a project exactly when it published one.             *)
ReportedAsPublished ==
    \A e \in Exporters : outcome[e] \in Success <=> Published(e)

(* The claim that a call is to export; a conjunction has become a bound by  *)
(* then, unless it was refused.                                             *)
Ordered(q) == IF q.result.kind = "conjunction" THEN {} ELSE Claim(q.result)

Item(d) == [place |-> d, project |-> dirs[d], whole |-> Complete(dirs[d])]
Order(e) ==
    [client |-> e, place |-> request[e].dest, claim |-> Ordered(request[e]),
     rebuild |-> request[e].verify]
Told(e) == [client |-> e, said |-> IF outcome[e] \in Success THEN outcome[e] ELSE "failed"]

Promise == INSTANCE Shelf WITH
    Clients  <- Exporters,
    Accepted <- Sound,
    shelf    <- {Item(d) : d \in {x \in Dests : dirs[x] # Absent}},
    orders   <- {Order(e) : e \in {x \in Exporters : request[x] # None}},
    answers  <- {Told(e) : e \in {x \in Exporters : outcome[x] # None}}

(* What a caller sees of the exporters is Shelf: out of all the writing,    *)
(* checking, renaming, failing and being killed, a project appears at its   *)
(* destination in one step, whole, with the claim that was asked for, never *)
(* over another one nor after the call has failed, and stays as it is.      *)
ShelfSpec == Promise!Spec

(* What is at a destination stays as it is: an exporter that was overtaken  *)
(* between its check for the destination and its rename does not replace    *)
(* the project of the other one.                                            *)
NeverOverwritten == [][\A d \in Dests : dirs[d] # Absent => dirs'[d] = dirs[d]]_vars

(* An export that was not killed leaves no staging directory behind.        *)
NoLitter == \A e \in Exporters : pc[e] = "done" => dirs[e] = Absent

(* All or nothing, of every exporter: it says that it published a project if *)
(* and only if it left one at the destination, that one is complete and states *)
(* what was proved, and of anything else nothing is left unless it was killed. *)
AllOrNothing == AtomicPublication /\ ReportedAsPublished /\ NoLitter

(* Exit code 0 means that every project discovered was validated and that   *)
(* the kernel accepts its source, while exporters may still be publishing,   *)
(* renaming and removing the directories that were found.                   *)
ExitZero ==
    exit = 0 =>
      /\ todo = {} /\ results # << >>
      /\ \A n \in DOMAIN results :
           /\ results[n] = "verified"
           /\ dirs[n] # Absent => dirs[n].source \subseteq Sound /\ Pinned(dirs[n].prov)

(* What an exporter published without a rebuild, with a pinned environment  *)
(* and a released toolchain, is valid for whoever verifies it later.        *)
PreparedValidates ==
    \A d \in Dests : \A e \in Exporters :
      dirs[d] # Absent /\ dirs[d].by = e /\ outcome[e] = "prepared"
        /\ Pinned(dirs[d].prov) /\ dirs[d].prov.toolchain = "released" =>
          Validates(dirs[d], dirs[d].manifest)

(* The manifest of a project that was exported and rebuilt binds the files  *)
(* of that project: it validates.                                           *)
ManifestBinds ==
    \A d \in Dests : \A e \in Exporters :
      dirs[d] # Absent /\ dirs[d].by = e /\ outcome[e] = "verified" =>
        dirs[d].manifest.prov = dirs[d].prov

(* Every export and every verification ends, unless it is killed.           *)
Busy == vpc \notin {"idle", "done"} \/ \E e \in Exporters : pc[e] \notin {"idle", "done", "killed"}
CallsEnd == Busy ~> ~Busy
=============================================================================
