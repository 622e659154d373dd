------------------------------- MODULE MCTasks -------------------------------
(***************************************************************************)
(* What goes on in the background, in one run of TLC with its fairness: a  *)
(* behaviour picks the circuit breaker, the orphan clean-up, the           *)
(* notifications or the catalogue, and takes steps of that one only.       *)
(***************************************************************************)
EXTENDS DtBreaker, OrphanCleanup, Notices, Catalogue

CONSTANTS lib, tool, cve1, cve2, leader

VARIABLE kind

tasksVars == <<kind, vars, cleanupVars, noticeVars, catalogueVars>>

\* A part that takes no steps starts in one state.
TasksInit ==
  /\ kind \in {"breaker", "cleanup", "notices", "catalogue"}
  /\ Init /\ CleanupInit /\ NoticeInit /\ CatalogueInit
  /\ catalogue \in IF kind = "catalogue" THEN {{}, {"source"} \X Packages} ELSE {{}}

\* A bound: of the transactions of the catalogue, which are alike, one begins first.
InTurn == tx[leader].pc = "idle" => \A w \in Writers \ {leader} : tx'[w].pc = "idle"

TasksNext ==
  /\ UNCHANGED kind
  /\ \/ kind = "breaker" /\ Next /\ UNCHANGED <<cleanupVars, noticeVars, catalogueVars>>
     \/ kind = "cleanup" /\ CleanupNext /\ UNCHANGED <<vars, noticeVars, catalogueVars>>
     \/ kind = "notices" /\ NoticeNext /\ UNCHANGED <<vars, cleanupVars, catalogueVars>>
     \/ kind = "catalogue" /\ CatalogueNext /\ InTurn
        /\ UNCHANGED <<vars, cleanupVars, noticeVars>>

\* The fairness of FairSpec, CleanupSpec, NoticeSpec and CatalogueSpec, each for
\* its part.
TasksFairness ==
  /\ \A c \in Clients : WF_vars(kind = "breaker" /\ Continue(c))
  /\ \A c \in Regular : WF_vars(kind = "breaker" /\ Enter(c))
  /\ \A m \in Monitors : WF_vars(kind = "breaker" /\ Beat(m))
  /\ WF_vars(kind = "breaker" /\ Tick)
  /\ WF_cleanupVars(ExpireLock)
  /\ NoticeFairness
  /\ CatalogueFairness

TasksSpec == TasksInit /\ [][TasksNext]_tasksVars /\ TasksFairness

\* The variables of every part stay in their domains.
TasksTypeOK == TypeOK /\ CleanupTypeOK /\ NoticeTypeOK /\ CatalogueTypeOK

\* An image with two vulnerabilities in one package.
TwoInOne == {<<lib, cve1>>, <<lib, cve2>>}
===============================================================================
