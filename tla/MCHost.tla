------------------------------- MODULE MCHost -------------------------------
(***************************************************************************)
(* The components with a liveness property, that share no variable and are *)
(* checked one after another as in MCServices: the first step chooses the  *)
(* one that moves, and only that one is scheduled.                         *)
(***************************************************************************)
EXTENDS MCPatchEngine, HotkeyHook, HttpServer, Injection

\* Files of up to three lines in any order, the lines of the first two cells
\* contiguous, with jumps to anywhere.
SmallLines == {PlainAt(c, {c}, target) : c \in {1, 2, 4, 6}, target \in {NoCell, 1, 2, 4, 6}}
SmallFiles ==
  {lines \in UNION {[1..n -> SmallLines] : n \in 1..3} :
     \A i, k \in DOMAIN lines : Cells(lines[i]) = Cells(lines[k]) => i = k}

Reordered(plan, f) == [i \in DOMAIN plan |-> plan[f[i]]]

\* Where the blocks can be ordered so that each comes before those that jump to
\* it, the plan has them so; where jumps go in a circle no order does.
ASSUME TargetsFirstWherePossible ==
  \A lines \in SmallFiles :
    LET plan == BuildPlan(lines)
    IN  (\E f \in Permutations(DOMAIN plan) : TargetsFirst(Reordered(plan, f)))
          => TargetsFirst(plan)

\* So do the plans of the patches of all runs.
ASSUME FilesInOrder == \A p \in DOMAIN Files : TargetsFirst(BuildPlan(Files[p]))

VARIABLE part

HostInit ==
  /\ part \in {"patches", "hotkey", "http", "injection"}
  /\ Init /\ HotkeyInit /\ HttpInit /\ InjectionInit
  /\ part # "patches" => fault = NoFault
  /\ part # "hotkey" => shell.hooked = {} /\ console = "off"
  /\ part # "http" => old = "gone"

HostNext ==
  \/ part = "patches" /\ Next /\ UNCHANGED <<part, hotkeyVars, httpVars, injectionVars>>
  \/ part = "hotkey" /\ HotkeyNext /\ UNCHANGED <<part, vars, httpVars, injectionVars>>
  \/ part = "http" /\ HttpNext /\ UNCHANGED <<part, vars, hotkeyVars, injectionVars>>
  \/ part = "injection" /\ InjectionNext /\ UNCHANGED <<part, vars, hotkeyVars, httpVars>>

\* Each module's own fairness, of the part that moves.
HostFairness ==
  /\ \A t \in Threads : WF_vars(part = "patches" /\ Work(t))
  /\ WF_vars(part = "patches" /\ Poll) /\ WF_vars(part = "patches" /\ Undo)
  /\ WF_hotkeyVars(part = "hotkey" /\ HookThread)
  /\ WF_hotkeyVars(part = "hotkey" /\ (Ripen \/ WatcherReports))
  /\ WF_httpVars(part = "http" /\ Main) /\ WF_httpVars(part = "http" /\ ListenWatchdog)
  /\ WF_httpVars(part = "http" /\ Killer) /\ WF_httpVars(part = "http" /\ ServerThread)
  /\ WF_injectionVars(part = "injection" /\ Injector)
  /\ WF_injectionVars(part = "injection" /\ ExecWatchdog)
  /\ WF_injectionVars(part = "injection" /\ OtherUnlocks)
  /\ SF_injectionVars(part = "injection" /\ TakesLock)

Host ==
  HostInit /\ [][HostNext]_<<part, vars, hotkeyVars, httpVars, injectionVars>> /\ HostFairness

\* Every variable of every part has its type.
HostTypeOK == TypeOK /\ HotkeyTypeOK /\ HttpTypeOK /\ InjectionTypeOK
=============================================================================
