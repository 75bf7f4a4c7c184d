----------------------------- MODULE MCComponents -----------------------------
(***************************************************************************)
(* The three programs of the repository on the handle table: every          *)
(* behaviour is a call of the proxy's handler, a call of the hello          *)
(* component, or a plugin's host calls. The two that do not run stay where  *)
(* they are.                                                                *)
(***************************************************************************)
EXTENDS ProxyResources, HelloComponent, HostCalls

VARIABLE program   \* which of the three

(* The variables of the three programs.                                     *)
MCNames == Locals \cup HelloLocals \cup HostLocals

(* A host that takes the lowest or the highest free index next.             *)
FirstOrLast(F) ==
  {h \in F : (\A g \in F : h <= g) \/ (\A g \in F : h >= g)}

proxyOnly == <<at, dir>>
helloOnly == <<helloAt, sent, eager>>
hostOnly == <<callAt, hostCallVars>>
allVars == <<program, resourceVars, proxyOnly, helloOnly, hostOnly>>

NoProxy == at = "none" /\ dir = "none"
NoHello == helloAt = "none" /\ sent = "program" /\ eager = FALSE
NoHostCalls ==
  /\ callAt = "none" /\ message = NoMessage /\ logged = <<>> /\ console = <<>>
  /\ answer = <<>> /\ calls = 0

MCInit ==
  \/ program = "proxy" /\ Init /\ NoHello /\ NoHostCalls
  \/ program = "hello" /\ HelloInit /\ NoProxy /\ NoHostCalls
  \/ program = "host calls" /\ HostInit /\ NoProxy /\ NoHello

MCNext ==
  /\ UNCHANGED program
  /\ \/ program = "proxy" /\ Next /\ UNCHANGED <<helloOnly, hostOnly>>
     \/ program = "hello" /\ HelloNext /\ UNCHANGED <<proxyOnly, hostOnly>>
     \/ program = "host calls" /\ HostNext /\ UNCHANGED <<proxyOnly, helloOnly>>

(* The fairness of HelloComponent.                                          *)
OfHello(A) ==
  program = "hello" /\ fate = "running" /\ A /\ UNCHANGED <<program, proxyOnly, hostOnly>>
MCFairness == WF_allVars(OfHello(HelloHandle)) /\ WF_allVars(OfHello(Transmit))

MCSpec == MCInit /\ [][MCNext]_allVars /\ MCFairness

-----------------------------------------------------------------------------
(* Neither component breaks a rule of its resources: no parent is dropped   *)
(* before its children, nothing taken twice, no future asked too early.     *)
ComponentsKeepRules == program # "host calls" => RulesKept

(* A component that returns has set the outparam and finished its bodies.   *)
(* A host call that returns leaves no handle of a stream behind.            *)
NothingLeft ==
  /\ NothingAbandoned
  /\ callAt = "plugin" /\ fate = "running" => \A h \in Handles : ~Live(h)
=============================================================================
