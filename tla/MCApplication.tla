---------------------------- MODULE MCApplication ----------------------------
(* Application for TLC: any program of two modules, with and without a shutdown
   timeout, and the two servers of the repository, which set none. *)
EXTENDS Servers

CONSTANTS m1, m2, i1, i2, n1

AppModules == {m1, m2} \cup ServerModules
AppIids == {i1, i2} \cup ServerIids

\* Both modules carry the same name, so a registration by name may be refused.
NamesApp == [m \in AppModules |-> IF m \in {m1, m2} THEN n1 ELSE m]
DepsApp == {m1 :> {i2} @@ m2 :> {} @@ Declared, m1 :> {} @@ m2 :> {i1} @@ Declared}

AnyMain ==
    /\ MainStep
    /\ \A i \in 1 .. Len(reg') : reg'[i].m \in {m1, m2} /\ reg'[i].iid \in {i1, i2, NoKey}
    /\ released' \cup refused' \subseteq {m1, m2}

ProgramInit ==
    /\ AppInit
    /\ assembly \in {"any"} \cup DOMAIN Assembly
    /\ assembly # "any" => shutdownTimeoutMs = 0 /\ deps[m1] = {}

ProgramMain ==
    /\ (assembly = "any" /\ AnyMain) \/ (assembly # "any" /\ ServerMain)
    /\ UNCHANGED assembly

ProgramNext == ProgramMain \/ ((HandleSignal \/ Stop) /\ UNCHANGED assembly)

ProgramSpec == ProgramInit /\ [][ProgramNext]_serversVars

\* Fairness of the main thread, as in AppFairSpec; only Run() and what follows need it.
ProgramFairness == WF_serversVars(pc \notin {"register", "onInitialize"} /\ ProgramMain)
==============================================================================
