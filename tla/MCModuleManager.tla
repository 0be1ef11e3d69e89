--------------------------- MODULE MCModuleManager ---------------------------
(* ModuleManager for TLC.  Behaviours of mode "life" make any calls on up to
   three modules and two interfaces; those of mode "assembly" register four
   modules by interface, with every choice of dependencies over three. *)
EXTENDS ModuleManager

CONSTANTS m1, m2, m3, m4, i1, i2, i3, n1

\* m1 is registered by interface only; m2 and m3 compete for one name.
NamesFour == m1 :> NoKey @@ m2 :> n1 @@ m3 :> n1 @@ m4 :> NoKey

AllDeps == [Modules -> SUBSET Iids]
\* Chain, fan-in, cycle, self-dependency and missing provider.
SomeDeps == {
    m1 :> {} @@ m2 :> {i1} @@ m3 :> {i2} @@ m4 :> {},
    m1 :> {i2} @@ m2 :> {} @@ m3 :> {i1} @@ m4 :> {},
    m1 :> {i2} @@ m2 :> {i1} @@ m3 :> {i1} @@ m4 :> {}}

VARIABLE mode

MCInit == mode \in {"life", "assembly"} /\ Init /\ (mode = "life" => deps \in SomeDeps)

LifeNext ==
    /\ mode = "life" /\ Next
    /\ \A i \in 1 .. Len(reg') : reg'[i].m # m4 /\ reg'[i].iid # i3
    /\ m4 \notin released' \cup refused'

\* Which module is registered k-th, and under which interface the first one is,
\* is a matter of naming: deps takes every value.
AssemblyNext ==
    /\ mode = "assembly"
    /\ \/ \E iid \in Iids :
            /\ Len(reg) < 4 /\ (reg = <<>> => iid = i1)
            /\ RegisterByIid(<<m1, m2, m3, m4>>[Len(reg) + 1], iid)
       \/ Len(reg) = 4 /\ UNCHANGED vars

MCNext == (LifeNext \/ AssemblyNext) /\ UNCHANGED mode
MCSpec == MCInit /\ [][MCNext]_<<mode, vars>>

\* Whatever is registered in whichever order, ComputeStartOrder is right.
AssemblyOrdered == mode = "assembly" => StartOrderCorrect
==============================================================================
