----------------------------- MODULE MCPromiseChain -----------------------------
(* TLC instances of PromiseChain. *)
EXTENDS PromiseChain, TLC

CONSTANTS r, s, a, b, f, p1, n3

\* r.ThenPromise(p1, whose factory starts s).Catch(b).Finally(f)
ModeLine == (r :> "handler") @@ (p1 :> "promise") @@ (s :> "starter")
            @@ (b :> "catch") @@ (f :> "finally")
UpLine == (p1 :> r) @@ (b :> p1) @@ (f :> b)
ChildLine == p1 :> s

\* A starter layer s and a then on it, with notices on both.
ModeNotices == (s :> "starter") @@ (a :> "then")
UpNotices == a :> s
TargetsNotices == [n \in Notices |-> IF n = n3 THEN a ELSE s]

NoChild == <<>>
NoTargets == <<>>
AwaitA == [x \in Awaiters |-> a]
ThreadSymmetry == Permutations(Users) \cup Permutations(Workers)
===============================================================================
