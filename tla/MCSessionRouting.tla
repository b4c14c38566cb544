------------------------- MODULE MCSessionRouting -------------------------
(* SessionRouting with two or three providers, one sort mode and the default *)
(* route.                                                                    *)
EXTENDS SessionRouting, TLC

CONSTANTS p1, p2, p3, m1, s1, s2, s3

Symmetry == Permutations(Requests)
OtherSessions == Permutations(Sessions \ {s1})

Route(mode, default, template) ==
    [active |-> mode, lists |-> (None :> default) @@ (m1 :> template)]

\* A provider is enabled, the order changes, the active mode is switched.
TwoProviders == {Route(None, <<p1>>, <<p1>>), Route(m1, <<p1>>, <<p2, p1>>)}

\* A provider leaves, the order changes, a sort mode is emptied.
ThreeProviders ==
    {Route(None, <<p1, p2, p3>>, <<p2, p3, p1>>), Route(m1, <<p3, p1>>, <<>>)}

Call(s, reuse, forced) == [session |-> s, reuse |-> reuse, forced |-> forced]

\* Every kind of request of one session, and other sessions that take its place.
AnyCall == {Call(s1, TRUE, None), Call(s1, FALSE, None), Call(s1, TRUE, p2)}
           \cup {Call(s, TRUE, None) : s \in Sessions \ {s1}}

\* A conversation, and requests without a session that force their provider.
Talk == {Call(s1, TRUE, None), Call(None, FALSE, p1)}

\* Requests without a session.
Plain == {Call(None, FALSE, None)}
===========================================================================
