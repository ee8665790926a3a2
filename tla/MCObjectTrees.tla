--------------------------- MODULE MCObjectTrees ---------------------------
(* Command lines and names for ObjectTrees: a prefix d with and without its *)
(* slash, a key that only starts like it, a marker of the directory and one   *)
(* of a directory in it, and a prefix within d.                              *)
EXTENDS ObjectTrees

NameTokens == {"d", "e", "x", "y", "/"}
TreeKeys == {<<"d", "/", "x">>, <<"d", "x">>, <<"d", "/">>, <<"d", "/", "x", "/">>,
             <<"e", "/", "x">>}
TreeFiles == {<<"x">>, <<"y">>}

Sides ==
    {<<"upload", <<>>, <<"e", "/">>>>, <<"upload", <<>>, <<"e">>>>,
     <<"download", <<"d">>, <<>>>>, <<"download", <<"d", "/">>, <<>>>>,
     <<"copy", <<"d">>, <<"e">>>>, <<"copy", <<"d", "/">>, <<"e", "/">>>>}
\* One prefix is the other, or within it.
Nested ==
    {<<"copy", <<"d", "/">>, <<"d", "/">>>>, <<"copy", <<"d", "/">>, <<"d", "/", "x">>>>}
One(op, s) ==
    [op |-> op, tree |-> FALSE, way |-> s[1], src |-> s[2], dst |-> s[3], delete |-> FALSE,
     exact |-> FALSE, dryrun |-> FALSE, excluded |-> {}]
Line(op, s, delete, exact, dryrun, excluded) ==
    [op |-> op, tree |-> TRUE, way |-> s[1], src |-> s[2], dst |-> s[3], delete |-> delete,
     exact |-> exact, dryrun |-> dryrun, excluded |-> excluded]

CommandLines ==
    {Line(op, s, FALSE, FALSE, dryrun, x) :
        op \in {"cp", "mv"}, s \in Sides, dryrun \in BOOLEAN, x \in {{}, {<<"x">>}}}
    \cup {Line("sync", s, delete, exact, FALSE, {}) :
        s \in Sides, delete \in BOOLEAN, exact \in BOOLEAN}
    \cup {Line("sync", s, delete, FALSE, FALSE, {<<"x">>}) : s \in Sides, delete \in BOOLEAN}
    \cup {Line("sync", s, TRUE, FALSE, TRUE, {}) : s \in Sides}
    \cup {Line("mv", s, FALSE, FALSE, FALSE, x) : s \in Nested, x \in {{}, {<<"x">>}}}
    \cup {One(op, s) : op \in {"cp", "mv"}, s \in
            {<<"upload", <<"x">>, <<"e", "/">>>>, <<"upload", <<"x">>, <<"e", "/", "x">>>>,
             <<"copy", <<"d", "/", "x">>, <<"e", "/", "x">>>>}}
    \cup {One("mv", <<"download", from, to>>) :
        from \in {<<"d", "/", "x">>, <<"d", "/", "x", "/">>},
        to \in {<<>>, <<"y">>, <<"y", "/">>}}

\* A prefix without its slash, moved to another; one moved into a directory of its
\* own; and syncs that are dry runs.
SlashlessMoves == {Line("mv", <<"copy", <<"d">>, <<"e">>>>, FALSE, FALSE, FALSE, {})}
InwardMoves ==
    {Line("mv", <<"copy", <<"d", "/">>, <<"d", "/", "x">>>>, FALSE, FALSE, FALSE, {})}
InwardKeys == {<<"d", "/", "x">>, <<"d", "/", "x", "/", "x">>}

=============================================================================
