------------------------- MODULE MCProtectedPaths -------------------------
(***************************************************************************)
(* Instances of ProtectedPaths for TLC: one default pattern of each kind,  *)
(* extra patterns and scopes with glyphs that the ports read differently,  *)
(* and paths that tell the patterns, and the ports, apart.                 *)
(***************************************************************************)
EXTENDS ProtectedPaths, TLC

CONSTANTS t1, t2
MCThread == {t1, t2}

MCChar == {"I", ".", "c", "a", "/", "[", "]", "\n"}
MCBreaks == {"\n"}

MCPath ==
  { <<"a">>, <<"a", "/", "I">>, <<"c", "/", "a">>, <<"c", "/", "a", "/", "a">>,
    <<".", "a", "/", "a">>, <<"c", "/", "\n", "/", "a">> }

Text(text) == [text |-> text, classes |-> {}]

MCDefaults ==
  << Text(<<"I">>), Text(<<".", Star>>),
     Text(<<"c", "/", Star>>), Text(<<"c", "/", StarStar>>) >>

\* None, or a**, ca?, ?a or [ac].
MCExtra ==
  { <<>>, << Text(<<"a", StarStar>>) >>, << Text(<<"c", "a", Query>>) >>,
    << Text(<<Query, "a">>) >>,
    << [text |-> <<"[", "a", "c", "]">>,
        classes |-> {[first |-> 1, last |-> 4, members |-> {"a", "c"}]}] >> }

Approval(scope, by, until) ==
  [path_scope |-> scope, issued_by |-> by, expires_at |-> until]

MCApprovals ==
  { Approval(Text(<<"c", "/", Star>>), "human", 0),
    Approval(Text(<<"c", "/", "a", ".", Query>>), "human", 1),
    Approval(Text(<<"a", "/", "I">>), "human", 1),
    Approval(Text(<<"c", "/", StarStar>>), "agent", 1) }

MCSources == {"agent", "tool"}
=============================================================================
