----------------------------- MODULE MCProgram -----------------------------
(* Two units, a text of both, numbers with them, and what is no unit.      *)
EXTENDS Program

CONSTANTS m, s, nonsense

Of(number, words) == [number |-> number, words |-> words]

MCTexts ==
  { Of("none", <<>>), Of("none", <<m>>), Of("some", <<m>>), Of("zero", <<m>>),
    Of("none", <<s, m>>), Of("some", <<s, m>>), Of("some", <<>>),
    Of("none", <<nonsense>>), Of("some", <<nonsense, m>>) }

MCLocales ==
  { <<"unset", "unset", "unset">>, <<"other", "UT_UTF8", "UT_LATIN1">>, <<"UT_ASCII", "UT_UTF8", "unset">> }
=============================================================================
