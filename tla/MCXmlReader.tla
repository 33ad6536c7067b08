---------------------------- MODULE MCXmlReader -----------------------------
(* Documents as the unit database has them, and with elements out of place. *)
EXTENDS XmlReader, TLC

second == <<"second">>
s == <<"s">>
mu == <<"mu">>
mu_s == <<"mu", "_", "s">>
s_s == <<"s", "_", "s">>

MCNumbers == {<<"2">>}

MCNesting ==
  "document" :> {"unit-system", "unit"} @@
  "unit-system" :> {"prefix", "unit", "import", "name"} @@
  "prefix" :> {"value", "symbol"} @@
  "unit" :> {"base", "def", "dimensionless", "name", "symbol", "aliases", "comment"} @@
  "aliases" :> {"name", "symbol", "base"} @@
  "name" :> {"singular", "plural"} @@
  "comment" :> {"unit"} @@
  [ e \in {"value", "base", "def", "dimensionless", "symbol", "singular", "plural", "import"}
      |-> {} ]

MCContent ==
  "value" :> {<<"2">>} @@
  "def" :> {<< >>, <<"2">>, s} @@
  "name" :> {s} @@
  "singular" :> {<< >>, second, mu, mu_s, s_s} @@
  "plural" :> {<< >>, mu} @@
  "symbol" :> {s, mu} @@
  "import" :> {<< >>, <<"file">>}

\* What the theorems about the nesting and the text assume of the documents, and that
\* no symbol is an empty text.
ASSUME WellNestedDocuments == WellNested /\ << >> \notin Content["symbol"]
=============================================================================
