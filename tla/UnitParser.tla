----------------------------- MODULE UnitParser -----------------------------
(***************************************************************************)
(* src/lib/parser.c, which bison makes of parser.y: ut_parse() of a text,  *)
(* as the machine that is run.  The parser keeps a stack of symbols with   *)
(* their values, asks the scanner for a token only where its tables need   *)
(* one, and runs the action of a rule when it reduces.                     *)
(*                                                                         *)
(* The texts are those of a client, and those that ut_format() made of a   *)
(* unit, which the parser is expected to read back.  What the functions of *)
(* unitcore.c and formatter.c return is given by the module that composes  *)
(* them with the parser (UnitText).                                        *)
(***************************************************************************)
EXTENDS NullUnit, Scanner, FiniteSets

CONSTANTS
  TheOne,     \* the dimensionless unit one of the unit-system
  TheSecond,  \* its "second", or NoUnit
  UnitOf,     \* UnitOf[kind]: the unit of each identifier
  Prefixes,   \* Prefixes[kind]: the exponent of 2 of each prefix
  Formatted,  \* units that are formatted
  Options,    \* options of ut_format()
  Texts,      \* texts of the client
  Unformatted \* what ut_format() returns of a unit that it cannot format

CONSTANTS
  \* The unit that a function of unitcore.c returns, and the status it leaves.
  ut_scale(_, _), ut_offset(_, _), ut_offset_by_time(_, _),
  ut_multiply(_, _), ut_divide(_, _), ut_raise(_, _), ut_log(_, _),
  ut_are_convertible(_, _),
  FactorOf(_),    \* the scale-factor that a number is
  ut_format(_, _)  \* the text of a unit

\* A sequence of lexemes.
IsText(t) == t \in Seq({ t[i] : i \in DOMAIN t })

ASSUME TextAssumption ==
  /\ \A t \in Texts : IsText(t)
  /\ \A u \in Formatted, o \in Options : ut_format(u, o) # Unformatted => IsText(ut_format(u, o))

VARIABLES
  text,       \* the string
  asked,      \* history: the unit and the options that the text was made of
  phase,      \* "idle", "parsing" or "done"
  p,          \* the scanner's place in the text
  condition,  \* its start condition
  look,       \* the token that was read and not shifted, or NoToken
  stack,      \* symbols and their values
  isTime,     \* _isTime, which survives from one ut_parse() to the next
  status,     \* what ut_get_status() returns
  units,      \* how many units have been allocated and not freed
  strings,    \* how many identifiers have been
  unknown,    \* history: an identifier or a time zone was not recognised
  result      \* what ut_parse() returned

vars == <<text, asked, phase, p, condition, look, stack, isTime, status, units,
          strings, unknown, result>>

scanner == <<p, condition, look, strings>>
input == <<text, asked>>

NoToken == [token |-> "none"]

-----------------------------------------------------------------------------
(* The stack.                                                              *)

Symbol(name, value) == [name |-> name, value |-> value]

\* The name of the symbol n below the top.
Below(st, n) == IF n < Len(st) THEN st[Len(st) - n].name ELSE "bottom"
Top(st) == Below(st, 0)
Value(n) == stack[Len(stack) - n].value

Popped(st, n) == SubSeq(st, 1, Len(st) - n)

Starters == {"INT", "REAL", "ID", "LOGREF", "("}

\* The tokens that the tables shift on top of a stack.
Shiftable(st) ==
  LET top == Top(st)
      below == Below(st, 1)
  IN CASE top \in {"bottom", "(", "LOGREF", "MULTIPLY", "DIVIDE"} -> Starters
       [] top = "product_exp" ->
            Starters \cup {"MULTIPLY", "DIVIDE"}
                     \cup (IF below = "LOGREF" THEN {")"} ELSE {"SHIFT"})
       [] top = "basic_exp" -> {"INT", "EXPONENT"}
       [] top = "shift_exp" /\ below = "(" -> {")"}
       [] top = "SHIFT" -> {"INT", "REAL", "DATE"}
       [] top = "DATE" -> {"CLOCK"}
       [] top = "CLOCK" /\ below = "DATE" -> {"CLOCK", "ID"}
       [] OTHER -> {}

\* The tokens that make the tables reduce there, of those that need a look.
Reducing(st) ==
  LET top == Top(st)
      below == Below(st, 1)
  IN CASE top = "bottom" -> {"EOF"}
       [] top = "product_exp" /\ below # "LOGREF" -> {"EOF", ")"}
       [] top = "basic_exp" ->
            {"EOF", "SHIFT", "MULTIPLY", "DIVIDE", "REAL", "ID", "LOGREF", "(", ")"}
       [] OTHER -> {}

\* In the other states the tables reduce without looking.
Looks(st) == Shiftable(st) # {} \/ Reducing(st) # {}

\* Where the grammar has a rule with the token "error" in this place.
Catches(st) ==
  \/ Top(st) \in {"bottom", "product_exp", "basic_exp", "MULTIPLY", "DIVIDE", "SHIFT"}
  \/ Top(st) = "shift_exp" /\ Below(st, 1) = "("

\* YYERROR, and the recovery from a syntax error: symbols are popped until one
\* of those states shifts the error.
Recovered(st) ==
  LET n == CHOOSE n \in 0 .. Len(st) :
             Catches(Popped(st, n)) /\ \A k \in 0 .. n - 1 : ~Catches(Popped(st, k))
  IN Append(Popped(st, n), Symbol("error", 0))

-----------------------------------------------------------------------------
(* Units on loan.  The unit one itself belongs to the system; a product of *)
(* which all powers cancelled is another unit, which must be freed.        *)

Cost(u) == IF u \in {NoUnit, TheOne} THEN 0 ELSE 1

\* Mutant: of two operands the second is not freed.
CostOfFirst(u, v) == Cost(u)

CostOfBoth(u, v) == Cost(u) + Cost(v)

\* isTime(), which restores the status.
IsTime(u) == u # NoUnit /\ TheSecond # NoUnit /\ ut_are_convertible(u, TheSecond)

\* The last n symbols are replaced by the symbol "name" with the unit u.  No unit
\* means YYERROR.
Replaced(n, name, u) ==
  IF u = NoUnit THEN Recovered(Popped(stack, n)) ELSE Append(Popped(stack, n), Symbol(name, u))

\* A rule that makes the unit out.unit and frees so many.
Reduce(n, name, out, freed) ==
  /\ stack' = Replaced(n, name, out.unit)
  /\ units' = units + Cost(out.unit) - freed
  /\ status' = "UT_SUCCESS"
  /\ UNCHANGED <<input, scanner, phase, unknown, result>>

\* A rule whose action is $$ = $1.
Rename(from, to) ==
  /\ phase = "parsing"
  /\ Top(stack) = from
  /\ stack' = Append(Popped(stack, 1), Symbol(to, Value(0)))
  /\ UNCHANGED <<input, scanner, phase, status, units, unknown, result>>

Seen(tokens) == look.token \in tokens

-----------------------------------------------------------------------------
(* ut_parse() and utparse()                                                *)

Init ==
  /\ text = << >>
  /\ asked = NoUnit
  /\ phase = "idle"
  /\ p = 1
  /\ condition = "INITIAL"
  /\ look = NoToken
  /\ stack = << >>
  /\ isTime \in BOOLEAN
  /\ status = "UT_SUCCESS"
  /\ units = 0
  /\ strings = 0
  /\ unknown = FALSE
  /\ result = NoUnit

Start ==
  /\ phase = "idle"
  /\ phase' = "parsing"
  /\ UNCHANGED <<p, condition, look, stack, isTime, status, units, strings, unknown, result>>

Type ==
  /\ Start
  /\ text' \in Texts
  /\ UNCHANGED asked

FormatUnit ==
  /\ Start
  /\ \E u \in Formatted, o \in Options :
       /\ ut_format(u, o) # Unformatted
       /\ text' = ut_format(u, o)
       /\ asked' = [unit |-> u, options |-> o]

\* utlex().  An identifier is duplicated for the parser.
Read ==
  /\ phase = "parsing"
  /\ Looks(stack)
  /\ look = NoToken
  /\ \E token \in Scan(text, p, condition, isTime) :
        /\ look' = [token |-> token.token, value |-> token.value]
        /\ p' = token.p
        /\ condition' = token.condition
        /\ strings' = IF token.token = "ID" THEN strings + 1 ELSE strings
  /\ UNCHANGED <<input, phase, stack, isTime, status, units, unknown, result>>

Shift ==
  /\ phase = "parsing"
  /\ look.token \in Shiftable(stack)
  /\ stack' = Append(stack, Symbol(look.token, look.value))
  /\ look' = NoToken
  /\ UNCHANGED <<input, phase, p, condition, strings, isTime, status, units, unknown, result>>

SyntaxError ==
  /\ phase = "parsing"
  /\ look # NoToken
  /\ Catches(stack) \/ Top(stack) \in {"(", "LOGREF"}
  /\ look.token \notin Shiftable(stack) \cup Reducing(stack)
  /\ stack' = Recovered(stack)
  /\ UNCHANGED <<input, scanner, phase, isTime, status, units, unknown, result>>

Return(u, s) ==
  /\ phase' = "done"
  /\ result' = u
  /\ status' = s
  /\ UNCHANGED <<input, scanner, stack, isTime, unknown>>

\* Mutant: nobody looks for what follows.
AcceptAnything(u) ==
  /\ units' = units
  /\ Return(u, "UT_SUCCESS")

\* YYACCEPT, and the end of ut_parse(): the scanner must have used the text up.
Accept(u) ==
  IF p > Len(text)
  THEN /\ units' = units
       /\ Return(u, "UT_SUCCESS")
  ELSE /\ units' = units - Cost(u)
       /\ Return(NoUnit, "UT_SYNTAX")

-----------------------------------------------------------------------------
(* The rules of the grammar.                                               *)

\* unit_spec: | shift_exp
EmptySpec ==
  /\ phase = "parsing"
  /\ stack = << >>
  /\ Seen({"EOF"})
  /\ Accept(TheOne)

UnitSpec ==
  /\ phase = "parsing"
  /\ Len(stack) = 1
  /\ Top(stack) = "shift_exp"
  /\ Accept(Value(0))

\* unit_spec: error.  YYABORT: the status stays.
Abort ==
  /\ phase = "parsing"
  /\ stack = <<Symbol("error", 0)>>
  /\ units' = units
  /\ Return(NoUnit, status)

\* shift_exp: product_exp
ShiftExp ==
  /\ Below(stack, 1) # "LOGREF"
  /\ Seen({"EOF", ")"})
  /\ Rename("product_exp", "shift_exp")
  /\ UNCHANGED isTime

\* shift_exp: product_exp SHIFT REAL | product_exp SHIFT INT
ShiftByNumber ==
  /\ phase = "parsing"
  /\ Top(stack) \in {"REAL", "INT"}
  /\ Below(stack, 1) = "SHIFT"
  /\ LET offset == IF Top(stack) = "INT" THEN Grain * Value(0) ELSE Value(0)
     IN Reduce(3, "shift_exp", ut_offset(Value(2), offset), Cost(Value(2)))
  /\ UNCHANGED isTime

\* timestamp: DATE | DATE CLOCK | DATE CLOCK CLOCK.  (The scanner returns no
\* TIMESTAMP.)  A third value is the time zone.
TimestampRule(n, origin) ==
  /\ stack' = Append(Popped(stack, n), Symbol("timestamp", origin))
  /\ UNCHANGED <<input, scanner, phase, isTime, status, units, unknown, result>>

\* Mutant: a date alone ends the text, and nothing is done before a parenthesis.
DateOnlyAtEnd ==
  /\ phase = "parsing"
  /\ Top(stack) = "DATE"
  /\ Seen({"EOF"})
  /\ TimestampRule(1, MinutesOfDay * Value(0))

DateOnly ==
  /\ phase = "parsing"
  /\ Top(stack) = "DATE"
  /\ look # NoToken /\ ~Seen({"CLOCK"})
  /\ TimestampRule(1, MinutesOfDay * Value(0))

DateAndClock ==
  /\ phase = "parsing"
  /\ Top(stack) = "CLOCK" /\ Below(stack, 1) = "DATE"
  /\ look # NoToken /\ ~Seen({"CLOCK", "ID"})
  /\ TimestampRule(2, MinutesOfDay * Value(1) + Value(0))

DateClockAndZone ==
  /\ phase = "parsing"
  /\ Top(stack) = "CLOCK" /\ Below(stack, 1) = "CLOCK"
  /\ TimestampRule(3, MinutesOfDay * Value(2) + (Value(1) - Value(0)))

\* timestamp: DATE CLOCK ID
NamedZone ==
  /\ phase = "parsing"
  /\ Top(stack) = "ID" /\ Below(stack, 1) = "CLOCK"
  /\ strings' = strings - 1
  /\ IF Value(0) \in {<<"UTC">>, <<"GMT">>, <<"Z">>}
     THEN /\ stack' = Append(Popped(stack, 3),
                             Symbol("timestamp", MinutesOfDay * Value(2) + Value(1)))
          /\ UNCHANGED <<status, unknown>>
     ELSE /\ stack' = Recovered(Popped(stack, 3))
          /\ status' = "UT_UNKNOWN"
          /\ unknown' = TRUE
  /\ UNCHANGED <<input, phase, p, condition, look, isTime, units, result>>

\* shift_exp: product_exp SHIFT timestamp
ShiftByTime ==
  /\ phase = "parsing"
  /\ Top(stack) = "timestamp"
  /\ Reduce(3, "shift_exp", ut_offset_by_time(Value(2), Value(0)), Cost(Value(2)))
  /\ UNCHANGED isTime

\* product_exp: power_exp
Factor ==
  /\ Below(stack, 1) \notin {"product_exp", "MULTIPLY", "DIVIDE"}
  /\ Rename("power_exp", "product_exp")
  /\ isTime' = IsTime(Value(0))

\* Mutant: the flag is that of the first operand.
ProductOfFirst(n, out, u, v) ==
  /\ Reduce(n, "product_exp", out, CostOfBoth(u, v))
  /\ isTime' = IsTime(u)

Product(n, out, u, v) ==
  /\ Reduce(n, "product_exp", out, CostOfBoth(u, v))
  /\ isTime' = IsTime(out.unit)

\* product_exp: product_exp power_exp | product_exp MULTIPLY power_exp
\*            | product_exp DIVIDE power_exp
Juxtapose ==
  /\ phase = "parsing"
  /\ Top(stack) = "power_exp" /\ Below(stack, 1) = "product_exp"
  /\ Product(2, ut_multiply(Value(1), Value(0)), Value(1), Value(0))

MultiplyBy ==
  /\ phase = "parsing"
  /\ Top(stack) = "power_exp" /\ Below(stack, 1) = "MULTIPLY"
  /\ Product(3, ut_multiply(Value(2), Value(0)), Value(2), Value(0))

DivideBy ==
  /\ phase = "parsing"
  /\ Top(stack) = "power_exp" /\ Below(stack, 1) = "DIVIDE"
  /\ Product(3, ut_divide(Value(2), Value(0)), Value(2), Value(0))

\* power_exp: basic_exp
Power ==
  /\ Seen(Reducing(stack))
  /\ Rename("basic_exp", "power_exp")
  /\ UNCHANGED isTime

\* power_exp: basic_exp INT | basic_exp EXPONENT
RaiseBy ==
  /\ phase = "parsing"
  /\ Top(stack) \in {"INT", "EXPONENT"}
  /\ Below(stack, 1) = "basic_exp"
  /\ Reduce(2, "power_exp", ut_raise(Value(1), Value(0)), Cost(Value(1)))
  /\ UNCHANGED isTime

\* The loop of the rule for identifiers: a name, a symbol, or else a prefix is
\* cut off, and of the prefixes that are symbols only one.
Identify(s) ==
  LET from[i \in 1 .. Len(s) + 1, symbolPrefixSeen \in BOOLEAN] ==
        LET cp == SubSeq(s, i, Len(s))
            after(kind) ==
              LET rest == from[i + 1, symbolPrefixSeen \/ kind = "symbol"]
              IN [rest EXCEPT !.scale = @ + Prefixes[kind][s[i]]]
        IN IF cp = << >> THEN [unit |-> NoUnit, scale |-> 0]
           ELSE IF cp \in DOMAIN UnitOf["name"] THEN [unit |-> UnitOf["name"][cp], scale |-> 0]
           ELSE IF cp \in DOMAIN UnitOf["symbol"] THEN [unit |-> UnitOf["symbol"][cp], scale |-> 0]
           ELSE IF s[i] \in DOMAIN Prefixes["name"] THEN after("name")
           ELSE IF s[i] \in DOMAIN Prefixes["symbol"] /\ ~symbolPrefixSeen THEN after("symbol")
           ELSE [unit |-> NoUnit, scale |-> 0]
  IN from[1, FALSE]

\* basic_exp: ID
IdentifierRule ==
  /\ phase = "parsing"
  /\ Top(stack) = "ID" /\ Below(stack, 1) # "CLOCK"
  /\ strings' = strings - 1
  /\ LET found == Identify(Value(0))
         scaled == ut_scale(found.scale, found.unit)
     IN IF found.unit = NoUnit
        THEN /\ stack' = Recovered(Popped(stack, 1))
             /\ status' = "UT_UNKNOWN"
             /\ unknown' = TRUE
             /\ UNCHANGED units
        ELSE /\ stack' = Replaced(1, "basic_exp", scaled.unit)
             /\ status' = "UT_SUCCESS"
             /\ units' = units + Cost(scaled.unit)
             /\ UNCHANGED unknown
  /\ UNCHANGED <<input, phase, p, condition, look, isTime, result>>

\* basic_exp: '(' shift_exp ')'
Parenthesized ==
  /\ phase = "parsing"
  /\ Top(stack) = ")" /\ Below(stack, 1) = "shift_exp"
  /\ stack' = Append(Popped(stack, 3), Symbol("basic_exp", Value(1)))
  /\ UNCHANGED <<input, scanner, phase, isTime, status, units, unknown, result>>

\* basic_exp: LOGREF product_exp ')'
Logarithm ==
  /\ phase = "parsing"
  /\ Top(stack) = ")" /\ Below(stack, 1) = "product_exp"
  /\ Reduce(3, "basic_exp", ut_log(Value(2), Value(1)), Cost(Value(1)))
  /\ UNCHANGED isTime

\* basic_exp: number.  A number 0 leaves NULL on the stack, and no error.
Number ==
  /\ phase = "parsing"
  /\ Top(stack) \in {"INT", "REAL"}
  /\ Below(stack, 1) \notin {"basic_exp", "SHIFT"}
  /\ LET x == IF Top(stack) = "INT" THEN Grain * Value(0) ELSE Value(0)
         scaled == ut_scale(FactorOf(x), TheOne)
     IN /\ stack' = Append(Popped(stack, 1), Symbol("basic_exp", scaled.unit))
        /\ units' = units + Cost(scaled.unit)
        /\ status' = scaled.status
  /\ UNCHANGED <<input, scanner, phase, isTime, unknown, result>>

\* The symbols of the rule that ends in "error", and the unit it frees.
ErrorRule == IF Below(stack, 1) \in {"MULTIPLY", "DIVIDE", "SHIFT"} THEN 3 ELSE 2

\* Mutant: the status is that of ut_free().
CaughtForgetful(n) ==
  /\ stack' = Recovered(Popped(stack, n))
  /\ units' = units - Cost(Value(n - 1))
  /\ status' = "UT_SUCCESS"

\* The status is saved from ut_free().
Caught(n) ==
  /\ stack' = Recovered(Popped(stack, n))
  /\ units' = units - Cost(Value(n - 1))
  /\ UNCHANGED status

\* The rules with "error" of product_exp, shift_exp, power_exp and basic_exp.
\* (That of a parenthesis pops it, too; it catches nothing.)
ErrorReduce ==
  /\ phase = "parsing"
  /\ Top(stack) = "error" /\ Len(stack) > 1
  /\ Caught(ErrorRule)
  /\ UNCHANGED <<input, scanner, phase, isTime, unknown, result>>

\* A step of utparse()
Parse ==
  \/ Read \/ Shift \/ SyntaxError
  \/ EmptySpec \/ UnitSpec \/ Abort
  \/ ShiftExp \/ ShiftByNumber \/ ShiftByTime
  \/ DateOnly \/ DateAndClock \/ DateClockAndZone \/ NamedZone
  \/ Factor \/ Juxtapose \/ MultiplyBy \/ DivideBy
  \/ Power \/ RaiseBy
  \/ IdentifierRule \/ Parenthesized \/ Logarithm \/ Number \/ ErrorReduce

Next == Type \/ FormatUnit \/ Parse

\* A call of ut_parse() runs to its end.
Spec == Init /\ [][Next]_vars /\ WF_vars(Parse)

-----------------------------------------------------------------------------
(* Properties.                                                             *)

OnStack(names) == { i \in DOMAIN stack : stack[i].name \in names }
UnitSymbols == {"basic_exp", "power_exp", "product_exp", "shift_exp"}

\* At every moment of a parse, whatever was reduced and whichever of the error
\* rules ran, the units that are allocated are those on the stack, and in the
\* end that of the result: none is leaked and none is freed twice.  Of the
\* duplicated identifiers only one that is read and not shifted is lost.
UnitsFreed ==
  /\ strings = Cardinality(OnStack({"ID"})) + (IF look.token = "ID" THEN 1 ELSE 0)
  /\ units = IF phase = "done" THEN Cost(result)
             ELSE Cardinality({ i \in OnStack(UnitSymbols) : Cost(stack[i].value) = 1 })

\* A text with an identifier that is not known is reported as UT_UNKNOWN, through
\* all the error rules that free units on the way out, each of which sets
\* UT_SUCCESS.
UnknownSurvives ==
  phase = "done" /\ unknown /\ result = NoUnit => status = "UT_UNKNOWN"

Parens(c) == { i \in DOMAIN text : text[i].t \in c }
Opened == Cardinality(Parens({"(", "logref"}))
Closed == Cardinality(Parens({")"}))

\* A unit is returned for the whole of the text only: its parentheses match.
\* One token at the end may be ignored: ")" ("m)" is accepted, for a
\* parenthesis may follow a shift_exp), and anything after a time.
NothingIgnored ==
  phase = "done" /\ result # NoUnit =>
    /\ p > Len(text)
    /\ status = "UT_SUCCESS"
    /\ \/ Closed = Opened
       \/ Closed = Opened + 1 /\ look.token = ")"
       \/ Opened = Closed + 1 /\ look.token \in {"(", "LOGREF"} /\ result.type = "timestamp"

\* When the scanner decides whether "@ 2001" is a year, _isTime says whether the
\* operand of this "@" is a unit of time: not that of a factor, a parenthesis
\* or a logarithm before, nor that of the text before.
FlagOfOperand ==
  phase = "parsing" /\ Top(stack) = "SHIFT" => isTime = IsTime(Value(1))

\* ut_parse() returns for every text: no error rule meets the token that it
\* cannot use for ever.
Returns == (phase = "parsing") ~> (phase = "done")

-----------------------------------------------------------------------------
(* What the documentation says and the code does not do.                   *)

\* parser.y: a string that contains a syntax error is not a unit.  Of one that
\* is a unit the last token that was read is then the end of it.
WholeTextRead == phase = "done" /\ result # NoUnit => look.token \in {"none", "EOF"}
=============================================================================
