------------------------------ MODULE Program ------------------------------
(***************************************************************************)
(* src/prog/udunits2.c: the program that asks for a "have" and a "want"    *)
(* unit and prints the definition of the former or a conversion.  What the *)
(* user enters, or gives with the options -H and -W, is a text: perhaps a  *)
(* number, and words that ut_parse() multiplies.  A text without either is *)
(* an empty line.  Units are the number and the words they were parsed     *)
(* from.  Lines are shorter than the buffers for them.                     *)
(***************************************************************************)
EXTENDS Integers, Sequences

CONSTANTS
  Words,      \* blank-separated parts of units
  Unknown,    \* those that ut_parse() does not know
  Texts,      \* bound: what is entered
  Locales,    \* bound: values of LC_ALL, LC_CTYPE and LANG, in this order
  MaxLines,   \* bound: lines of standard input
  MaxOptions, \* bound: options of the command line
  NoUnit,     \* the NULL pointer
  NoText      \* an option that was not given

Text == [number : {"none", "zero", "some"}, words : Seq(Words)]

ASSUME TextAssumption == Texts \subseteq Text /\ Unknown \subseteq Words /\ NoText \notin Texts
ASSUME BoundAssumption == MaxLines \in Nat /\ MaxOptions \in Nat

VARIABLES
  pc,              \* "options", "encoding", "database", "have", "want", "answer" or "exit"
  options,         \* how many options have been read
  lines,           \* how many lines have been read
  locale,          \* the environment
  encoding,        \* _encoding, or "unset"
  cmdHave,         \* _cmdHave
  cmdWant,         \* _cmdWant
  haveInitialized, \* the static variable of getInputValue()
  wantInitialized, \* that of getOutputRequest()
  haveAmount,      \* _haveUnitAmount
  haveUnit,        \* _haveUnit
  wantUnit,        \* _wantUnit
  wantDefinition,  \* _wantDefinition
  exitStatus,      \* _exitStatus
  alive,           \* history: units allocated and not freed
  asked,           \* history: the last text that was taken as what is wanted
  printed          \* history: the last answer

commandLine == <<options, locale, encoding, cmdHave, cmdWant>>
have == <<haveInitialized, haveAmount, haveUnit>>
want == <<wantInitialized, wantUnit, wantDefinition>>
history == <<alive, asked, printed>>
vars == <<pc, lines, commandLine, have, want, exitStatus, history>>

-----------------------------------------------------------------------------
Unit(text) == [number |-> text.number, words |-> text.words]

IsEmpty(text) == text.number = "none" /\ text.words = <<>>

\* ut_parse().  A factor of 0 is no unit.
Parse(text) ==
  IF text.number = "zero" \/ \E i \in DOMAIN text.words : text.words[i] \in Unknown
  THEN NoUnit ELSE Unit(text)

Cost(unit) == IF unit = NoUnit THEN 0 ELSE 1

Exit(status) == pc' = "exit" /\ exitStatus' = status

Init ==
  /\ pc = "options"
  /\ options = 0 /\ lines = 0
  /\ locale \in Locales
  /\ encoding = "unset"
  /\ cmdHave = NoText /\ cmdWant = NoText
  /\ haveInitialized = FALSE /\ wantInitialized = FALSE
  /\ haveAmount = "none" /\ haveUnit = NoUnit
  /\ wantUnit = NoUnit /\ wantDefinition = FALSE
  /\ exitStatus = "EXIT_FAILURE"
  /\ alive = 0
  /\ asked = NoText
  /\ printed = "nothing"

-----------------------------------------------------------------------------
(* decodeCommandLine(), ensureEncodingSet() and readXmlDatabase()          *)

Option ==
  /\ pc = "options" /\ options < MaxOptions
  /\ options' = options + 1
  /\ UNCHANGED <<lines, locale, have, want, alive, asked, printed>>

OptionEncoding(e) ==
  /\ Option
  /\ encoding' = e
  /\ UNCHANGED <<pc, cmdHave, cmdWant, exitStatus>>

OptionHave(text) ==
  /\ Option
  /\ cmdHave' = text
  /\ UNCHANGED <<pc, encoding, cmdWant, exitStatus>>

OptionWant(text) ==
  /\ Option
  /\ cmdWant' = text
  /\ UNCHANGED <<pc, encoding, cmdHave, exitStatus>>

OptionReveal == Option /\ UNCHANGED <<pc, encoding, cmdHave, cmdWant, exitStatus>>

OptionHelp ==
  /\ Option
  /\ Exit("EXIT_SUCCESS")
  /\ UNCHANGED <<encoding, cmdHave, cmdWant>>

OptionUnknown ==
  /\ Option
  /\ Exit(exitStatus)
  /\ UNCHANGED <<encoding, cmdHave, cmdWant>>

OptionsDone ==
  /\ pc = "options"
  /\ pc' = "encoding"
  /\ UNCHANGED <<lines, commandLine, have, want, exitStatus, history>>

\* setEncoding() leaves the encoding alone if it does not know the locale.
KnownLocales == { i \in DOMAIN locale : locale[i] \in {"UT_ASCII", "UT_LATIN1", "UT_UTF8"} }

EnsureEncodingSet ==
  /\ pc = "encoding"
  /\ pc' = "database"
  /\ encoding' =
       IF encoding # "unset" THEN encoding
       ELSE IF KnownLocales = {} THEN "UT_ASCII"
       ELSE locale[CHOOSE i \in KnownLocales : \A j \in KnownLocales : i <= j]
  /\ UNCHANGED <<lines, options, locale, cmdHave, cmdWant, have, want, exitStatus, history>>

ReadXmlDatabase ==
  /\ pc = "database"
  /\ \/ pc' = "have" /\ UNCHANGED exitStatus
     \/ Exit(exitStatus)
  /\ UNCHANGED <<lines, commandLine, have, want, alive, asked, printed>>

-----------------------------------------------------------------------------
(* getSpec()                                                               *)

Reads(text) ==
  /\ lines < MaxLines
  /\ text \in Texts
  /\ lines' = lines + 1

EndOfInput ==
  /\ Exit("EXIT_SUCCESS")
  /\ UNCHANGED <<lines, commandLine, have, want, alive, asked, printed>>

InputError ==
  /\ Exit(exitStatus)
  /\ UNCHANGED <<lines, commandLine, have, want, alive, asked, printed>>

-----------------------------------------------------------------------------
(* getInputValue() and decodeInput()                                       *)

\* The conversion "%[^ \t\n]" of sscanf() ends at the first blank, and what follows
\* is not looked at.
FirstWord(text) == [number |-> "none", words |-> <<text.words[1]>>]

\* Does sscanf() convert both a number and a word that is a unit?
TakesFirstWord(text) ==
  /\ text.number # "none" /\ text.words # <<>>
  /\ Parse(FirstWord(text)) # NoUnit

DecodeInput(text) ==
  IF TakesFirstWord(text)
  THEN [amount |-> text.number, unit |-> Parse(FirstWord(text))]
  ELSE [amount |-> "none", unit |-> Parse(text)]

\* Mutant: the unit of the last request is not freed.
TakeHaveOver(text) ==
  LET decoded == DecodeInput(text)
  IN /\ haveAmount' = decoded.amount
     /\ haveUnit' = decoded.unit
     /\ alive' = alive + Cost(decoded.unit)

TakeHave(text) ==
  LET decoded == DecodeInput(text)
  IN /\ haveAmount' = decoded.amount
     /\ haveUnit' = decoded.unit
     /\ alive' = alive - Cost(haveUnit) + Cost(decoded.unit)

Have(text) ==
  /\ TakeHave(text)
  /\ UNCHANGED <<commandLine, want, asked, printed>>

\* -H, for the first request.
HaveFromOption ==
  /\ pc = "have" /\ cmdHave # NoText /\ ~haveInitialized
  /\ haveInitialized' = TRUE
  /\ Have(cmdHave)
  /\ IF haveUnit' # NoUnit THEN pc' = "want" /\ UNCHANGED exitStatus ELSE Exit(exitStatus)
  /\ UNCHANGED lines

\* Mutant: the one conversion is done again and again.
HaveAgainForever ==
  /\ pc = "have" /\ cmdHave # NoText /\ haveInitialized
  /\ pc' = "want" /\ UNCHANGED exitStatus
  /\ UNCHANGED <<lines, commandLine, have, want, alive, asked, printed>>

\* -H, for the next requests: with -W there is only one.
HaveAgain ==
  /\ pc = "have" /\ cmdHave # NoText /\ haveInitialized
  /\ IF cmdWant = NoText
     THEN pc' = "want" /\ UNCHANGED exitStatus
     ELSE Exit("EXIT_SUCCESS")
  /\ UNCHANGED <<lines, commandLine, have, want, alive, asked, printed>>

\* "You have: "
HaveFromPrompt(text) ==
  /\ pc = "have" /\ cmdHave = NoText
  /\ Reads(text)
  /\ IF IsEmpty(text) THEN UNCHANGED <<pc, commandLine, have, want, history>>
     ELSE /\ Have(text)
          /\ pc' = IF haveUnit' # NoUnit THEN "want" ELSE "have"
          /\ UNCHANGED haveInitialized
  /\ UNCHANGED exitStatus

HaveEnds == pc = "have" /\ cmdHave = NoText /\ (EndOfInput \/ InputError)

-----------------------------------------------------------------------------
(* getOutputRequest() and decodeOutput()                                   *)

\* Mutant: the request for a definition is not taken back.
WantUnitOnly(text) ==
  /\ wantUnit' = Parse(text)
  /\ alive' = alive - Cost(wantUnit) + Cost(Parse(text))
  /\ UNCHANGED wantDefinition

WantUnit(text) ==
  /\ wantUnit' = Parse(text)
  /\ alive' = alive - Cost(wantUnit) + Cost(Parse(text))
  /\ wantDefinition' = FALSE

\* decodeOutput().  The unit of an earlier request is kept for a definition.
Want(text) ==
  /\ IF IsEmpty(text)
     THEN wantDefinition' = TRUE /\ UNCHANGED <<wantUnit, alive>>
     ELSE WantUnit(text)
  /\ asked' = IF IsEmpty(text) \/ wantUnit' # NoUnit THEN text ELSE asked
  /\ UNCHANGED <<commandLine, have, printed>>

Wanted(text) == IsEmpty(text) \/ Parse(text) # NoUnit

\* -W, for the first request.
WantFromOption ==
  /\ pc = "want" /\ cmdWant # NoText /\ ~wantInitialized
  /\ wantInitialized' = TRUE
  /\ Want(cmdWant)
  /\ IF Wanted(cmdWant) THEN pc' = "answer" /\ UNCHANGED exitStatus ELSE Exit(exitStatus)
  /\ UNCHANGED lines

WantAgain ==
  /\ pc = "want" /\ cmdWant # NoText /\ wantInitialized
  /\ pc' = "answer"
  /\ UNCHANGED <<lines, commandLine, have, want, exitStatus, history>>

\* "You want: "
WantFromPrompt(text) ==
  /\ pc = "want" /\ cmdWant = NoText
  /\ Reads(text)
  /\ Want(text)
  /\ pc' = IF Wanted(text) THEN "answer" ELSE "want"
  /\ UNCHANGED <<wantInitialized, exitStatus>>

WantEnds == pc = "want" /\ cmdWant = NoText /\ (EndOfInput \/ InputError)

-----------------------------------------------------------------------------
(* handleRequest()                                                         *)

\* ut_are_convertible(): here every word is a dimension of its own.
AreConvertible(u, v) == u.words = v.words

\* ut_scale() by zero gives NULL, and ut_format() of that -1, which compares greater
\* than sizeof(buf) because that is unsigned: the unit is said to be too long.
Answer ==
  /\ pc = "answer"
  /\ printed' \in
       IF wantDefinition
       THEN {IF haveAmount = "zero" THEN "too long" ELSE "definition"}
       ELSE IF ~AreConvertible(wantUnit, haveUnit) THEN {"not convertible"}
       ELSE {"conversion", "no converter"}
  /\ pc' = "have"
  /\ UNCHANGED <<lines, commandLine, have, want, exitStatus, alive, asked>>

Next ==
  \/ \E e \in {"UT_ASCII", "UT_LATIN1", "UT_UTF8"} : OptionEncoding(e)
  \/ OptionReveal \/ OptionHelp \/ OptionUnknown \/ OptionsDone
  \/ EnsureEncodingSet \/ ReadXmlDatabase
  \/ \E text \in Texts :
       OptionHave(text) \/ OptionWant(text) \/ HaveFromPrompt(text) \/ WantFromPrompt(text)
  \/ HaveFromOption \/ HaveAgain \/ HaveEnds
  \/ WantFromOption \/ WantAgain \/ WantEnds
  \/ Answer

\* Nothing but the user makes the program wait, and input comes to an end.
Spec == Init /\ [][Next]_vars /\ WF_vars(Next)

-----------------------------------------------------------------------------
(* Properties.                                                             *)

\* The program owns a unit for each of _haveUnit and _wantUnit and no other, whatever
\* is entered in which order, and however often a request fails: decodeInput() and
\* decodeOutput() free what they replace, once.
OwnsItsUnits == alive = Cost(haveUnit) + Cost(wantUnit)

\* Every request that is answered has a unit to be answered for, and the answer is of
\* the kind that the last text taken at "You want:" (or -W) asked for, in every mix of
\* options, prompts, empty lines and texts that are not understood.
AnswersLastRequest ==
  /\ pc = "answer" => haveUnit # NoUnit /\ (wantDefinition \/ wantUnit # NoUnit)
  /\ pc = "have" /\ printed # "nothing" =>
       (IsEmpty(asked) <=> printed \in {"definition", "too long"})

\* The program ends, with -H and -W both given without any input.
Ends == <>(pc = "exit")
=============================================================================
