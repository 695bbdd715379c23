------------------------------- MODULE CliProofs -------------------------------
(***************************************************************************)
(* The program prints an object in a form with the same text every time.   *)
(* In base64 and advanced form that is so because the output begins on a   *)
(* stream that was just set up; in canonical form, because the text is     *)
(* then the canonical form of the object, wherever the output begins.  And *)
(* it prints whole objects, each in all the forms asked for.               *)
(***************************************************************************)
EXTENDS Cli, Lemmas

-----------------------------------------------------------------------------
(* What is printed on a stream that was just set up is a function of the   *)
(* form and the object: a step depends on the stream, the active lists and *)
(* the events still to print, and on nothing else.                         *)
State == [os |-> os, frames |-> frames, todo |-> todo]

Separated(s) ==
  LET o == IF s.frames = <<>> \/ Out!Last(s.frames).first THEN s.os
           ELSE IF Out!Last(s.frames).vertical THEN Out!NewLine(s.os, "advanced")
                                               ELSE Out!PutChar(s.os, Out!SPACE)
  IN IF o.max_column > 0 /\ o.column > Out!Word(o.max_column - 4)
       THEN Out!NewLine(o, "advanced") ELSE o

Continued(list) == IF list = <<>> THEN list ELSE [list EXCEPT ![Len(list)].first = FALSE]

(* The beginning of a list, its end and a string in advanced form.         *)
ListBegun(s) ==
  LET o == Out!IncreaseDepth(Out!PutChar(Separated(s), Out!LPAREN))
      p == [o EXCEPT !.indent = Out!Word(@ + 1)]
  IN IF o.failed
       THEN [os |-> o, frames |-> s.frames, todo |-> Tail(s.todo)]
       ELSE [os |-> p,
             frames |-> Append(Continued(s.frames),
               [vertical |-> Out!ListLength(p, s.todo) > Out!Word(p.max_column - p.column),
                first |-> TRUE]),
             todo |-> Tail(s.todo)]

ListEnded(s) ==
  LET o == IF s.os.max_column > 0 /\ s.os.column > Out!Word(s.os.max_column - 2)
             THEN Out!NewLine(s.os, "advanced") ELSE s.os
  IN [os |-> Out!PutChar([o EXCEPT !.indent = Out!Word(@ + WordMod - 1)], Out!RPAREN),
      frames |-> Out!Front(s.frames), todo |-> Tail(s.todo)]

StringPrinted(s) ==
  [os |-> Out!AdvancedString(Separated(s), Head(s.todo)), frames |-> Continued(s.frames),
   todo |-> Tail(s.todo)]

CanonicalEvent(o, e) ==
  CASE e.kind = "open" -> Out!IncreaseDepth(Out!VarPutChar(o, Out!LPAREN))
    [] e.kind = "close" -> Out!DecreaseDepth(Out!VarPutChar(o, Out!RPAREN))
    [] OTHER -> Out!CanonicalString(o, e)

After(kind, s) ==
  CASE kind # "advanced" ->
         [os |-> CanonicalEvent(s.os, Head(s.todo)), frames |-> s.frames, todo |-> Tail(s.todo)]
    [] kind = "advanced" /\ Head(s.todo).kind = "open" -> ListBegun(s)
    [] kind = "advanced" /\ Head(s.todo).kind = "close" -> ListEnded(s)
    [] OTHER -> StringPrinted(s)

Start(kind, tree) ==
  [os |-> IF kind = "base64"
            THEN LET begun == Out!ChangeOutputByteSize(Out!SetOutput, 8, kind)
                 IN Out!ChangeOutputByteSize(Out!VarPutChar(begun, Out!LBRACE), 6, kind)
            ELSE Out!SetOutput,
   frames |-> <<>>, todo |-> tree]

Ended(kind, o) ==
  IF kind = "base64"
    THEN Out!VarPutChar(Out!ChangeOutputByteSize(Out!Flush(o), 8, "base64"), Out!RBRACE)
    ELSE o

(* The first n steps of such an output, and the text it ends with.         *)
Run(kind, tree, n, h) ==
  /\ h[0] = Start(kind, tree)
  /\ \A i \in 0..(n - 1) : h[i].todo # <<>> /\ h[i + 1] = After(kind, h[i])

Whole(out) == SubSeq(out, 1, Len(out))

TextOf(kind, tree, text) ==
  \E n, h : /\ n \in Nat /\ Run(kind, tree, n, h) /\ h[n].todo = <<>>
            /\ text = Whole(Ended(kind, h[n].os).out)

OnRun == \E n, h : n \in Nat /\ Run(job, object, n, h) /\ h[n] = State

LEMMA StepIsAfter ==
  ASSUME Out!Continue, job' # "idle"
  PROVE  /\ todo # <<>> /\ State' = After(job, State) /\ job' = job /\ object' = object
         /\ began' = began
<1>1. ~Out!Finish
  BY DEF Out!Finish
<1>2. State.os = os /\ State.frames = frames /\ State.todo = todo
  BY DEF State
<1>3. Separated(State) = Out!Separate /\ Continued(State.frames) = Out!NotFirst
  BY <1>2 DEF Separated, Out!Separate, Continued, Out!NotFirst
<1> DEFINE e == Head(todo)
<1>4. CASE Out!CanonicalOpen \/ Out!PrintCanonicalString \/ Out!CanonicalClose
  <2>1. job # "advanced" /\ todo # <<>> /\ todo' = Tail(todo) /\ frames' = frames
    BY <1>4 DEF Out!CanonicalOpen, Out!PrintCanonicalString, Out!CanonicalClose, Out!Printing
  <2>2. os' = CanonicalEvent(os, e)
    BY <1>4 DEF Out!CanonicalOpen, Out!PrintCanonicalString, Out!CanonicalClose, Out!Printing, CanonicalEvent
  <2>3. job' = job /\ object' = object /\ began' = began
    BY <1>4 DEF Out!CanonicalOpen, Out!PrintCanonicalString, Out!CanonicalClose, Out!Printing
  <2>4. State' = [os |-> CanonicalEvent(os, e), frames |-> frames, todo |-> Tail(todo)]
    BY <2>1, <2>2 DEF State
  <2> QED
    BY <1>2, <2>1, <2>3, <2>4 DEF After
<1>5. CASE Out!AdvancedOpen
  <2>1. /\ job = "advanced" /\ todo # <<>> /\ todo' = Tail(todo) /\ e.kind = "open"
        /\ job' = job /\ object' = object /\ began' = began
    BY <1>5 DEF Out!AdvancedOpen, Out!Printing
  <2> DEFINE o == Out!IncreaseDepth(Out!PutChar(Out!Separate, Out!LPAREN))
             p == [o EXCEPT !.indent = Out!Word(@ + 1)]
             list == [vertical |-> Out!ListLength(p, todo) > Out!Word(p.max_column - p.column), first |-> TRUE]
  <2>2. IF o.failed THEN os' = o /\ frames' = frames
                    ELSE os' = p /\ frames' = Append(Out!NotFirst, list)
    BY <1>5 DEF Out!AdvancedOpen
  <2>3. ListBegun(State) = IF o.failed
                             THEN [os |-> o, frames |-> frames, todo |-> Tail(todo)]
                             ELSE [os |-> p, frames |-> Append(Out!NotFirst, list), todo |-> Tail(todo)]
    BY <1>2, <1>3 DEF ListBegun
  <2> HIDE DEF o, p, list
  <2>4. State' = ListBegun(State)
    BY <2>1, <2>2, <2>3 DEF State
  <2> QED
    BY <1>2, <2>1, <2>4 DEF After
<1>6. CASE Out!PrintAdvancedString
  <2>1. /\ job = "advanced" /\ todo # <<>> /\ todo' = Tail(todo) /\ e.kind = "string"
        /\ job' = job /\ object' = object /\ began' = began
        /\ os' = Out!AdvancedString(Out!Separate, e) /\ frames' = Out!NotFirst
    BY <1>6 DEF Out!PrintAdvancedString, Out!Printing
  <2>2. State' = StringPrinted(State)
    BY <1>2, <1>3, <2>1 DEF State, StringPrinted
  <2> QED
    BY <1>2, <2>1, <2>2 DEF After
<1>7. CASE Out!AdvancedClose
  <2>1. /\ job = "advanced" /\ todo # <<>> /\ todo' = Tail(todo) /\ e.kind = "close"
        /\ job' = job /\ object' = object /\ began' = began /\ frames' = Out!Front(frames)
    BY <1>7 DEF Out!AdvancedClose, Out!Printing
  <2>2. State' = ListEnded(State)
    BY <1>2, <1>7, <2>1 DEF State, ListEnded, Out!AdvancedClose
  <2> QED
    BY <1>2, <2>1, <2>2 DEF After
<1> QED
  BY <1>1, <1>4, <1>5, <1>6, <1>7 DEF Out!Continue

LEMMA EndIsEnded ==
  ASSUME Out!Continue, job' = "idle"
  PROVE  /\ todo = <<>> /\ os' = Ended(job, os) /\ object' = object /\ began' = began
<1>1. Out!Finish
  BY DEF Out!Continue, Out!CanonicalOpen, Out!PrintCanonicalString, Out!CanonicalClose, Out!AdvancedOpen,
         Out!PrintAdvancedString, Out!AdvancedClose, Out!Printing
<1> QED
  BY <1>1 DEF Out!Finish, Ended

(* A stream that was just set up is at the beginning of a run, and every   *)
(* step goes on in it.                                                     *)
LEMMA RunBegins ==
  ASSUME NEW kind, NEW tree, Out!BeginPrinting(kind, tree, Out!SetOutput)
  PROVE  OnRun' /\ began'.at = 0
<1> DEFINE h == [i \in {0} |-> Start(kind, tree)]
<1>1. State' = Start(kind, tree) /\ job' = kind /\ object' = tree
  BY DEF Out!BeginPrinting, Start, State
<1>2. Run(kind, tree, 0, h) /\ h[0] = State'
  BY <1>1 DEF Run
<1>3. began'.at = 0
  BY DEF Out!BeginPrinting, Out!SetOutput
<1> HIDE DEF h
<1> QED
  BY <1>1, <1>2, <1>3 DEF OnRun

LEMMA RunContinues ==
  ASSUME OnRun, Out!Continue, job' # "idle"
  PROVE  OnRun'
<1>1. PICK n, g : n \in Nat /\ Run(job, object, n, g) /\ g[n] = State
  BY DEF OnRun
<1>2. todo # <<>> /\ State' = After(job, State) /\ job' = job /\ object' = object
  BY StepIsAfter
<1> DEFINE m == n + 1
           h == [i \in 0..m |-> IF i = m THEN After(job, State) ELSE g[i]]
<1>3. h[m] = State' /\ \A i \in 0..n : h[i] = g[i]
  BY <1>1, <1>2
<1>4. h[0] = Start(job, object)
  BY <1>1, <1>3 DEF Run
<1>5. ASSUME NEW i \in 0..n PROVE h[i].todo # <<>> /\ h[i + 1] = After(job, h[i])
  <2>1. CASE i = n
    BY <1>1, <1>2, <1>3, <2>1 DEF State
  <2>2. CASE i # n
    <3>1. i \in 0..(n - 1) /\ i + 1 \in 0..n
      BY <1>1, <2>2
    <3> HIDE DEF h
    <3> QED
      BY <1>1, <1>3, <3>1 DEF Run
  <2> QED
    BY <2>1, <2>2
<1>6. m \in Nat /\ m - 1 = n
  BY <1>1
<1> HIDE DEF h, m
<1>7. Run(job, object, m, h)
  BY <1>4, <1>5, <1>6 DEF Run
<1> QED
  BY <1>2, <1>3, <1>6, <1>7 DEF OnRun

LEMMA RunEnds ==
  ASSUME OnRun, Out!Continue, job' = "idle"
  PROVE  TextOf(job, object, Whole(os'.out))
<1>1. PICK n, h : n \in Nat /\ Run(job, object, n, h) /\ h[n] = State
  BY DEF OnRun
<1>2. todo = <<>> /\ os' = Ended(job, os)
  BY EndIsEnded
<1> QED
  BY <1>1, <1>2 DEF TextOf, State

(* Two runs of the same output are the same, and so are their texts.       *)
LEMMA RunsAgree ==
  ASSUME NEW kind, NEW tree, NEW n \in Nat, NEW m \in Nat, NEW g, NEW h,
         Run(kind, tree, n, g), Run(kind, tree, m, h)
  PROVE  \A k \in Nat : k <= n /\ k <= m => g[k] = h[k]
<1> DEFINE S == {k \in Nat : k <= n /\ k <= m => g[k] = h[k]}
<1>1. 0 \in S
  BY DEF Run
<1>2. ASSUME NEW k \in S PROVE k + 1 \in S
  <2> SUFFICES ASSUME k + 1 <= n, k + 1 <= m PROVE g[k + 1] = h[k + 1]
    OBVIOUS
  <2>1. k \in 0..(n - 1) /\ k \in 0..(m - 1) /\ g[k] = h[k]
    OBVIOUS
  <2> QED
    BY <2>1 DEF Run
<1>3. S \subseteq Nat
  OBVIOUS
<1>4. (\A k \in Nat : k \in S) => \A k \in Nat : k <= n /\ k <= m => g[k] = h[k]
  OBVIOUS
<1> HIDE DEF S
<1> QED
  BY <1>1, <1>2, <1>3, <1>4, NatInd

LEMMA TextIsDetermined ==
  ASSUME NEW kind, NEW tree, NEW s, NEW t, TextOf(kind, tree, s), TextOf(kind, tree, t)
  PROVE  s = t
<1>1. PICK n, g : /\ n \in Nat /\ Run(kind, tree, n, g) /\ g[n].todo = <<>>
                  /\ s = Whole(Ended(kind, g[n].os).out)
  BY DEF TextOf
<1>2. PICK m, h : /\ m \in Nat /\ Run(kind, tree, m, h) /\ h[m].todo = <<>>
                  /\ t = Whole(Ended(kind, h[m].os).out)
  BY DEF TextOf
<1>3. \A k \in Nat : k <= n /\ k <= m => g[k] = h[k]
  BY <1>1, <1>2, RunsAgree
<1>4. ~(n < m) /\ ~(m < n)
  <2>1. n < m => n \in 0..(m - 1) /\ n <= n /\ n <= m
    BY <1>1, <1>2
  <2>2. m < n => m \in 0..(n - 1) /\ m <= m /\ m <= n
    BY <1>1, <1>2
  <2> QED
    BY <1>1, <1>2, <1>3, <2>1, <2>2 DEF Run
<1>5. n = m
  BY <1>1, <1>2, <1>4
<1> QED
  BY <1>1, <1>2, <1>3, <1>5

-----------------------------------------------------------------------------
(* main: the options, the forms still to be printed, and what was printed. *)
Forms == {"a", "b", "c"}

ArgumentsInv ==
  /\ options \in Seq([switch : Switches, operand : 0..(WordMod - 1)])
  /\ phase = "options" =>
       /\ job = "idle" /\ object = <<>> /\ began = Out!NoOutput
       /\ printed = <<>> /\ forms = <<>>
  /\ forms \in Seq(sw \cap Forms)
  /\ \E S : printed \in Seq(S)

LEMMA SelectedForms == Selected(sw) \in Seq(sw \cap Forms)
<1> DEFINE one(f) == IF f \in sw THEN <<f>> ELSE <<>>
<1>1. ASSUME NEW f \in Forms PROVE one(f) \in Seq(sw \cap Forms)
  <2>1. CASE f \in sw
    BY <2>1
  <2>2. CASE f \notin sw
    <3>1. one(f) = <<>>
      BY <2>2
    <3> QED
      BY <3>1, EmptySeq
  <2> QED
    BY <2>1, <2>2
<1>2. one("c") \in Seq(sw \cap Forms) /\ one("b") \in Seq(sw \cap Forms) /\ one("a") \in Seq(sw \cap Forms)
  BY <1>1 DEF Forms
<1>3. Selected(sw) = one("c") \o one("b") \o one("a")
  BY DEF Selected
<1> HIDE DEF one
<1>4. one("c") \o one("b") \in Seq(sw \cap Forms)
  BY <1>2
<1> QED
  BY <1>2, <1>3, <1>4

LEMMA HeadAndTail ==
  ASSUME NEW S, NEW s \in Seq(S), s # <<>>
  PROVE  Head(s) \in S /\ Tail(s) \in Seq(S)
OBVIOUS

LEMMA HeadOption ==
  ASSUME ArgumentsInv, options # <<>>
  PROVE  Head(options).operand \in 0..(WordMod - 1)
<1> DEFINE S == [switch : Switches, operand : 0..(WordMod - 1)]
<1>1. options \in Seq(S)
  BY DEF ArgumentsInv
<1>2. \A o \in S : o.operand \in 0..(WordMod - 1)
  OBVIOUS
<1> HIDE DEF S
<1> QED
  BY <1>1, <1>2, HeadAndTail

LEMMA InitArguments == Init => ArgumentsInv
<1> SUFFICES ASSUME Init PROVE ArgumentsInv
  OBVIOUS
<1>1. /\ options \in Seq([switch : Switches, operand : 0..(WordMod - 1)])
      /\ forms = <<>> /\ printed = <<>> /\ Out!Init
  BY CliAssumption DEF Init
<1>2. printed \in Seq({}) /\ forms \in Seq(sw \cap Forms)
  BY <1>1
<1> QED
  BY <1>1, <1>2 DEF ArgumentsInv, Out!Init

(* What a step does to them.                                               *)
LEMMA OptionStep ==
  ASSUME SetFlag \/ SetWidth \/ OpenFile \/ Help \/ Unrecognized
  PROVE  /\ phase = "options" /\ options # <<>> /\ options' = Tail(options)
         /\ phase' \in {phase, "exit"} /\ sw \subseteq sw'
         /\ \A f \in Flags : f \in sw' <=> f \in sw \/ f = Head(options).switch
         /\ UNCHANGED <<given, forms, printed, job, object, todo, frames, began, prints,
                        streamVars, readerVars>>
BY DEF SetFlag, SetWidth, OpenFile, Help, Unrecognized, Option, Running, Exit, Flags

LEMMA EnterLoopStep ==
  ASSUME EnterLoop
  PROVE  /\ phase = "options" /\ options = <<>> /\ phase' = "top"
         /\ sw' = WithForm(sw) /\ sw \subseteq sw'
         /\ UNCHANGED <<given, options, forms, printed, outVars>>
BY DEF EnterLoop, WithForm, Running

LEMMA PrintObjectStep ==
  ASSUME PrintObject
  PROVE  /\ phase = "print" /\ forms # <<>> /\ forms' = Tail(forms) /\ phase' = "printing"
         /\ Out!BeginPrinting(Kind[Head(forms)], built,
                              IF Head(forms) = "c" THEN os ELSE Out!SetOutput)
         /\ job' = Kind[Head(forms)] /\ object' = built
         /\ UNCHANGED <<given, options, sw, printed, ret, streamVars, readerVars>>
BY DEF PrintObject, Running, Out!BeginPrinting

Entry == [kind |-> job, object |-> object, text |-> SubSeq(os'.out, began.at + 1, Len(os'.out))]

LEMMA PrintingStep ==
  ASSUME Printing
  PROVE  /\ phase = "printing" /\ Out!Continue
         /\ job' = "idle" => phase' = "print" /\ printed' = Append(printed, Entry)
         /\ job' # "idle" => UNCHANGED <<phase, printed, job, object, began>>
         /\ UNCHANGED <<given, options, sw, forms, ret, streamVars, readerVars>>
<1>1. /\ phase = "printing" /\ Out!Continue
      /\ UNCHANGED <<given, options, sw, forms, ret, streamVars, readerVars>>
  BY DEF Printing, Running
<1>2. CASE job' = "idle"
  <2>1. began' = began
    BY <1>1, <1>2, EndIsEnded
  <2>2. Out!Output' = SubSeq(os'.out, began.at + 1, Len(os'.out))
    BY <2>1 DEF Out!Output
  <2> QED
    BY <1>1, <1>2, <2>2 DEF Printing, Entry
<1>3. CASE job' # "idle"
  <2>1. job' = job /\ object' = object /\ began' = began
    BY <1>1, <1>3, StepIsAfter
  <2> QED
    BY <1>1, <1>3, <2>1 DEF Printing
<1> QED
  BY <1>2, <1>3

(* The steps of main that print nothing, after the options; those that go  *)
(* to another place of the loop; those of the reader that have no object   *)
(* yet, and those that have one.                                           *)
Moves == Top \/ BeginObject \/ ObjectPrinted \/ BlanksSkipped \/ Caught
Stays == ReadChar \/ SkipBlank \/ ScanObject \/ Stopped \/ UNCHANGED vars
Reads == ObjectRead \/ ScanToEof

LEMMA MovesStep ==
  ASSUME Moves
  PROVE  /\ phase' \in {"top", "blank", "object", "eof", "after", "exit"}
         /\ phase' # "exit" => phase \notin {"options", "object", "exit"}
         /\ UNCHANGED <<given, options, sw, forms, printed, outVars>>
BY DEF Moves, Top, BeginObject, ObjectPrinted, BlanksSkipped, Caught, Running, Exit

LEMMA StaysStep ==
  ASSUME Stays
  PROVE  /\ UNCHANGED <<given, mainVars, outVars>>
         /\ phase \in {"print", "printing"} => UNCHANGED built
BY DEF Stays, ReadChar, SkipBlank, ScanObject, Stopped, vars, Running, readerVars

LEMMA ReadsStep ==
  ASSUME Reads
  PROVE  /\ phase \in {"object", "eof"}
         /\ \/ phase' = phase /\ forms' = forms
            \/ phase' = "print" /\ forms' = Selected(sw)
         /\ UNCHANGED <<given, options, sw, printed, ret, outVars>>
BY DEF Reads, ObjectRead, ScanToEof, Running

LEMMA EveryStep ==
  ASSUME [Next]_vars
  PROVE  \/ SetFlag \/ SetWidth \/ OpenFile \/ Help \/ Unrecognized
         \/ EnterLoop \/ Moves \/ Stays \/ Reads \/ PrintObject \/ Printing
BY DEF Next, Main, Moves, Stays, Reads

LEMMA NextArguments ==
  ASSUME ArgumentsInv, [Next]_vars
  PROVE  ArgumentsInv'
<1>1. CASE SetFlag \/ SetWidth \/ OpenFile \/ Help \/ Unrecognized
  <2> DEFINE S == [switch : Switches, operand : 0..(WordMod - 1)]
  <2>1. options \in Seq(S) /\ forms = <<>>
    BY <1>1, OptionStep DEF ArgumentsInv
  <2> HIDE DEF S
  <2>2. options' \in Seq(S)
    BY <1>1, <2>1, OptionStep, HeadAndTail
  <2>3. forms' \in Seq(sw' \cap Forms)
    <3>1. forms' = <<>>
      BY <1>1, <2>1, OptionStep
    <3> QED
      BY <3>1, EmptySeq
  <2> QED
    BY <1>1, <2>2, <2>3, OptionStep DEF ArgumentsInv, S
<1>2. CASE EnterLoop
  <2>1. forms' \in Seq(sw' \cap Forms)
    BY <1>2, EnterLoopStep DEF ArgumentsInv
  <2> QED
    BY <1>2, <2>1, EnterLoopStep DEF ArgumentsInv
<1>3. CASE Moves
  BY <1>3, MovesStep DEF ArgumentsInv
<1>4. CASE Stays
  BY <1>4, StaysStep DEF ArgumentsInv, mainVars, outVars
<1>5. CASE Reads
  <2>1. forms' \in Seq(sw' \cap Forms)
    BY <1>5, ReadsStep, SelectedForms DEF ArgumentsInv
  <2> QED
    BY <1>5, <2>1, ReadsStep DEF ArgumentsInv
<1>6. CASE PrintObject
  <2>1. forms' \in Seq(sw \cap Forms)
    BY <1>6, PrintObjectStep, HeadAndTail DEF ArgumentsInv
  <2> QED
    BY <1>6, <2>1, PrintObjectStep DEF ArgumentsInv
<1>7. CASE Printing
  <2>1. PICK S : printed \in Seq(S)
    BY DEF ArgumentsInv
  <2>2. printed' \in Seq(S \cup {Entry})
    BY <1>7, <2>1, PrintingStep
  <2> QED
    BY <1>7, <2>2, PrintingStep DEF ArgumentsInv
<1> QED
  BY <1>1, <1>2, <1>3, <1>4, <1>5, <1>6, <1>7, EveryStep

(* What a print adds to the history.                                       *)
LEMMA OneMore ==
  ASSUME ArgumentsInv, Printing, job' = "idle"
  PROVE  /\ Len(printed) \in Nat /\ DOMAIN printed = 1..Len(printed)
         /\ Len(printed') = Len(printed) + 1 /\ DOMAIN printed' = 1..(Len(printed) + 1)
         /\ printed'[Len(printed) + 1] = Entry
         /\ \A i \in DOMAIN printed : printed'[i] = printed[i]
<1>1. PICK S : printed \in Seq(S)
  BY DEF ArgumentsInv
<1>2. printed' = Append(printed, Entry)
  BY PrintingStep
<1> QED
  BY <1>1, <1>2

-----------------------------------------------------------------------------
(* In base64 and advanced form an output is a run from its beginning, and  *)
(* what is entered for it is its text.                                     *)
RunInv ==
  /\ phase = "printing" /\ job # "canonical" => OnRun /\ began.at = 0
  /\ \A i \in DOMAIN printed :
       printed[i].kind # "canonical" => TextOf(printed[i].kind, printed[i].object, printed[i].text)

LEMMA InitRun == Init => RunInv
BY DEF Init, RunInv

LEMMA NextRun ==
  ASSUME RunInv, ArgumentsInv, [Next]_vars
  PROVE  RunInv'
<1>1. CASE SetFlag \/ SetWidth \/ OpenFile \/ Help \/ Unrecognized
  BY <1>1, OptionStep DEF RunInv
<1>2. CASE EnterLoop
  BY <1>2, EnterLoopStep DEF RunInv
<1>3. CASE Moves
  BY <1>3, MovesStep DEF RunInv
<1>4. CASE Stays
  <2>1. UNCHANGED <<phase, printed, os, job, object, todo, frames, began>>
    BY <1>4, StaysStep DEF mainVars, outVars
  <2>2. OnRun => OnRun'
    BY <2>1 DEF OnRun, State
  <2> QED
    BY <2>1, <2>2 DEF RunInv
<1>5. CASE Reads
  BY <1>5, ReadsStep DEF RunInv
<1>6. CASE PrintObject
  <2> DEFINE f == Head(forms)
  <2>1. CASE f = "c"
    <3>1. job' = "canonical"
      BY <1>6, <2>1, PrintObjectStep DEF Kind
    <3> QED
      BY <1>6, <3>1, PrintObjectStep DEF RunInv
  <2>2. CASE f # "c"
    <3>1. Out!BeginPrinting(Kind[f], built, Out!SetOutput)
      BY <1>6, <2>2, PrintObjectStep
    <3>2. OnRun' /\ began'.at = 0
      BY <3>1, RunBegins
    <3> QED
      BY <1>6, <3>2, PrintObjectStep DEF RunInv
  <2> QED
    BY <2>1, <2>2
<1>7. CASE Printing /\ job' = "idle"
  <2>1. job # "canonical" => TextOf(job, object, Entry.text)
    <3> SUFFICES ASSUME job # "canonical" PROVE TextOf(job, object, Entry.text)
      OBVIOUS
    <3>1. OnRun /\ began.at = 0 /\ Out!Continue
      BY <1>7, PrintingStep DEF RunInv
    <3>2. Entry.text = Whole(os'.out)
      BY <3>1 DEF Entry, Whole
    <3> QED
      BY <1>7, <3>1, <3>2, RunEnds
  <2>2. Entry.kind = job /\ Entry.object = object
    BY DEF Entry
  <2>3. \A i \in DOMAIN printed' :
          (i \in DOMAIN printed /\ printed'[i] = printed[i]) \/ printed'[i] = Entry
    BY <1>7, OneMore
  <2>4. phase' = "print"
    BY <1>7, PrintingStep
  <2> QED
    BY <2>1, <2>2, <2>3, <2>4 DEF RunInv
<1>8. CASE Printing /\ job' # "idle"
  <2>1. Out!Continue /\ phase = "printing" /\ UNCHANGED <<phase, printed, job, object, began>>
    BY <1>8, PrintingStep
  <2>2. job # "canonical" => OnRun'
    BY <1>8, <2>1, RunContinues DEF RunInv
  <2> QED
    BY <2>1, <2>2 DEF RunInv
<1> QED
  BY <1>1, <1>2, <1>3, <1>4, <1>5, <1>6, <1>7, <1>8, EveryStep

-----------------------------------------------------------------------------
(* Each object in all the forms of the command line: the options leave the *)
(* switches that the help text promises, and from then on the number of    *)
(* prints says where main is in the list of forms.                         *)
Initially == IF command = <<>> THEN {"a", "b", "c", "p", "x"} ELSE {}
Taken == Len(command) - Len(options)

OptionsRead ==
  /\ Taken \in Nat
  /\ \A i \in DOMAIN options : options[i] = command[Taken + i]
  /\ \A f \in Flags : f \in sw <=> f \in Initially \/ \E i \in 1..Taken : command[i].switch = f

Settled ==
  /\ Len(Selected(sw)) = Len(AskedFor)
  /\ \A i \in 1..Len(AskedFor) : AskedFor[i] = Kind[Selected(sw)[i]]
  /\ "x" \in sw <=> Repeats

(* What is printed is an object.                                           *)
AnyObject == {t \in Seq(Events) : IsObject(t)}

Going == phase # "exit" /\ status = "running"

BuiltInv == Going /\ phase \in {"print", "printing"} => built \in AnyObject

(* Of the current object, so many forms have been printed.                 *)
Place == Len(printed) % Len(AskedFor)

InTurn(i) ==
  /\ In!IsObject(printed[i].object)
  /\ printed[i].kind = AskedFor[((i - 1) % Len(AskedFor)) + 1]
  /\ (i - 1) % Len(AskedFor) > 0 => printed[i].object = printed[i - 1].object

FormsLeft ==
  /\ Len(forms) <= Len(AskedFor)
  /\ \A i \in 1..Len(forms) : forms[i] = Selected(sw)[Len(AskedFor) - Len(forms) + i]
  /\ Place > 0 => printed[Len(printed)].object = built

BeforePrint ==
  /\ FormsLeft
  /\ Place = IF forms = <<>> THEN 0 ELSE Len(AskedFor) - Len(forms)
  /\ forms # <<>> => Repeats \/ Len(printed) < Len(AskedFor)

DuringPrint ==
  /\ FormsLeft
  /\ Place = Len(AskedFor) - Len(forms) - 1
  /\ job = AskedFor[Place + 1] /\ object = built
  /\ Repeats \/ Len(printed) < Len(AskedFor)

TurnInv ==
  /\ command \in Seq([switch : Switches, operand : 0..(WordMod - 1)])
  /\ phase = "options" => OptionsRead
  /\ phase \notin {"options", "exit"} => Settled
  /\ \A i \in DOMAIN printed : InTurn(i)
  /\ Repeats \/ Len(printed) <= Len(AskedFor)
  /\ phase \in {"top", "blank", "object", "eof"} => Place = 0 /\ (Repeats \/ printed = <<>>)
  /\ phase = "after" => Place = 0 /\ Repeats
  /\ phase = "print" => BeforePrint
  /\ phase = "printing" => DuringPrint
  /\ phase = "exit" /\ ret = 0 => Place = 0

LEMMA WholeObjects == \A t : IsObject(t) => In!IsObject(t)
<1>1. Opened = In!Opened /\ Closed = In!Closed
  BY DEF Opened, Closed, In!Opened, In!Closed
<1>2. \A t : Unclosed(t) = In!Unclosed(t)
  BY <1>1 DEF Unclosed, In!Unclosed, Count, In!Count, Cardinality, In!Cardinality
<1> QED
  BY <1>2 DEF IsObject, In!IsObject

(* Remainders, for one to three forms.                                     *)
LEMMA Turns ==
  ASSUME NEW n \in 1..3, NEW k \in Nat
  PROVE  /\ k % n \in 0..(n - 1) /\ 0 % n = 0
         /\ (k + 1) % n = IF (k % n) + 1 = n THEN 0 ELSE (k % n) + 1
         /\ k < n => k % n = k
<1>1. n = 1 \/ n = 2 \/ n = 3
  OBVIOUS
<1>2. CASE n = 1
  BY <1>2
<1>3. CASE n = 2
  BY <1>3
<1>4. CASE n = 3
  BY <1>4
<1> QED
  BY <1>1, <1>2, <1>3, <1>4

(* The forms of a set of letters depend on a, b and c only.                *)
LEMMA SelectedLetters ==
  ASSUME NEW S, NEW T, \A f \in Forms : f \in S <=> f \in T
  PROVE  Selected(S) = Selected(T)
BY DEF Selected, Forms

LEMMA SelectedLength ==
  ASSUME NEW S
  PROVE  /\ Selected(S) \in Seq(Forms) /\ Len(Selected(S)) \in 0..3
         /\ S \cap Forms # {} => Len(Selected(S)) \in 1..3
         /\ S \cap Forms = {"c"} => Selected(S) = <<"c">>
         /\ Forms \subseteq S => Selected(S) = <<"c", "b", "a">>
<1> DEFINE one(f) == IF f \in S THEN <<f>> ELSE <<>>
<1>1. ASSUME NEW f \in Forms
      PROVE  one(f) \in Seq(Forms) /\ Len(one(f)) = IF f \in S THEN 1 ELSE 0
  <2>1. CASE f \in S
    BY <2>1
  <2>2. CASE f \notin S
    <3>1. one(f) = <<>>
      BY <2>2
    <3> QED
      BY <2>2, <3>1, EmptySeq
  <2> QED
    BY <2>1, <2>2
<1>2. Selected(S) = one("c") \o one("b") \o one("a")
  BY DEF Selected
<1> HIDE DEF one
<1>3. /\ one("c") \in Seq(Forms) /\ Len(one("c")) = IF "c" \in S THEN 1 ELSE 0
      /\ one("b") \in Seq(Forms) /\ Len(one("b")) = IF "b" \in S THEN 1 ELSE 0
      /\ one("a") \in Seq(Forms) /\ Len(one("a")) = IF "a" \in S THEN 1 ELSE 0
  BY <1>1 DEF Forms
<1>4. /\ Selected(S) \in Seq(Forms)
      /\ Len(Selected(S)) = Len(one("c")) + Len(one("b")) + Len(one("a"))
  BY <1>2, <1>3
<1> DEFINE n == Len(Selected(S))
           x == Len(one("c"))
           y == Len(one("b"))
           z == Len(one("a"))
<1>5. n \in 0..3 /\ (S \cap Forms # {} => n \in 1..3)
  <2>1. n = x + y + z
    BY <1>4
  <2>2. /\ x \in {0, 1} /\ y \in {0, 1} /\ z \in {0, 1}
        /\ S \cap Forms # {} => x = 1 \/ y = 1 \/ z = 1
    BY <1>3 DEF Forms
  <2> HIDE DEF n, x, y, z
  <2> QED
    BY <2>1, <2>2
<1>6. Len(Selected(S)) \in 0..3 /\ (S \cap Forms # {} => Len(Selected(S)) \in 1..3)
  BY <1>5
<1>7. S \cap Forms = {"c"} => Selected(S) = <<"c">>
  <2> SUFFICES ASSUME S \cap Forms = {"c"} PROVE Selected(S) = <<"c">>
    OBVIOUS
  <2>1. "c" \in S /\ "b" \notin S /\ "a" \notin S
    BY DEF Forms
  <2>2. Selected(S) = <<"c">> \o <<>> \o <<>>
    BY <2>1 DEF Selected
  <2> QED
    BY <2>2
<1>8. Forms \subseteq S => Selected(S) = <<"c", "b", "a">>
  <2> SUFFICES ASSUME Forms \subseteq S PROVE Selected(S) = <<"c", "b", "a">>
    OBVIOUS
  <2>1. Selected(S) = <<"c">> \o <<"b">> \o <<"a">>
    BY DEF Selected, Forms
  <2>2. Selected(S) \in Seq(Forms) /\ Len(Selected(S)) = 3
    BY <2>1 DEF Forms
  <2>3. Selected(S)[1] = "c" /\ Selected(S)[2] = "b" /\ Selected(S)[3] = "a"
    BY <2>1
  <2> QED
    BY <2>2, <2>3
<1> QED
  BY <1>4, <1>6, <1>7, <1>8

LEMMA AskedForLength == Len(AskedFor) \in 1..3
<1>1. CASE command = <<>>
  <2>1. AskedFor = <<"canonical", "base64", "advanced">>
    BY <1>1 DEF AskedFor
  <2> QED
    BY <2>1
<1>2. CASE command # <<>> /\ Letters \cap {"a", "b", "c"} = {}
  <2>1. AskedFor = <<"canonical">>
    BY <1>2 DEF AskedFor
  <2> QED
    BY <2>1
<1>3. CASE command # <<>> /\ Letters \cap {"a", "b", "c"} # {}
  <2>1. AskedFor = [i \in DOMAIN Selected(Letters) |-> Kind[Selected(Letters)[i]]]
    BY <1>3 DEF AskedFor
  <2>2. Selected(Letters) \in Seq(Forms) /\ Len(Selected(Letters)) \in 1..3
    BY <1>3, SelectedLength DEF Forms
  <2>3. Len(AskedFor) = Len(Selected(Letters))
    <3> DEFINE n == Len(Selected(Letters))
               at(i) == Kind[Selected(Letters)[i]]
    <3>1. AskedFor = [i \in 1..n |-> at(i)] /\ n \in Nat
      BY <2>1, <2>2
    <3> HIDE DEF n, at
    <3>2. Len([i \in 1..n |-> at(i)]) = n
      BY <3>1
    <3> QED
      BY <3>1, <3>2 DEF n
  <2> QED
    BY <2>2, <2>3
<1> QED
  BY <1>1, <1>2, <1>3

LEMMA SameCommand ==
  ASSUME command' = command
  PROVE  AskedFor' = AskedFor /\ (Repeats' <=> Repeats)
BY DEF AskedFor, Repeats, Letters

(* The options that were taken have left their letters in sw.              *)
LEMMA OptionTaken ==
  ASSUME NEW S, options \in Seq(S), command \in Seq(S), OptionsRead, options # <<>>,
         options' = Tail(options), command' = command,
         \A f \in Flags : f \in sw' <=> f \in sw \/ f = Head(options).switch
  PROVE  OptionsRead'
<1>1. /\ Len(options) \in Nat /\ Len(command) \in Nat /\ Len(options) > 0
      /\ Len(options') = Len(options) - 1
      /\ DOMAIN options = 1..Len(options) /\ DOMAIN options' = 1..Len(options')
      /\ \A i \in DOMAIN options' : options'[i] = options[i + 1]
      /\ Head(options) = options[1]
  OBVIOUS
<1>2. Taken \in Nat /\ Taken' = Taken + 1
  BY <1>1 DEF Taken, OptionsRead
<1>3. \A i \in DOMAIN options : options[i] = command[Taken + i]
  BY DEF OptionsRead
<1>4. Head(options) = command[Taken']
  BY <1>1, <1>2, <1>3
<1>5. ASSUME NEW i \in DOMAIN options' PROVE options'[i] = command'[Taken' + i]
  <2>1. i \in Nat /\ i + 1 \in DOMAIN options /\ options'[i] = options[i + 1]
    BY <1>1
  <2>2. Taken + (i + 1) = Taken' + i
    BY <1>2, <2>1
  <2> QED
    BY <1>3, <2>1, <2>2
<1>6. ASSUME NEW f \in Flags
      PROVE  f \in sw' <=> f \in Initially' \/ \E i \in 1..Taken' : command'[i].switch = f
  <2>1. f \in sw <=> f \in Initially \/ \E i \in 1..Taken : command[i].switch = f
    BY DEF OptionsRead
  <2>2. Initially' = Initially
    BY DEF Initially
  <2>3. 1..Taken' = (1..Taken) \cup {Taken'}
    BY <1>2
  <2> QED
    BY <1>4, <2>1, <2>2, <2>3
<1> QED
  BY <1>2, <1>5, <1>6 DEF OptionsRead

(* When all have been taken, the switches are those of the command line,   *)
(* and with the default among them they are the forms asked for.           *)
LEMMA OptionsSettle ==
  ASSUME command \in Seq([switch : Switches, operand : 0..(WordMod - 1)]), OptionsRead,
         options = <<>>, command' = command, sw' = WithForm(sw)
  PROVE  Settled'
<1>1. Taken = Len(command) /\ DOMAIN command = 1..Len(command) /\ Len(command) \in Nat
  BY DEF Taken
<1>2. \A f \in Flags : f \in sw <=> f \in Initially \/ f \in Letters
  BY <1>1 DEF OptionsRead, Letters
<1>3. AskedFor' = AskedFor /\ (Repeats' <=> Repeats)
  BY SameCommand
<1>4. "x" \in sw' <=> Repeats
  <2>1. "x" \in sw' <=> "x" \in sw
    BY DEF WithForm
  <2>2. "x" \in sw <=> "x" \in Initially \/ "x" \in Letters
    BY <1>2 DEF Flags
  <2> QED
    BY <2>1, <2>2 DEF Repeats, Initially
<1>5. Forms \subseteq Flags
  BY DEF Forms, Flags
<1> DEFINE F == Selected(sw')
<1>6. Len(F) = Len(AskedFor) /\ \A i \in 1..Len(AskedFor) : AskedFor[i] = Kind[F[i]]
  <2>1. CASE command = <<>>
    <3>1. Forms \subseteq sw'
      BY <1>2, <1>5, <2>1 DEF WithForm, Initially, Forms
    <3>2. F = <<"c", "b", "a">>
      BY <3>1, SelectedLength
    <3>3. AskedFor = <<"canonical", "base64", "advanced">>
      BY <2>1 DEF AskedFor
    <3>4. /\ Len(F) = 3 /\ F[1] = "c" /\ F[2] = "b" /\ F[3] = "a"
          /\ Len(AskedFor) = 3 /\ AskedFor[1] = "canonical" /\ AskedFor[2] = "base64"
          /\ AskedFor[3] = "advanced"
      BY <3>2, <3>3
    <3>5. Kind["c"] = "canonical" /\ Kind["b"] = "base64" /\ Kind["a"] = "advanced"
      BY DEF Kind
    <3>6. \A i \in 1..3 : i = 1 \/ i = 2 \/ i = 3
      OBVIOUS
    <3> HIDE DEF F
    <3> QED
      BY <3>4, <3>5, <3>6
  <2>2. CASE command # <<>> /\ Letters \cap Forms = {}
    <3>1. sw' \cap Forms = {"c"}
      BY <1>2, <1>5, <2>2 DEF WithForm, Initially, Forms
    <3>2. F = <<"c">>
      BY <3>1, SelectedLength
    <3>3. AskedFor = <<"canonical">>
      BY <2>2 DEF AskedFor, Forms
    <3>4. /\ Len(F) = 1 /\ F[1] = "c" /\ Len(AskedFor) = 1 /\ AskedFor[1] = "canonical"
      BY <3>2, <3>3
    <3>5. Kind["c"] = "canonical"
      BY DEF Kind
    <3>6. \A i \in 1..1 : i = 1
      OBVIOUS
    <3> HIDE DEF F
    <3> QED
      BY <3>4, <3>5, <3>6
  <2>3. CASE command # <<>> /\ Letters \cap Forms # {}
    <3>1. \A f \in Forms : f \in sw' <=> f \in Letters
      BY <1>2, <1>5, <2>3 DEF WithForm, Initially, Forms
    <3>2. F = Selected(Letters)
      BY <3>1, SelectedLetters
    <3>3. AskedFor = [i \in DOMAIN F |-> Kind[F[i]]]
      BY <2>3, <3>2 DEF AskedFor, Forms
    <3>4. F \in Seq(Forms)
      BY SelectedLength
    <3> DEFINE n == Len(F)
               at(i) == Kind[F[i]]
    <3>5. AskedFor = [i \in 1..n |-> at(i)] /\ n \in Nat
      BY <3>3, <3>4
    <3>6. \A i \in 1..n : AskedFor[i] = at(i)
      BY <3>5
    <3> HIDE DEF F, n, at
    <3>7. Len([i \in 1..n |-> at(i)]) = n
      BY <3>5
    <3> QED
      BY <3>5, <3>6, <3>7 DEF n, at
  <2> QED
    BY <2>1, <2>2, <2>3
<1> QED
  BY <1>3, <1>4, <1>6 DEF Settled

LEMMA InitTurn == Init => TurnInv
<1> SUFFICES ASSUME Init PROVE TurnInv
  OBVIOUS
<1>1. /\ command \in Seq([switch : Switches, operand : 0..(WordMod - 1)])
      /\ options = command /\ phase = "options" /\ printed = <<>>
      /\ sw = Initially
  BY CliAssumption DEF Init, Initially
<1>2. Taken = 0
  BY <1>1 DEF Taken
<1>3. OptionsRead
  <2>1. \A i \in DOMAIN options : i \in Nat /\ 0 + i = i
    BY <1>1
  <2>2. 1..0 = {}
    OBVIOUS
  <2> QED
    BY <1>1, <1>2, <2>1, <2>2 DEF OptionsRead
<1>4. DOMAIN printed = {} /\ Len(printed) = 0 /\ 0 <= Len(AskedFor)
  BY <1>1, AskedForLength
<1> QED
  BY <1>1, <1>3, <1>4 DEF TurnInv

(* What a step that prints nothing leaves.                                 *)
LEMMA PlaceKept ==
  ASSUME UNCHANGED <<command, sw, printed>>
  PROVE  /\ AskedFor' = AskedFor /\ (Repeats' <=> Repeats) /\ Place' = Place
         /\ Settled => Settled'
         /\ \A i : InTurn(i) => InTurn(i)'
<1>1. AskedFor' = AskedFor /\ (Repeats' <=> Repeats)
  BY SameCommand
<1> QED
  BY <1>1 DEF Place, Settled, InTurn

LEMMA TurnKept ==
  ASSUME TurnInv, UNCHANGED <<command, options, sw, forms, printed, ret, phase>>,
         phase \in {"print", "printing"} => UNCHANGED <<job, object, built>>
  PROVE  TurnInv'
<1>1. /\ AskedFor' = AskedFor /\ (Repeats' <=> Repeats) /\ Place' = Place
      /\ Settled => Settled'
      /\ \A i : InTurn(i) => InTurn(i)'
  BY PlaceKept
<1>2. phase = "options" => OptionsRead'
  BY DEF TurnInv, OptionsRead, Taken, Initially
<1>3. phase \in {"print", "printing"} /\ FormsLeft => FormsLeft'
  BY <1>1 DEF FormsLeft
<1>4. phase = "print" => BeforePrint'
  BY <1>1, <1>3 DEF TurnInv, BeforePrint
<1>5. phase = "printing" => DuringPrint'
  BY <1>1, <1>3 DEF TurnInv, DuringPrint
<1> QED
  BY <1>1, <1>2, <1>4, <1>5 DEF TurnInv

(* From one place of the loop, outside of an output, to another.           *)
LEMMA TurnMoves ==
  ASSUME TurnInv, UNCHANGED <<command, sw, printed>>,
         phase' \in {"top", "blank", "object", "eof", "after", "exit"},
         phase' # "exit" => phase \notin {"options", "exit"},
         Place = 0 \/ (phase' = "exit" /\ ret' = -1),
         phase' \in {"top", "blank", "object", "eof"} => Repeats \/ printed = <<>>,
         phase' = "after" => Repeats
  PROVE  TurnInv'
<1>1. /\ AskedFor' = AskedFor /\ (Repeats' <=> Repeats) /\ Place' = Place
      /\ Settled => Settled'
      /\ \A i : InTurn(i) => InTurn(i)'
  BY PlaceKept
<1>2. ret' = -1 => ret' # 0
  OBVIOUS
<1> QED
  BY <1>1, <1>2 DEF TurnInv

(* The options.                                                            *)
LEMMA TurnOption ==
  ASSUME TurnInv, ArgumentsInv, SetFlag \/ SetWidth \/ OpenFile \/ Help \/ Unrecognized
  PROVE  TurnInv'
<1> DEFINE S == [switch : Switches, operand : 0..(WordMod - 1)]
<1>1. /\ phase = "options" /\ options # <<>> /\ options' = Tail(options)
      /\ UNCHANGED <<command, printed>> /\ phase' \in {phase, "exit"}
      /\ \A f \in Flags : f \in sw' <=> f \in sw \/ f = Head(options).switch
  BY OptionStep DEF given
<1>2. /\ options \in Seq(S) /\ command \in Seq(S) /\ OptionsRead /\ printed = <<>>
  BY <1>1 DEF TurnInv, ArgumentsInv
<1> HIDE DEF S
<1>3. OptionsRead'
  BY <1>1, <1>2, OptionTaken
<1>4. AskedFor' = AskedFor
  BY <1>1, SameCommand
<1>5. DOMAIN printed' = {} /\ Len(printed') <= Len(AskedFor) /\ Place' = 0
  <2>1. Len(printed') = 0 /\ DOMAIN printed' = {}
    BY <1>1, <1>2
  <2>2. Len(AskedFor) \in 1..3
    BY AskedForLength
  <2>3. 0 % Len(AskedFor) = 0
    BY <2>2, Turns
  <2> QED
    BY <1>4, <2>1, <2>2, <2>3 DEF Place
<1> QED
  BY <1>1, <1>2, <1>3, <1>4, <1>5 DEF TurnInv, S

LEMMA TurnEnterLoop ==
  ASSUME TurnInv, ArgumentsInv, EnterLoop
  PROVE  TurnInv'
<1>1. /\ phase = "options" /\ options = <<>> /\ phase' = "top" /\ sw' = WithForm(sw)
      /\ UNCHANGED <<command, printed>>
  BY EnterLoopStep DEF given
<1>2. /\ command \in Seq([switch : Switches, operand : 0..(WordMod - 1)])
      /\ OptionsRead /\ printed = <<>>
  BY <1>1 DEF TurnInv, ArgumentsInv
<1>3. Settled'
  BY <1>1, <1>2, OptionsSettle
<1>4. AskedFor' = AskedFor
  BY <1>1, SameCommand
<1>5. DOMAIN printed' = {} /\ Len(printed') <= Len(AskedFor) /\ Place' = 0
  <2>1. Len(printed') = 0 /\ DOMAIN printed' = {}
    BY <1>1, <1>2
  <2>2. Len(AskedFor) \in 1..3
    BY AskedForLength
  <2>3. 0 % Len(AskedFor) = 0
    BY <2>2, Turns
  <2> QED
    BY <1>4, <2>1, <2>2, <2>3 DEF Place
<1> QED
  BY <1>1, <1>2, <1>3, <1>4, <1>5 DEF TurnInv

(* An object has been read: all its forms are to come.                     *)
LEMMA TurnReads ==
  ASSUME TurnInv, phase \in {"object", "eof"}, phase' = "print", forms' = Selected(sw),
         UNCHANGED <<command, sw, printed>>
  PROVE  TurnInv'
<1>1. /\ AskedFor' = AskedFor /\ (Repeats' <=> Repeats) /\ Place' = Place
      /\ Settled => Settled'
      /\ \A i : InTurn(i) => InTurn(i)'
  BY PlaceKept
<1>2. Settled /\ Place = 0 /\ (Repeats \/ printed = <<>>)
  BY DEF TurnInv
<1> DEFINE n == Len(AskedFor)
<1>3. Len(forms') = n /\ n \in 1..3 /\ Selected(sw') = Selected(sw)
  BY <1>2, AskedForLength DEF Settled
<1>4. forms' # <<>> /\ n - Len(forms') = 0
  BY <1>3
<1>5. \A i \in 1..Len(forms') : (n - Len(forms')) + i = i
  BY <1>3
<1>6. FormsLeft'
  BY <1>1, <1>2, <1>3, <1>5 DEF FormsLeft
<1>7. Repeats \/ Len(printed) < n
  <2>1. printed = <<>> => Len(printed) = 0
    OBVIOUS
  <2> QED
    BY <1>2, <1>3, <2>1
<1>8. BeforePrint'
  BY <1>1, <1>2, <1>4, <1>6, <1>7 DEF BeforePrint
<1> QED
  BY <1>1, <1>2, <1>8 DEF TurnInv

(* A form is begun: it is the one whose turn it is.                        *)
LEMMA TurnBegins ==
  ASSUME TurnInv, ArgumentsInv, PrintObject
  PROVE  TurnInv'
<1>1. /\ phase = "print" /\ forms # <<>> /\ forms' = Tail(forms) /\ phase' = "printing"
      /\ UNCHANGED <<command, sw, printed, readerVars>>
      /\ job' = Kind[Head(forms)] /\ object' = built
  BY PrintObjectStep DEF given
<1>2. /\ AskedFor' = AskedFor /\ (Repeats' <=> Repeats) /\ Place' = Place
      /\ Settled => Settled'
      /\ \A i : InTurn(i) => InTurn(i)'
  BY <1>1, PlaceKept
<1> DEFINE n == Len(AskedFor)
           k == Len(forms)
<1>3. /\ Settled /\ FormsLeft /\ Place = n - k
      /\ Repeats \/ Len(printed) < n
  BY <1>1 DEF TurnInv, BeforePrint
<1>4. /\ n \in 1..3 /\ k \in 1..n /\ Len(forms') = k - 1
      /\ Head(forms) = forms[1] /\ \A i \in 1..(k - 1) : forms'[i] = forms[i + 1]
  <2>1. forms \in Seq(sw \cap Forms)
    BY DEF ArgumentsInv
  <2>2. k \in Nat /\ k > 0 /\ Len(forms') = k - 1 /\ Head(forms) = forms[1]
    BY <1>1, <2>1
  <2>3. \A i \in 1..(k - 1) : forms'[i] = forms[i + 1]
    BY <1>1, <2>1
  <2> QED
    BY <1>3, <2>2, <2>3, AskedForLength DEF FormsLeft
<1>5. FormsLeft'
  <2>1. ASSUME NEW i \in 1..Len(forms')
        PROVE  forms'[i] = Selected(sw)[n - Len(forms') + i]
    <3>1. i + 1 \in 1..k /\ n - k + (i + 1) = n - Len(forms') + i /\ forms'[i] = forms[i + 1]
      BY <1>4
    <3> QED
      BY <1>3, <3>1 DEF FormsLeft
  <2>2. Len(forms') <= n
    BY <1>4
  <2>3. Place' > 0 => printed'[Len(printed')].object = built'
    BY <1>1, <1>2, <1>3 DEF FormsLeft, readerVars
  <2> QED
    BY <1>1, <1>2, <2>1, <2>2, <2>3 DEF FormsLeft
<1>6. job' = AskedFor[Place + 1]
  <2>1. Place + 1 \in 1..n /\ n - k + 1 = Place + 1 /\ 1 \in 1..k
    BY <1>3, <1>4
  <2>2. Head(forms) = Selected(sw)[Place + 1]
    BY <1>3, <1>4, <2>1 DEF FormsLeft
  <2> QED
    BY <1>1, <1>3, <2>1, <2>2 DEF Settled
<1>7. Place = n - Len(forms') - 1
  BY <1>3, <1>4
<1>8. DuringPrint'
  BY <1>1, <1>2, <1>3, <1>5, <1>6, <1>7 DEF DuringPrint, readerVars
<1> QED
  BY <1>1, <1>2, <1>3, <1>8 DEF TurnInv

(* ... and printed: the next is the one after it, or that of the next      *)
(* object.                                                                 *)
LEMMA TurnEnds ==
  ASSUME TurnInv, ArgumentsInv, BuiltInv, Printing, job' = "idle"
  PROVE  TurnInv'
<1> DEFINE e == Entry
           n == Len(AskedFor)
           m == Len(printed)
<1>1. /\ phase = "printing" /\ phase' = "print"
      /\ UNCHANGED <<command, sw, forms, readerVars>>
  BY PrintingStep DEF given
<1>2. /\ Settled /\ FormsLeft /\ Place = n - Len(forms) - 1 /\ job = AskedFor[Place + 1]
      /\ object = built /\ (Repeats \/ m < n)
      /\ \A i \in DOMAIN printed : InTurn(i)
  BY <1>1 DEF TurnInv, DuringPrint
<1>3. AskedFor' = AskedFor /\ (Repeats' <=> Repeats) /\ Settled'
  BY <1>1, <1>2, SameCommand DEF Settled
<1>4. n \in 1..3 /\ Len(forms) \in Nat /\ (forms = <<>> <=> n - Len(forms) = n)
  <2>1. forms \in Seq(sw \cap Forms)
    BY DEF ArgumentsInv
  <2> QED
    BY <2>1, AskedForLength
<1>5. /\ m \in Nat /\ Len(printed') = m + 1 /\ DOMAIN printed' = 1..(m + 1)
      /\ DOMAIN printed = 1..m /\ printed'[m + 1] = e
      /\ \A i \in DOMAIN printed : printed'[i] = printed[i]
  BY OneMore
<1>6. e.kind = job /\ e.object = object
  BY DEF Entry
<1>7. \A i \in 1..m : printed'[i] = printed[i]
  BY <1>5
<1> HIDE DEF e
<1>8. Place = m % n /\ Place' = (m + 1) % n
  BY <1>3, <1>5, <1>7 DEF Place
<1> HIDE DEF n, m
<1>9. /\ Place \in 0..(n - 1) /\ Place' = IF Place + 1 = n THEN 0 ELSE Place + 1
      /\ m < n => Place = m
      /\ m = 0 => Place = 0
  <2>1. n \in 1..3 /\ m \in Nat
    BY <1>4, <1>5, <1>7
  <2>2. /\ m % n \in 0..(n - 1) /\ 0 % n = 0
        /\ (m + 1) % n = IF (m % n) + 1 = n THEN 0 ELSE (m % n) + 1
        /\ m < n => m % n = m
    BY <2>1, Turns
  <2> QED
    BY <1>8, <2>2
<1>10. ASSUME NEW i \in DOMAIN printed' PROVE InTurn(i)'
  <2>1. CASE i \in 1..m
    <3>1. InTurn(i) /\ printed'[i] = printed[i]
      BY <1>2, <1>5, <1>7, <2>1
    <3>2. (i - 1) % n > 0 => i - 1 \in 1..m
      <4>1. i = 1 => (i - 1) % n = 0
        <5>1. n \in 1..3 /\ 1 - 1 = 0
          BY <1>4
        <5>2. 0 % n = 0
          BY <5>1, Turns
        <5> QED
          BY <5>1, <5>2
      <4> QED
        BY <1>5, <1>7, <2>1, <4>1
    <3> QED
      BY <1>3, <1>5, <1>7, <3>1, <3>2 DEF InTurn, n
  <2>2. CASE i = m + 1
    <3>1. (i - 1) % n = Place /\ i - 1 = m
      BY <1>5, <1>7, <1>8, <2>2
    <3>2. In!IsObject(object)
      <4>1. Going
        BY <1>1 DEF Printing, Running, In!Ready, Going
      <4> QED
        BY <1>1, <1>2, <4>1, WholeObjects DEF BuiltInv, AnyObject
    <3>3. Place > 0 => m \in 1..m /\ printed[m].object = object
      BY <1>2, <1>5, <1>7, <1>9 DEF FormsLeft, m
    <3>4. printed'[i].object = object /\ printed'[i].kind = job
      BY <1>6, <1>5, <1>7, <2>2
    <3> QED
      BY <1>2, <1>3, <1>5, <1>7, <3>1, <3>2, <3>3, <3>4 DEF InTurn, n
  <2> QED
    BY <1>5, <1>7, <2>1, <2>2
<1>11. Repeats \/ m + 1 <= n
  BY <1>2, <1>4, <1>5, <1>7 DEF m, n
<1>12. BeforePrint'
  <2>1. FormsLeft'
    <3>1. printed'[m + 1].object = built' /\ Len(printed') = m + 1
      BY <1>1, <1>2, <1>6, <1>5, <1>7 DEF readerVars
    <3> QED
      BY <1>1, <1>2, <1>3, <3>1 DEF FormsLeft
  <2>2. Place' = IF forms' = <<>> THEN 0 ELSE n - Len(forms')
    BY <1>1, <1>2, <1>4, <1>9 DEF n
  <2>3. forms # <<>> => Repeats \/ m + 1 < n
    BY <1>2, <1>4, <1>5, <1>7, <1>9 DEF m, n
  <2> QED
    BY <1>1, <1>3, <1>5, <1>7, <2>1, <2>2, <2>3 DEF BeforePrint, n
<1> QED
  BY <1>1, <1>3, <1>5, <1>7, <1>10, <1>11, <1>12 DEF TurnInv, n

LEMMA NextTurn ==
  ASSUME TurnInv, ArgumentsInv, BuiltInv, [Next]_vars
  PROVE  TurnInv'
<1>1. CASE SetFlag \/ SetWidth \/ OpenFile \/ Help \/ Unrecognized
  BY <1>1, TurnOption
<1>2. CASE EnterLoop
  BY <1>2, TurnEnterLoop
<1>3. CASE Moves
  <2>1. UNCHANGED <<command, sw, printed>>
    BY <1>3, MovesStep DEF given
  <2>2. CASE Top \/ BeginObject
    <3>1. phase \in {"top", "blank"} /\ phase' \in {"exit", "blank", "eof", "object"}
      BY <2>2 DEF Top, BeginObject, Running, Exit
    <3>2. Place = 0 /\ (Repeats \/ printed = <<>>)
      BY <3>1 DEF TurnInv
    <3> QED
      BY <2>1, <3>1, <3>2, TurnMoves
  <2>3. CASE ObjectPrinted
    <3>1. /\ phase = "print" /\ forms = <<>> /\ phase' \in {"exit", "after", "top"}
          /\ phase' # "exit" => "x" \in sw
      BY <2>3 DEF ObjectPrinted, Running, Exit
    <3>2. Place = 0 /\ Settled
      BY <3>1 DEF TurnInv, BeforePrint
    <3>3. phase' # "exit" => Repeats
      BY <3>1, <3>2 DEF Settled
    <3> QED
      BY <2>1, <3>1, <3>2, <3>3, TurnMoves
  <2>4. CASE BlanksSkipped
    <3>1. phase = "after" /\ phase' = "top"
      BY <2>4 DEF BlanksSkipped, Running
    <3>2. Place = 0 /\ Repeats
      BY <3>1 DEF TurnInv
    <3> QED
      BY <2>1, <3>1, <3>2, TurnMoves
  <2>5. CASE Caught
    <3>1. phase' = "exit" /\ ret' = -1
      BY <2>5 DEF Caught, Exit
    <3> QED
      BY <2>1, <3>1, TurnMoves
  <2> QED
    BY <1>3, <2>2, <2>3, <2>4, <2>5 DEF Moves
<1>4. CASE Stays
  <2>1. /\ UNCHANGED <<command, options, sw, forms, printed, ret, phase, job, object>>
        /\ phase \in {"print", "printing"} => UNCHANGED built
    BY <1>4, StaysStep DEF given, mainVars, outVars
  <2> QED
    BY <2>1, TurnKept
<1>5. CASE Reads
  <2>1. /\ phase \in {"object", "eof"} /\ UNCHANGED <<command, options, sw, printed, ret>>
        /\ \/ phase' = phase /\ forms' = forms
           \/ phase' = "print" /\ forms' = Selected(sw)
    BY <1>5, ReadsStep DEF given
  <2> QED
    BY <2>1, TurnKept, TurnReads
<1>6. CASE PrintObject
  BY <1>6, TurnBegins
<1>7. CASE Printing /\ job' = "idle"
  BY <1>7, TurnEnds
<1>8. CASE Printing /\ job' # "idle"
  <2>1. UNCHANGED <<command, options, sw, forms, printed, ret, phase, job, object, built>>
    BY <1>8, PrintingStep DEF given, readerVars
  <2> QED
    BY <2>1, TurnKept
<1> QED
  BY <1>1, <1>2, <1>3, <1>4, <1>5, <1>6, <1>7, <1>8, EveryStep

-----------------------------------------------------------------------------
LEMMA InputCharType ==
  ASSUME file \in Files, count \in Int, count >= -1
  PROVE  InputChar \in Octets \cup {EOF}
<1>1. file.text \in Seq(Octets)
  BY CliAssumption
<1>2. Len(file.text) \in Nat /\ \A i \in 1..Len(file.text) : file.text[i] \in Octets
  BY <1>1
<1>3. CASE count + 1 < Len(file.text)
  <2>1. count + 2 \in 1..Len(file.text)
    BY <1>2, <1>3
  <2> QED
    BY <1>2, <1>3, <2>1 DEF InputChar
<1>4. CASE ~(count + 1 < Len(file.text))
  BY <1>4 DEF InputChar
<1> QED
  BY <1>3, <1>4

(* A string alone is an object.                                            *)
LEMMA StringIsObject ==
  ASSUME NEW h \in Seq(Seq(Octets)), NEW d \in Seq(Octets)
  PROVE  <<String(h, d)>> \in Seq(Events) /\ IsObject(<<String(h, d)>>)
<1> DEFINE e == String(h, d)
<1>1. e \in Events /\ e \notin {Opened, Closed}
  BY DEF Events, String, Opened, Closed
<1> HIDE DEF e
<1>2. Append(<<>>, e) = <<e>> /\ <<>> \in Seq(Events) /\ <<e>> \in Seq(Events) /\ Len(<<e>>) = 1
  BY <1>1
<1>3. Unclosed(<<>>) = 0
  BY CountEmpty DEF Unclosed
<1>4. Unclosed(Append(<<>>, e)) = Unclosed(<<>>)
  BY <1>1, <1>2, UnclosedAppend, Zenon
<1>5. IsObject(<<e>>)
  BY <1>2, <1>3, <1>4 DEF IsObject
<1> QED
  BY <1>2, <1>5 DEF e

(* What a step means for the output stream.                                *)
StreamSet ==
  /\ sw' = sw /\ printed' = printed
  /\ job = "idle" /\ object = <<>> /\ began = Out!NoOutput
  /\ UNCHANGED <<job, object, todo, frames, began, prints>>
  /\ \/ \E w \in 0..(WordMod - 1) : os' = [os EXCEPT !.max_column = w]
     \/ os' = Out!SetOutput
     \/ os' = os

LEMMA StreamMoves ==
  ASSUME ArgumentsInv, BuiltInv, [Next]_vars
  PROVE  \/ UNCHANGED <<printed, outVars>> /\ sw \subseteq sw'
         \/ StreamSet
         \/ /\ sw' = sw /\ printed' = printed
            /\ sw \cap {"a", "b"} = {} =>
                 built \in AnyObject /\ Out!BeginPrinting("canonical", built, os)
         \/ Printing
<1>1. CASE SetFlag \/ SetWidth \/ OpenFile \/ Help \/ Unrecognized
  <2>1. /\ sw \subseteq sw' /\ UNCHANGED <<printed, job, object, todo, frames, began, prints>>
        /\ job = "idle" /\ object = <<>> /\ began = Out!NoOutput
    BY <1>1, OptionStep DEF ArgumentsInv
  <2>2. CASE SetFlag \/ Help \/ Unrecognized
    BY <2>1, <2>2 DEF SetFlag, Help, Unrecognized, outVars
  <2>3. CASE SetWidth \/ OpenFile
    <3>1. /\ sw' = sw
          /\ \/ os' = [os EXCEPT !.max_column = Head(options).operand]
             \/ os' = Out!SetOutput
             \/ os' = os
      BY <2>3 DEF SetWidth, OpenFile
    <3>2. Head(options).operand \in 0..(WordMod - 1)
      BY <1>1, OptionStep, HeadOption
    <3> QED
      BY <2>1, <3>1, <3>2 DEF StreamSet
  <2> QED
    BY <1>1, <2>2, <2>3
<1>2. CASE EnterLoop \/ Moves \/ Stays \/ Reads
  BY <1>2, EnterLoopStep, MovesStep, StaysStep, ReadsStep DEF mainVars
<1>3. CASE PrintObject
  <2> DEFINE f == Head(forms)
  <2>1. sw' = sw /\ printed' = printed /\ f \in sw \cap Forms
    BY <1>3, PrintObjectStep, HeadAndTail DEF ArgumentsInv
  <2>2. CASE sw \cap {"a", "b"} = {}
    <3>1. f = "c"
      BY <2>1, <2>2 DEF Forms
    <3>2. Out!BeginPrinting("canonical", built, os)
      BY <1>3, <3>1, PrintObjectStep DEF Kind
    <3>3. built \in AnyObject
      BY <1>3, PrintObjectStep DEF PrintObject, Running, In!Ready, Going, BuiltInv
    <3> QED
      BY <2>1, <3>2, <3>3
  <2> QED
    BY <2>1, <2>2
<1> QED
  BY <1>1, <1>2, <1>3, EveryStep

-----------------------------------------------------------------------------
(* The reader is the one of Parser, so that all that has been proved of it *)
(* is known here too.                                                      *)
Known == INSTANCE ParserProofs WITH Alphabet <- {}, MaxInput <- 0

LEMMA ReaderConstants ==
  /\ WordMod \in Nat /\ WordMod > 0 /\ WordMod % 65536 = 0
  /\ {} \subseteq Known!Octets /\ 0 \in Nat /\ WarningsThrow \in BOOLEAN
  /\ Octets = Known!Octets /\ EOF = Known!EOF
  /\ MaxDepth \in 0..(WordMod - 2)
  /\ MaxVerbatim \in 0..(WordMod - 2)
  /\ DigitLimit \in Nat /\ Known!PowerOfTen[DigitLimit + 1] < WordMod
<1>1. Known!PowerOfTen = In!PowerOfTen
  BY DEF Known!PowerOfTen, In!PowerOfTen
<1>2. Octets = Known!Octets /\ EOF = Known!EOF
  BY DEF Octets, Known!Octets, EOF, Known!EOF
<1>3. /\ WordMod \in Nat /\ WordMod > 0 /\ WordMod % 65536 = 0
      /\ {MaxDepth, MaxVerbatim} \subseteq 0..(WordMod - 2)
      /\ DigitLimit \in Nat /\ In!PowerOfTen[DigitLimit + 1] < WordMod
      /\ WarningsThrow \in BOOLEAN
  BY StreamsAssumption
<1> QED
  BY <1>1, <1>2, <1>3

LEMMA ReaderObjects ==
  Events = Known!Events /\ \A t : IsObject(t) <=> Known!IsObject(t)
<1>1. Opened = Known!Opened /\ Closed = Known!Closed
  BY DEF Opened, Closed, Known!Opened, Known!Closed
<1>2. Events = Known!Events
  BY <1>1 DEF Events, Known!Events, Octets, Known!Octets
<1>3. \A t : Unclosed(t) = Known!Unclosed(t)
  BY <1>1 DEF Unclosed, Known!Unclosed, Count, Known!Count, Cardinality, Known!Cardinality
<1> QED
  BY <1>2, <1>3 DEF IsObject, Known!IsObject

(* The reader's steps and its raw reads, in both instances.                *)
LEMMA SameSteps ==
  In!SkipWhiteSpace \/ In!Structure \/ In!Simple \/ In!Quoted
    => Known!SkipWhiteSpace \/ Known!Structure \/ Known!Simple \/ Known!Quoted
BY Zenon DEF In!At, In!AtNonSpace, In!BACKSLASH, In!BAR, In!Base64Digits, In!Base64Value,
       In!BeginCoded, In!BeginEscape, In!BeginQuoted, In!BeginSimple, In!BeginString,
       In!BeginVerbatim, In!COLON, In!CloseBrace, In!Closed, In!Coded, In!CodedEnd,
       In!Continuation, In!DQUOTE, In!DecDigits, In!DecValue, In!DecimalDigit,
       In!DecimalTooLong, In!DecimalEnd, In!Delimiter, In!EOF, In!EQUALS, In!EnterList,
       In!EnterRegion, In!EscapeDigit, In!EscapedLineEnd, In!EscapedOctet, In!Expect,
       In!Fail, In!Front, In!GetChar, In!Goto, In!HASH, In!HexDigits, In!HexEscape,
       In!HexValue, In!HintEnd, In!IllegalCharacter, In!LBRACE, In!LBRACKET,
       In!LETTER_X, In!LPAREN, In!Last, In!LeaveList, In!Lower, In!NEWLINE,
       In!NextElement, In!OctalDigits, In!OctalEscape, In!OpenBrace, In!OpenList,
       In!Opened, In!QUOTE, In!QuotedChar, In!QuotedEnd, In!RBRACE, In!RBRACKET,
       In!RETURN, In!RPAREN, In!Ready, In!SPACE, In!SimpleEscape, In!SimpleEscapes,
       In!SkipWhiteSpace, In!Store, In!String, In!StringEnd, In!Throw, In!TokenChar,
       In!TokenChars, In!TooManyDigits, In!UMAX, In!UnknownEscape, In!Upper,
       In!Verbatim, In!WhiteSpace, In!Width, In!Word, In!nestVars, In!streamVars,
       In!stringVars, In!Structure, In!Simple, In!Quoted, Known!At, Known!AtNonSpace,
       Known!BACKSLASH, Known!BAR, Known!Base64Digits, Known!Base64Value,
       Known!BeginCoded, Known!BeginEscape, Known!BeginQuoted, Known!BeginSimple,
       Known!BeginString, Known!BeginVerbatim, Known!COLON, Known!CloseBrace,
       Known!Closed, Known!Coded, Known!CodedEnd, Known!Continuation, Known!DQUOTE,
       Known!DecDigits, Known!DecValue, Known!DecimalDigit, Known!DecimalTooLong,
       Known!DecimalEnd, Known!Delimiter, Known!EOF, Known!EQUALS, Known!EnterList,
       Known!EnterRegion, Known!EscapeDigit, Known!EscapedLineEnd, Known!EscapedOctet,
       Known!Expect, Known!Fail, Known!Front, Known!GetChar, Known!Goto, Known!HASH,
       Known!HexDigits, Known!HexEscape, Known!HexValue, Known!HintEnd,
       Known!IllegalCharacter, Known!LBRACE, Known!LBRACKET, Known!LETTER_X,
       Known!LPAREN, Known!Last, Known!LeaveList, Known!Lower, Known!NEWLINE,
       Known!NextElement, Known!OctalDigits, Known!OctalEscape, Known!OpenBrace,
       Known!OpenList, Known!Opened, Known!QUOTE, Known!QuotedChar, Known!QuotedEnd,
       Known!RBRACE, Known!RBRACKET, Known!RETURN, Known!RPAREN, Known!Ready,
       Known!SPACE, Known!SimpleEscape, Known!SimpleEscapes, Known!SkipWhiteSpace,
       Known!Store, Known!String, Known!StringEnd, Known!Throw, Known!TokenChar,
       Known!TokenChars, Known!TooManyDigits, Known!UMAX, Known!UnknownEscape,
       Known!Upper, Known!Verbatim, Known!WhiteSpace, Known!Width, Known!Word,
       Known!nestVars, Known!streamVars, Known!stringVars, Known!Structure,
       Known!Simple, Known!Quoted

LEMMA SameRead ==
  ASSUME NEW x, In!ReadChar(x)
  PROVE  Known!ReadChar(x)
BY Zenon DEF In!ReadChar, In!ReadDigit, In!ReadEOF, In!ReadIgnored, In!ReadIllegal,
       In!ReadRaw, In!ReadTerminator, In!Terminators, In!UnusedBits, In!DigitValue,
       In!DigitsOf, In!Ignored, In!EOF, In!HASH, In!BAR, In!RBRACE, In!EQUALS,
       In!WhiteSpace, In!SPACE, In!Word, In!HexDigits, In!DecDigits, In!Upper,
       In!Lower, In!Base64Digits, In!Base64Value, In!HexValue, Known!ReadChar,
       Known!ReadDigit, Known!ReadEOF, Known!ReadIgnored, Known!ReadIllegal,
       Known!ReadRaw, Known!ReadTerminator, Known!Terminators, Known!UnusedBits,
       Known!DigitValue, Known!DigitsOf, Known!Ignored, Known!EOF, Known!HASH,
       Known!BAR, Known!RBRACE, Known!EQUALS, Known!WhiteSpace, Known!SPACE,
       Known!Word, Known!HexDigits, Known!DecDigits, Known!Upper, Known!Lower,
       Known!Base64Digits, Known!Base64Value, Known!HexValue

-----------------------------------------------------------------------------
(* The reader, while main has not left its loop.  Outside scan_object no   *)
(* frame is active; next_char is a character, except in the first turn     *)
(* after a prompt, until one has been read.                                *)
ReaderTypes ==
  /\ byte_size \in {4, 6, 8} /\ bits \in 0..(WordMod - 1) /\ n_bits \in 0..7
  /\ count \in Int /\ count >= -1 /\ reading \in BOOLEAN
  /\ Known!RInv

Character == next_char \in Octets \cup {EOF}

FirstToCome ==
  next_char = NotYet /\ byte_size = 8 /\ (phase = "top" \/ (phase = "blank" /\ reading))

ReaderInv ==
  /\ file \in Files
  /\ Going =>
       /\ ReaderTypes /\ (Character \/ FirstToCome) /\ Known!NInv
       /\ phase = "options" => byte_size = 8
       /\ phase # "object" => calls = <<>> /\ pc \in {"done", "object"}
       /\ phase = "object" => Known!TreeInv
       /\ phase \in {"print", "printing"} => IsObject(built)

LEMMA ReaderTyped ==
  ASSUME status = "running"
  PROVE  ReaderTypes /\ Character <=> Known!TInv /\ count >= -1
<1>1. 0..7 \subseteq 0..13 /\ \A n \in 0..13 : n <= 7 => n \in 0..7
  OBVIOUS
<1>2. Known!TInv <=> Known!StreamTypeOK /\ Known!RegisterHasRoom /\ Known!RInv
  BY Known!TInvParts, ReaderConstants
<1> QED
  BY <1>1, <1>2, ReaderConstants
  DEF ReaderTypes, Character, Known!StreamTypeOK, Known!RegisterHasRoom

(* Steps of main that leave the reader alone.                              *)
LEMMA ReaderKept ==
  ASSUME ReaderInv, UNCHANGED <<file, streamVars, readerVars>>,
         \/ phase' \in {phase, "exit"}
         \/ /\ phase \notin {"object", "top", "blank", "exit"}
            /\ phase' \notin {"options", "object"}
            /\ phase' \in {"print", "printing"} => phase \in {"print", "printing"}
  PROVE  ReaderInv'
<1> SUFFICES ASSUME Going' PROVE ReaderInv'
  BY DEF ReaderInv
<1>1. Going
  BY DEF Going, streamVars
<1>2. UNCHANGED <<byte_size, next_char, bits, n_bits, count, reading, status, pc, calls, depth,
                  ss, length, value, ndigits, form, target, hint, built, file>>
  BY DEF streamVars, readerVars
<1>3. ReaderTypes'
  BY <1>1, <1>2 DEF ReaderInv, ReaderTypes, Known!RInv, Known!ReaderTypeOK, Known!EscapeSoFar
<1>4. (Character \/ FirstToCome)'
  BY <1>1, <1>2 DEF ReaderInv, Character, FirstToCome, Going
<1>5. Known!NInv'
  BY <1>1, <1>2 DEF ReaderInv, Known!NInv, Known!DepthIsNesting, Known!FramesMatch, Known!Lists
<1>6. phase' = "object" => Known!TreeInv'
  BY <1>1, <1>2 DEF ReaderInv, Going, Known!TreeInv, Known!Complete, Known!Lists, Known!AllOpen
<1> QED
  BY <1>1, <1>2, <1>3, <1>4, <1>5, <1>6 DEF ReaderInv, Going

(* Steps that move the reader only.                                        *)
LEMMA EnterLoopReads ==
  ASSUME ReaderInv, EnterLoop
  PROVE  ReaderInv'
<1>1. /\ Going /\ phase = "options" /\ ReaderTypes /\ Character /\ byte_size = 8
      /\ calls = <<>> /\ pc \in {"done", "object"} /\ Known!NInv /\ ~reading
  BY DEF EnterLoop, Running, In!Ready, Going, ReaderInv, FirstToCome
<1>2. phase' = "top" /\ UNCHANGED <<file, readerVars, status>>
  BY DEF EnterLoop, In!GetChar, given
<1>3. ReaderTypes' /\ (Character \/ FirstToCome)'
  <2>1. Known!RInv'
    BY <1>1, <1>2 DEF ReaderTypes, Known!RInv, Known!ReaderTypeOK, Known!EscapeSoFar, readerVars
  <2>2. CASE /\ next_char' = NotYet
             /\ UNCHANGED <<byte_size, bits, n_bits, count, reading, status>>
    BY <1>1, <1>2, <2>1, <2>2 DEF ReaderTypes, FirstToCome
  <2>3. CASE In!GetChar
    BY <1>1, <2>1, <2>3 DEF In!GetChar, ReaderTypes, Character
  <2> QED
    BY <2>2, <2>3 DEF EnterLoop
<1>4. Known!NInv'
  BY <1>1, <1>2 DEF Going, Known!NInv, Known!DepthIsNesting, Known!FramesMatch, Known!Lists,
     readerVars
<1> QED
  BY <1>1, <1>2, <1>3, <1>4 DEF ReaderInv, readerVars

LEMMA TopReader ==
  ASSUME ReaderInv, Top
  PROVE  ReaderInv'
<1>1. /\ Going /\ phase = "top" /\ UNCHANGED <<file, readerVars, status>>
  BY DEF Top, Running, In!Ready, Going, given, streamVars
<1>2. CASE phase' = "exit"
  BY <1>1, <1>2 DEF ReaderInv, Going
<1>3. CASE phase' # "exit"
  <2>1. /\ byte_size' = 8 /\ bits' = 0 /\ n_bits' = 0 /\ reading' = (next_char = NotYet)
        /\ phase' = "blank" /\ UNCHANGED <<next_char, count>>
    BY <1>3 DEF Top, Exit
  <2>2. 0 \in 0..(WordMod - 1) /\ (next_char = NotYet) \in BOOLEAN
    BY ReaderConstants
  <2>3. Known!RInv'
    BY <1>1 DEF ReaderInv, ReaderTypes, Known!RInv, Known!ReaderTypeOK, Known!EscapeSoFar,
       readerVars
  <2>4. ReaderTypes' /\ (Character \/ FirstToCome)'
    <3>1. reading' \in BOOLEAN /\ (next_char = NotYet => reading')
      BY <2>1, Zenon
    <3>2. ReaderTypes /\ (Character \/ next_char = NotYet)
      BY <1>1 DEF ReaderInv, FirstToCome
    <3>3. ReaderTypes'
      BY <2>1, <2>2, <2>3, <3>1, <3>2 DEF ReaderTypes
    <3>4. (Character \/ FirstToCome)'
      BY <2>1, <3>1, <3>2 DEF Character, FirstToCome
    <3> QED
      BY <3>3, <3>4
  <2>5. Known!NInv'
    BY <1>1 DEF ReaderInv, Going, Known!NInv, Known!DepthIsNesting, Known!FramesMatch,
       Known!Lists, readerVars
  <2> QED
    BY <1>1, <2>1, <2>4, <2>5 DEF ReaderInv, readerVars
<1> QED
  BY <1>2, <1>3

LEMMA ReadCharReads ==
  ASSUME ReaderInv, ReadChar
  PROVE  ReaderInv'
<1> SUFFICES ASSUME Going' PROVE ReaderInv'
  BY DEF ReaderInv, ReadChar, given
<1>1. Going /\ phase' = phase /\ UNCHANGED <<file, readerVars>> /\ reading /\ status' = "running"
  BY DEF Going, ReadChar, In!ReadChar, mainVars, given
<1> DEFINE x == InputChar
<1>2. x \in Octets \cup {EOF}
  BY <1>1, InputCharType DEF ReaderInv, ReaderTypes
<1>3. In!ReadChar(x) /\ count' = count + 1
  BY DEF ReadChar, In!ReadChar
<1>4. Known!ReadChar(x)
  BY <1>3, SameRead
<1> HIDE DEF x
<1>5. ReaderTypes' /\ Character'
  <2>1. Known!RInv'
    BY <1>1 DEF ReaderInv, ReaderTypes, Known!RInv, Known!ReaderTypeOK, Known!EscapeSoFar,
       readerVars
  <2>2. CASE Character
    <3>1. Known!TInv
      BY <1>1, <2>2, ReaderTyped DEF ReaderInv, Going
    <3>2. Known!StreamTypeOK /\ Known!RegisterHasRoom
      BY <3>1, Known!TInvParts, ReaderConstants
    <3>3. Known!StreamTypeOK' /\ Known!RegisterHasRoom'
      BY <1>2, <1>4, <3>2, Known!ReadTypes, ReaderConstants
    <3>4. count' >= -1
      BY <1>1, <1>3 DEF ReaderInv, ReaderTypes
    <3> QED
      BY <1>1, <2>1, <3>3, <3>4, ReaderConstants
      DEF ReaderTypes, Character, Known!StreamTypeOK, Known!RegisterHasRoom
  <2>3. CASE FirstToCome
    <3>1. byte_size = 8
      BY <2>3 DEF FirstToCome
    <3>2. In!ReadEOF(x) \/ In!ReadRaw(x)
      BY <1>3, <3>1 DEF In!ReadChar, In!ReadTerminator, In!Terminators, In!ReadIgnored,
         In!Ignored, In!ReadDigit, In!DigitsOf, In!ReadIllegal
    <3>3. next_char' = x /\ reading' = FALSE /\ UNCHANGED <<byte_size, bits, n_bits>>
      BY <3>2 DEF In!ReadEOF, In!ReadRaw, In!EOF, EOF
    <3>4. Character' /\ reading' \in BOOLEAN
      BY <1>2, <3>3, Zenon DEF Character
    <3>5. ReaderTypes
      BY <1>1 DEF ReaderInv
    <3> QED
      BY <1>3, <2>1, <3>3, <3>4, <3>5 DEF ReaderTypes
  <2> QED
    BY <1>1, <2>2, <2>3 DEF ReaderInv
<1>6. Known!NInv'
  BY <1>1 DEF ReaderInv, Going, Known!NInv, Known!DepthIsNesting, Known!FramesMatch, Known!Lists,
     readerVars
<1>7. phase' = "object" => Known!TreeInv'
  BY <1>1 DEF ReaderInv, Going, Known!TreeInv, Known!Complete, Known!Lists, Known!AllOpen, readerVars
<1>8. phase' = "options" => byte_size' = 8
  <2>1. CASE phase = "options"
    <3>1. byte_size = 8
      BY <1>1, <2>1 DEF ReaderInv
    <3>2. In!ReadEOF(x) \/ In!ReadRaw(x)
      BY <1>3, <3>1 DEF In!ReadChar, In!ReadTerminator, In!Terminators, In!ReadIgnored,
         In!Ignored, In!ReadDigit, In!DigitsOf, In!ReadIllegal
    <3> QED
      BY <3>1, <3>2 DEF In!ReadEOF, In!ReadRaw
  <2> QED
    BY <1>1, <2>1
<1> QED
  BY <1>1, <1>5, <1>6, <1>7, <1>8 DEF ReaderInv, readerVars

LEMMA SkipBlankReads ==
  ASSUME ReaderInv, SkipBlank
  PROVE  ReaderInv'
<1>1. /\ Going /\ Going' /\ phase' = phase /\ phase \in {"blank", "after"} /\ ~reading
      /\ In!GetChar /\ UNCHANGED <<file, readerVars>>
  BY DEF SkipBlank, Running, In!Ready, In!GetChar, Going, given, mainVars
<1>2. Character /\ ReaderTypes
  BY <1>1 DEF ReaderInv, FirstToCome
<1>3. Known!RInv' /\ Known!NInv'
  BY <1>1 DEF Going, ReaderInv, ReaderTypes, Known!RInv, Known!ReaderTypeOK, Known!EscapeSoFar,
     Known!NInv, Known!DepthIsNesting, Known!FramesMatch, Known!Lists, readerVars
<1>4. ReaderTypes' /\ Character'
  BY <1>1, <1>2, <1>3 DEF In!GetChar, ReaderTypes, Character
<1> QED
  BY <1>1, <1>3, <1>4 DEF ReaderInv, readerVars

LEMMA BeginObjectReads ==
  ASSUME ReaderInv, BeginObject
  PROVE  ReaderInv'
<1> SUFFICES ASSUME Going' PROVE ReaderInv'
  BY DEF ReaderInv, BeginObject, given
<1>1. /\ Going /\ phase = "blank" /\ ~reading
      /\ phase' \in {"eof", "object"} /\ pc' = "object" /\ built' = <<>>
      /\ UNCHANGED <<file, streamVars, calls, depth, ss, length, value, ndigits, form, target, hint>>
  BY DEF BeginObject, Running, In!Ready, Going, Exit, given
<1>2. Character /\ ReaderTypes /\ Known!NInv /\ calls = <<>> /\ pc \in {"done", "object"}
  BY <1>1 DEF ReaderInv, FirstToCome
<1>3. Known!RInv'
  <2>1. built' \in Seq(Known!Events) /\ pc' \in Known!Labels
    BY <1>1 DEF Known!Labels
  <2> QED
    BY <1>1, <1>2, <2>1 DEF ReaderTypes, Known!RInv, Known!ReaderTypeOK, Known!EscapeSoFar
<1>4. ReaderTypes' /\ Character'
  BY <1>1, <1>2, <1>3 DEF ReaderTypes, Character, streamVars
<1>5. Known!NInv'
  BY <1>1, <1>2 DEF Going, Known!NInv, Known!DepthIsNesting, Known!FramesMatch, Known!Lists,
     streamVars
<1>6. Known!TreeInv'
  <2>1. Known!Unclosed(<<>>) = 0 /\ Known!Lists(<<>>) = 0
    BY Known!CountEmpty, ReaderConstants DEF Known!Unclosed, Known!Lists
  <2>2. Known!AllOpen(<<>>)
    BY DEF Known!AllOpen
  <2> QED
    BY <1>1, <1>2, <2>1, <2>2 DEF Known!TreeInv, Known!Complete
<1> QED
  BY <1>1, <1>2, <1>4, <1>5, <1>6 DEF ReaderInv

LEMMA ScanObjectReads ==
  ASSUME ReaderInv, ScanObject
  PROVE  ReaderInv'
<1> SUFFICES ASSUME Going' PROVE ReaderInv'
  BY DEF ReaderInv, ScanObject, given
<1>1. /\ Going /\ phase = "object" /\ phase' = "object" /\ file' = file /\ status' = "running"
      /\ In!SkipWhiteSpace \/ In!Structure \/ In!Simple \/ In!Quoted
  BY DEF ScanObject, Running, In!Ready, Going, given, mainVars
<1>2. Known!TInv /\ Known!NInv /\ Known!TreeInv /\ count >= -1 /\ count \in Int
  BY <1>1, ReaderTyped DEF ReaderInv, Going, FirstToCome, ReaderTypes
<1>3. Known!SkipWhiteSpace \/ Known!Structure \/ Known!Simple \/ Known!Quoted
  BY <1>1, SameSteps
<1>4. [Known!Next]_(Known!vars)
  BY <1>3 DEF Known!Next
<1>5. Known!TInv' /\ Known!NInv' /\ Known!TreeInv'
  <2>1. Known!TInv'
    BY <1>2, <1>4, Known!NextTypes, ReaderConstants
  <2>2. Known!NInv'
    BY <1>2, <1>4, Known!NextNesting, ReaderConstants
  <2>3. Known!TreeInv'
    BY <1>2, <1>4, Known!NextTree, ReaderConstants
  <2> QED
    BY <2>1, <2>2, <2>3
<1>6. Known!StreamMove
  <2>1. Known!SkipWhiteSpace \/ Known!Structure => Known!StreamMove
    BY <1>2, Known!StructureTypes, ReaderConstants
  <2>2. Known!Simple => Known!StreamMove
    BY <1>2, Known!SimpleTypes, ReaderConstants
  <2>3. Known!Quoted => Known!StreamMove
    BY <1>2, Known!QuotedTypes, ReaderConstants
  <2> QED
    BY <1>3, <2>1, <2>2, <2>3
<1>7. count' = count
  BY <1>6 DEF Known!StreamMove, Known!GetChar, Known!EnterRegion, Known!Throw, Known!streamVars
<1>8. (ReaderTypes /\ Character)'
  <2>1. Known!StreamTypeOK' /\ Known!RegisterHasRoom' /\ Known!RInv'
    BY <1>5 DEF Known!TInv, Known!TypeOK, Known!RInv, Known!ReaderTypeOK
  <2> QED
    BY <1>1, <1>2, <1>7, <2>1, ReaderConstants
    DEF ReaderTypes, Character, Known!StreamTypeOK, Known!RegisterHasRoom
<1> QED
  BY <1>1, <1>5, <1>8 DEF ReaderInv

LEMMA ObjectReadReads ==
  ASSUME ReaderInv, ObjectRead
  PROVE  ReaderInv'
<1>1. /\ Going /\ phase = "object" /\ phase' = "print" /\ pc = "done"
      /\ UNCHANGED <<file, streamVars, readerVars>>
  BY DEF ObjectRead, Running, In!Ready, In!Finished, Going, given
<1>2. ReaderTypes /\ Character /\ Known!NInv /\ Known!TreeInv
  BY <1>1 DEF ReaderInv, FirstToCome
<1>3. calls = <<>>
  BY <1>1, <1>2 DEF Going, Known!NInv, Known!FramesMatch
<1>4. IsObject(built)
  <2>1. Known!Lists(<<>>) = 0
    BY Known!CountEmpty, ReaderConstants DEF Known!Lists
  <2>2. Known!IsObject(built)
    BY <1>1, <1>2, <1>3, <2>1 DEF Going, Known!TreeInv, Known!Complete
  <2> QED
    BY <2>2, ReaderObjects
<1>5. ReaderTypes' /\ Character' /\ Known!NInv'
  BY <1>1, <1>2 DEF ReaderTypes, Character, Known!RInv, Known!ReaderTypeOK, Known!EscapeSoFar,
     Known!NInv, Known!DepthIsNesting, Known!FramesMatch, Known!Lists, streamVars, readerVars
<1> QED
  BY <1>1, <1>3, <1>4, <1>5 DEF ReaderInv, readerVars

LEMMA ScanToEofReads ==
  ASSUME ReaderInv, ScanToEof
  PROVE  ReaderInv'
<1>1. /\ Going /\ Going' /\ phase = "eof" /\ ~reading /\ UNCHANGED <<file, status>>
      /\ phase' \in {"eof", "print"}
      /\ UNCHANGED <<pc, calls, depth, length, value, ndigits, form, target, hint>>
  BY DEF ScanToEof, Running, In!Ready, In!GetChar, Going, given, streamVars
<1>2. /\ ReaderTypes /\ Character /\ Known!NInv /\ Known!RInv
      /\ calls = <<>> /\ pc \in {"done", "object"}
  BY <1>1 DEF ReaderInv, FirstToCome, ReaderTypes
<1>3. Known!NInv'
  BY <1>1, <1>2 DEF Known!NInv, Known!DepthIsNesting, Known!FramesMatch, Known!Lists
<1>4. ss \in Seq(Octets) /\ built \in Seq(Events)
  BY <1>2, ReaderConstants, ReaderObjects DEF Known!RInv, Known!ReaderTypeOK
<1>5. CASE next_char # EOF
  <2>1. In!Store(next_char) /\ In!GetChar /\ UNCHANGED <<phase, forms, built>>
    BY <1>5 DEF ScanToEof
  <2>2. ss' \in Seq(Octets)
    <3>1. next_char \in 0..255
      BY <1>2, <1>5 DEF Character, Octets
    <3>2. next_char % 256 \in Octets
      BY <3>1 DEF Octets
    <3> QED
      BY <1>4, <2>1, <3>2 DEF In!Store
  <2>3. Known!RInv'
    BY <1>1, <1>2, <2>1, <2>2, ReaderConstants
    DEF Known!RInv, Known!ReaderTypeOK, Known!EscapeSoFar
  <2>4. ReaderTypes' /\ Character'
    BY <1>2, <2>1, <2>3 DEF In!GetChar, ReaderTypes, Character
  <2> QED
    BY <1>1, <1>2, <1>3, <2>1, <2>4 DEF ReaderInv
<1>6. CASE next_char = EOF
  <2>1. /\ built' = <<In!String(<<>>, ss)>> /\ ss' = <<>> /\ phase' = "print"
        /\ UNCHANGED streamVars
    BY <1>6 DEF ScanToEof
  <2>2. built' = <<String(<<>>, ss)>>
    BY <2>1 DEF In!String, String
  <2>3. built' \in Seq(Events) /\ IsObject(built')
    <3>1. <<>> \in Seq(Seq(Octets))
      OBVIOUS
    <3> QED
      BY <1>4, <2>2, <3>1, StringIsObject
  <2>4. Known!RInv'
    BY <1>1, <1>2, <2>1, <2>3, ReaderObjects
    DEF Known!RInv, Known!ReaderTypeOK, Known!EscapeSoFar
  <2>5. ReaderTypes' /\ Character'
    BY <1>2, <2>1, <2>4 DEF streamVars, ReaderTypes, Character
  <2> QED
    BY <1>1, <1>2, <1>3, <2>1, <2>3, <2>5 DEF ReaderInv
<1> QED
  BY <1>5, <1>6
LEMMA InitReader == Init => ReaderInv
<1> SUFFICES ASSUME Init PROVE ReaderInv
  OBVIOUS
<1>1. /\ file \in Files /\ phase = "options"
      /\ byte_size = 8 /\ next_char = SPACE /\ bits = 0 /\ n_bits = 0 /\ count = -1
      /\ reading = FALSE /\ status = "running"
      /\ pc = "done" /\ calls = <<>> /\ depth = 0 /\ built = <<>>
      /\ ss = <<>> /\ length = In!UMAX /\ value = 0 /\ ndigits = 0
      /\ form = "none" /\ target = "data" /\ hint = <<>>
  BY DEF Init
<1>2. Known!RInv
  <2>1. /\ <<>> \in Seq(Known!Octets) /\ <<>> \in Seq({"1", "2", "3", "4", "5"})
        /\ <<>> \in Seq(Known!Events) /\ <<>> \in Seq(Seq(Known!Octets))
    OBVIOUS
  <2>2. In!UMAX \in Nat /\ In!UMAX = WordMod - 1 /\ WordMod \in Nat /\ WordMod > 0
    BY ReaderConstants DEF In!UMAX
  <2> QED
    BY <1>1, <2>1, <2>2 DEF Known!RInv, Known!ReaderTypeOK, Known!EscapeSoFar,
       Known!Labels, Known!Forms, Known!UMAX
<1>3. ReaderTypes
  <2>1. 0 \in 0..(WordMod - 1) /\ 0 \in 0..7
    BY ReaderConstants
  <2>2. byte_size = 8 /\ bits = 0 /\ n_bits = 0 /\ reading = FALSE
    BY <1>1
  <2>3. count \in Int /\ count >= -1
    BY <1>1
  <2> QED
    BY <1>2, <2>1, <2>2, <2>3, Zenon DEF ReaderTypes
<1>4. Character
  BY <1>1 DEF Character, Octets, SPACE
<1>5. Known!NInv
  <2>1. Known!Lists(calls) = 0
    BY <1>1, Known!CountEmpty, ReaderConstants DEF Known!Lists
  <2>2. depth <= MaxDepth
    BY <1>1, ReaderConstants
  <2> QED
    BY <1>1, <2>1, <2>2 DEF Known!NInv, Known!DepthIsNesting, Known!FramesMatch
<1>6. ReaderInv
  BY <1>1, <1>3, <1>4, <1>5 DEF ReaderInv
<1> QED
  BY <1>1, <1>3, <1>4, <1>5 DEF ReaderInv

LEMMA NextReader ==
  ASSUME ReaderInv, [Next]_vars
  PROVE  ReaderInv'
<1>1. CASE SetFlag \/ SetWidth \/ OpenFile \/ Help \/ Unrecognized
  BY <1>1, OptionStep, ReaderKept DEF given
<1>2. CASE EnterLoop
  BY <1>2, EnterLoopReads
<1>3. CASE Moves
  <2>1. CASE Top
    BY <2>1, TopReader
  <2>2. CASE BeginObject
    BY <2>2, BeginObjectReads
  <2>3. CASE ObjectPrinted \/ BlanksSkipped \/ Caught
    <3>1. /\ UNCHANGED <<file, streamVars, readerVars>>
          /\ phase' = "exit" \/ (phase \in {"print", "after"} /\ phase' \in {"after", "top"})
      BY <2>3 DEF ObjectPrinted, BlanksSkipped, Caught, Running, Exit, given
    <3> QED
      BY <3>1, ReaderKept
  <2> QED
    BY <1>3, <2>1, <2>2, <2>3 DEF Moves
<1>4. CASE Stays
  <2>1. CASE Stopped \/ UNCHANGED vars
    <3>1. UNCHANGED <<file, phase, streamVars, readerVars>>
      BY <2>1 DEF Stopped, vars, given, mainVars
    <3> QED
      BY <3>1, ReaderKept
  <2> QED
    BY <1>4, <2>1, ReadCharReads, SkipBlankReads, ScanObjectReads DEF Stays
<1>5. CASE Reads
  BY <1>5, ObjectReadReads, ScanToEofReads DEF Reads
<1>6. CASE PrintObject
  BY <1>6, PrintObjectStep, ReaderKept DEF given
<1>7. CASE Printing
  <2>1. /\ phase = "printing" /\ phase' \in {"print", "printing"}
        /\ UNCHANGED <<file, streamVars, readerVars>>
    BY <1>7, PrintingStep DEF given
  <2> QED
    BY <2>1, ReaderKept
<1> QED
  BY <1>1, <1>2, <1>3, <1>4, <1>5, <1>6, <1>7, EveryStep

LEMMA BuiltIsObject == ReaderInv => BuiltInv
<1> SUFFICES ASSUME ReaderInv, Going, phase \in {"print", "printing"}
             PROVE  built \in AnyObject
  BY DEF BuiltInv
<1>1. built \in Seq(Known!Events) /\ IsObject(built)
  BY DEF ReaderInv, ReaderTypes, Known!RInv, Known!ReaderTypeOK
<1> QED
  BY <1>1, ReaderObjects DEF AnyObject

(* main prints whole objects only, each in every form that the command     *)
(* line asks for, in turn, before it goes on to the next: whatever is in   *)
(* the file, only a failure leaves an object in some of its forms, and     *)
(* without -x the first is the last.                                       *)
THEOREM FormsAreInTurn == Spec => []EveryFormInTurn
<1> DEFINE Inv == ReaderInv /\ ArgumentsInv /\ TurnInv
<1>1. Init => Inv
  BY InitReader, InitArguments, InitTurn
<1>2. Inv /\ [Next]_vars => Inv'
  <2> SUFFICES ASSUME Inv, [Next]_vars PROVE Inv'
    OBVIOUS
  <2>1. BuiltInv
    BY BuiltIsObject
  <2> QED
    BY <2>1, NextReader, NextArguments, NextTurn
<1>3. Inv => EveryFormInTurn
  BY DEF TurnInv, InTurn, Place, EveryFormInTurn
<1> HIDE DEF Inv
<1> QED
  BY <1>1, <1>2, <1>3, PTL DEF Spec

-----------------------------------------------------------------------------
(* The writer is the one of Printer, and what has been proved of it is     *)
(* known as long as main only prints in canonical form.                    *)
Writer == INSTANCE FormProofs WITH
  Trees <- AnyObject, Kinds <- {"canonical"}, Widths <- 0..(WordMod - 1), MaxPrints <- 0

LEMMA WriterObjects ==
  Events = Writer!Events /\ \A t : IsObject(t) <=> Writer!IsObject(t)
<1>1. Opened = Writer!Opened /\ Closed = Writer!Closed
  BY DEF Opened, Closed, Writer!Opened, Writer!Closed
<1>2. Events = Writer!Events
  BY <1>1 DEF Events, Writer!Events, Octets, Writer!Octets
<1>3. \A t : Unclosed(t) = Writer!Unclosed(t)
  BY <1>1 DEF Unclosed, Writer!Unclosed, Count, Writer!Count, Cardinality, Writer!Cardinality
<1> QED
  BY <1>2, <1>3 DEF IsObject, Writer!IsObject

LEMMA WriterConstants ==
  /\ WordMod \in Nat /\ WordMod > 0 /\ WordMod % 65536 = 0
  /\ MaxDepth \in 0..(WordMod - 2) /\ DefaultWidth \in 0..(WordMod - 1)
  /\ \A tree \in AnyObject : tree \in Seq(Writer!Events) /\ Writer!IsObject(tree)
  /\ {"canonical"} \subseteq Writer!Modes
  /\ 0..(WordMod - 1) \subseteq 0..(WordMod - 1)
  /\ 0 \in Nat
<1>1. \A tree \in AnyObject : tree \in Seq(Writer!Events) /\ Writer!IsObject(tree)
  BY WriterObjects DEF AnyObject
<1>2. {"canonical"} \subseteq Writer!Modes
  BY DEF Writer!Modes
<1> QED
  BY <1>1, <1>2, StreamsAssumption

(* Two instances of the same definitions.                                  *)
LEMMA SameLine ==
  /\ \A x : Out!Word(x) = Writer!Word(x)
  /\ \A o, c : Out!PutChar(o, c) = Writer!PutChar(o, c)
  /\ \A o, mode : Out!NewLine(o, mode) = Writer!NewLine(o, mode)
<1>1. \A x : Out!Word(x) = Writer!Word(x)
  BY DEF Out!Word, Writer!Word
<1>2. \A o, c : Out!PutChar(o, c) = Writer!PutChar(o, c)
  BY <1>1, Zenon DEF Out!PutChar, Writer!PutChar
<1>3. ASSUME NEW o, NEW s
      PROVE  Out!FoldLeft(Out!PutChar, o, s) = Writer!FoldLeft(Writer!PutChar, o, s)
  <2> DEFINE
        P(f) == f = [T \in SUBSET DOMAIN s |->
                       IF T = {} THEN o ELSE Out!PutChar(f[T \ {Max(T)}], s[Max(T)])]
        Q(f) == f = [T \in SUBSET DOMAIN s |->
                       IF T = {} THEN o ELSE Writer!PutChar(f[T \ {Max(T)}], s[Max(T)])]
  <2>1. \A T : Out!Max(T) = Max(T) /\ Writer!Max(T) = Max(T)
    BY DEF Out!Max, Writer!Max, Max
  <2>2. Out!FoldLeft(Out!PutChar, o, s) = (CHOOSE f : P(f))[DOMAIN s]
    BY <2>1, Zenon DEF Out!FoldLeft, Out!MapThenFoldSet
  <2>3. Writer!FoldLeft(Writer!PutChar, o, s) = (CHOOSE f : Q(f))[DOMAIN s]
    BY <2>1, Zenon DEF Writer!FoldLeft, Writer!MapThenFoldSet
  <2>4. \A f : P(f) <=> Q(f)
    BY <1>2
  <2> HIDE DEF P, Q
  <2>5. (CHOOSE f : P(f)) = (CHOOSE f : Q(f))
    BY <2>4
  <2> QED
    BY <2>2, <2>3, <2>5, Zenon
<1>4. \A o : Out!Indentation(o) = Writer!Indentation(o)
  <2>1. \A S : Out!Min(S) = Writer!Min(S)
    BY DEF Out!Min, Writer!Min
  <2> QED
    BY <2>1 DEF Out!Indentation, Writer!Indentation
<1>5. Out!NEWLINE = Writer!NEWLINE /\ Out!SPACE = Writer!SPACE
  BY DEF Out!NEWLINE, Writer!NEWLINE, Out!SPACE, Writer!SPACE
<1>6. \A o, mode : Out!NewLine(o, mode) = Writer!NewLine(o, mode)
  BY <1>2, <1>3, <1>4, <1>5 DEF Out!NewLine, Writer!NewLine
<1> QED
  BY <1>1, <1>2, <1>6

LEMMA SameOctets ==
  /\ \A o, c : Out!VarPutChar(o, c) = Writer!VarPutChar(o, c)
  /\ \A o, s : Out!VarPutAll(o, s) = Writer!VarPutAll(o, s)
  /\ Out!Decimal = Writer!Decimal
<1>1. \A o : Out!AtLineEnd(o) = Writer!AtLineEnd(o)
  BY DEF Out!AtLineEnd, Writer!AtLineEnd
<1>2. \A o, c : Out!BreakLine(o, c) = Writer!BreakLine(o, c)
  <2>1. /\ Out!LBRACE = Writer!LBRACE /\ Out!RBRACE = Writer!RBRACE
        /\ Out!HASH = Writer!HASH /\ Out!BAR = Writer!BAR
    BY DEF Out!LBRACE, Writer!LBRACE, Out!RBRACE, Writer!RBRACE, Out!HASH, Writer!HASH,
       Out!BAR, Writer!BAR
  <2> QED
    BY <1>1, <2>1, SameLine DEF Out!BreakLine, Writer!BreakLine
<1>3. \A size, v : Out!Glyph(size, v) = Writer!Glyph(size, v)
  <2>1. \A v : Out!HexDigit(v) = Writer!HexDigit(v) /\ Out!Base64Digit(v) = Writer!Base64Digit(v)
    BY DEF Out!HexDigit, Writer!HexDigit, Out!Base64Digit, Writer!Base64Digit
  <2> QED
    BY <2>1, Zenon DEF Out!Glyph, Writer!Glyph
<1>4. \A o : Out!Group(o) = Writer!Group(o)
  BY DEF Out!Group, Writer!Group
<1>5. \A o, c : Out!PutGroup(o, c) = Writer!PutGroup(o, c)
  BY <1>2, <1>3, <1>4, SameLine, Zenon DEF Out!PutGroup, Writer!PutGroup
<1>6. \A o, c : Out!Emit(o, c) = Writer!Emit(o, c)
  BY <1>5 DEF Out!Emit, Writer!Emit
<1>7. \A o, c : Out!VarPutChar(o, c) = Writer!VarPutChar(o, c)
  BY <1>6, SameLine, Zenon DEF Out!VarPutChar, Writer!VarPutChar
<1>8. ASSUME NEW o, NEW s
      PROVE  Out!VarPutAll(o, s) = Writer!VarPutAll(o, s)
  <2> DEFINE
        P(f) == f = [T \in SUBSET DOMAIN s |->
                       IF T = {} THEN o ELSE Out!VarPutChar(f[T \ {Max(T)}], s[Max(T)])]
        Q(f) == f = [T \in SUBSET DOMAIN s |->
                       IF T = {} THEN o ELSE Writer!VarPutChar(f[T \ {Max(T)}], s[Max(T)])]
  <2>1. \A T : Out!Max(T) = Max(T) /\ Writer!Max(T) = Max(T)
    BY DEF Out!Max, Writer!Max, Max
  <2>2. Out!VarPutAll(o, s) = (CHOOSE f : P(f))[DOMAIN s]
    BY <2>1, Zenon DEF Out!VarPutAll, Out!FoldLeft, Out!MapThenFoldSet
  <2>3. Writer!VarPutAll(o, s) = (CHOOSE f : Q(f))[DOMAIN s]
    BY <2>1, Zenon DEF Writer!VarPutAll, Writer!FoldLeft, Writer!MapThenFoldSet
  <2>4. \A f : P(f) <=> Q(f)
    BY <1>7
  <2> HIDE DEF P, Q
  <2>5. (CHOOSE f : P(f)) = (CHOOSE f : Q(f))
    BY <2>4
  <2> QED
    BY <2>2, <2>3, <2>5, Zenon
<1>9. Out!Decimal = Writer!Decimal
  BY DEF Out!Decimal, Writer!Decimal
<1> QED
  BY <1>7, <1>8, <1>9

(* A step of the program that prints in canonical form is one of Printer.  *)
LEMMA SamePrinting ==
  /\ Out!SetOutput = Writer!SetOutput /\ Out!NoOutput = Writer!NoOutput
  /\ Out!Output = Writer!Output
  /\ \A kind, tree, o : kind # "base64" /\ Out!BeginPrinting(kind, tree, o)
                           => Writer!BeginPrinting(kind, tree, o)
  /\ Out!Continue /\ job = "canonical" => Writer!Continue
<1>1. Out!SetOutput = Writer!SetOutput /\ Out!NoOutput = Writer!NoOutput
  BY DEF Out!SetOutput, Writer!SetOutput, Out!NoOutput, Writer!NoOutput
<1>2. Out!Output = Writer!Output
  BY DEF Out!Output, Writer!Output
<1>3. \A kind, tree, o : kind # "base64" /\ Out!BeginPrinting(kind, tree, o)
                           => Writer!BeginPrinting(kind, tree, o)
  BY DEF Out!BeginPrinting, Writer!BeginPrinting
<1>4. ASSUME Out!Continue, job = "canonical" PROVE Writer!Continue
  <2>1. /\ Out!LPAREN = Writer!LPAREN /\ Out!RPAREN = Writer!RPAREN /\ Out!COLON = Writer!COLON
        /\ Out!LBRACKET = Writer!LBRACKET /\ Out!RBRACKET = Writer!RBRACKET
    BY DEF Out!LPAREN, Writer!LPAREN, Out!RPAREN, Writer!RPAREN, Out!COLON, Writer!COLON,
       Out!LBRACKET, Writer!LBRACKET, Out!RBRACKET, Writer!RBRACKET
  <2>2. \A kinds, event : Out!Printing(kinds, event) <=> Writer!Printing(kinds, event)
    BY DEF Out!Printing, Writer!Printing
  <2>3. CASE Out!CanonicalOpen
    <3>1. Out!IncreaseDepth(Out!VarPutChar(os, Out!LPAREN))
            = Writer!IncreaseDepth(Writer!VarPutChar(os, Writer!LPAREN))
      BY <2>1, SameLine, SameOctets, Zenon DEF Out!IncreaseDepth, Writer!IncreaseDepth
    <3>2. Writer!CanonicalOpen
      BY <2>2, <2>3, <3>1 DEF Out!CanonicalOpen, Writer!CanonicalOpen
    <3> QED
      BY <3>2 DEF Writer!Continue
  <2>4. CASE Out!PrintCanonicalString
    <3>1. \A o, s : Out!PrintCanonicalVerbatim(o, s) = Writer!PrintCanonicalVerbatim(o, s)
      BY <2>1, SameOctets DEF Out!PrintCanonicalVerbatim, Writer!PrintCanonicalVerbatim
    <3>2. \A o, e : Out!CanonicalString(o, e) = Writer!CanonicalString(o, e)
      BY <2>1, <3>1, SameOctets DEF Out!CanonicalString, Writer!CanonicalString
    <3>3. Writer!PrintCanonicalString
      BY <2>2, <2>4, <3>2 DEF Out!PrintCanonicalString, Writer!PrintCanonicalString
    <3> QED
      BY <3>3 DEF Writer!Continue
  <2>5. CASE Out!CanonicalClose
    <3>1. Out!DecreaseDepth(Out!VarPutChar(os, Out!RPAREN))
            = Writer!DecreaseDepth(Writer!VarPutChar(os, Writer!RPAREN))
      BY <2>1, SameLine, SameOctets DEF Out!DecreaseDepth, Writer!DecreaseDepth
    <3>2. Writer!CanonicalClose
      BY <2>2, <2>5, <3>1 DEF Out!CanonicalClose, Writer!CanonicalClose
    <3> QED
      BY <3>2 DEF Writer!Continue
  <2>6. CASE Out!Finish
    <3>1. Writer!Finish
      BY <1>4, <2>6 DEF Out!Finish, Writer!Finish
    <3> QED
      BY <3>1 DEF Writer!Continue
  <2>7. ~Out!AdvancedOpen /\ ~Out!PrintAdvancedString /\ ~Out!AdvancedClose
    BY <1>4 DEF Out!AdvancedOpen, Out!PrintAdvancedString, Out!AdvancedClose, Out!Printing
  <2> QED
    BY <1>4, <2>3, <2>4, <2>5, <2>6, <2>7 DEF Out!Continue
<1> QED
  BY <1>1, <1>2, <1>3, <1>4

-----------------------------------------------------------------------------
(* The writer, as long as main is not to use another form than canonical.  *)
WriterInv ==
  sw \cap {"a", "b"} = {} =>
    /\ Writer!SInv /\ Writer!FormInv
    /\ os.mode = "canonical" /\ began.mode = "canonical"

(* The steps of main that leave the writer alone, ...                      *)
LEMMA WriterKept ==
  ASSUME WriterInv, sw \subseteq sw', UNCHANGED outVars
  PROVE  WriterInv'
<1> SUFFICES ASSUME sw' \cap {"a", "b"} = {} PROVE WriterInv'
  BY DEF WriterInv
<1>1. Writer!SInv /\ Writer!FormInv /\ os.mode = "canonical" /\ began.mode = "canonical"
  BY DEF WriterInv
<1>2. UNCHANGED Writer!vars
  BY DEF outVars, Writer!vars
<1>3. Writer!SInv' /\ Writer!FormInv'
  BY <1>1, <1>2, Writer!StutterStep, Writer!StutterForm, WriterConstants
<1> QED
  BY <1>1, <1>3 DEF WriterInv, outVars

(* ... set its width or start it over, ...                                 *)
LEMMA WriterSet ==
  ASSUME WriterInv, StreamSet
  PROVE  WriterInv'
<1> USE DEF StreamSet
<1> SUFFICES ASSUME sw \cap {"a", "b"} = {} PROVE WriterInv'
  BY DEF WriterInv
<1>1. Writer!SInv /\ Writer!FormInv /\ os.mode = "canonical" /\ began.mode = "canonical"
  BY DEF WriterInv
<1>2. [Writer!Next]_(Writer!vars)
  <2>1. CASE \E w \in 0..(WordMod - 1) : os' = [os EXCEPT !.max_column = w]
    BY <2>1 DEF Writer!SetMaxColumn, Writer!Next
  <2>2. CASE os' = Out!SetOutput
    BY <2>2, SamePrinting DEF Writer!NewOutput, Writer!Next
  <2>3. CASE os' = os
    BY <2>3 DEF Writer!vars
  <2> QED
    BY <2>1, <2>2, <2>3
<1>3. Writer!SInv'
  BY <1>1, <1>2, Writer!NextS, WriterConstants
<1>4. Writer!FormInv'
  BY <1>1, <1>2, Writer!NextForm, WriterConstants
<1>5. os'.mode = "canonical"
  <2>1. os \in Writer!Streams
    BY <1>1 DEF Writer!SInv, Writer!StreamInv
  <2>2. \A w : [os EXCEPT !.max_column = w].mode = os.mode
    BY <2>1 DEF Writer!Streams
  <2>3. Out!SetOutput.mode = "canonical"
    BY DEF Out!SetOutput
  <2> QED
    BY <1>1, <2>2, <2>3, Zenon
<1> QED
  BY <1>1, <1>3, <1>4, <1>5 DEF WriterInv

(* ... print the next event, ...                                           *)
LEMMA WriterContinues ==
  ASSUME WriterInv, sw' = sw, Out!Continue
  PROVE  WriterInv'
<1> SUFFICES ASSUME sw \cap {"a", "b"} = {} PROVE WriterInv'
  BY DEF WriterInv
<1>1. Writer!SInv /\ Writer!FormInv /\ os.mode = "canonical" /\ began.mode = "canonical"
  BY DEF WriterInv
<1>2. job # "idle" /\ began' = began
  BY DEF Out!Continue, Out!CanonicalOpen, Out!PrintCanonicalString, Out!CanonicalClose,
     Out!AdvancedOpen, Out!PrintAdvancedString, Out!AdvancedClose, Out!Printing, Out!Finish
<1>3. job = "canonical" /\ began.kind = "canonical"
  BY <1>1, <1>2 DEF Writer!SInv, Writer!TraversalInv
<1>4. [Writer!Next]_(Writer!vars)
  BY <1>3, SamePrinting DEF Writer!Next
<1>5. Writer!SInv'
  BY <1>1, <1>4, Writer!NextS, WriterConstants
<1>6. Writer!FormInv'
  BY <1>1, <1>4, Writer!NextForm, WriterConstants
<1>7. os'.mode = "canonical"
  <2>1. Writer!Forms(FALSE)'
    BY <1>1, <1>2, <1>3 DEF Writer!Forms
  <2>2. \E at, w, t : Writer!Received(FALSE, at, w, t, os')
    BY <1>6, <2>1, Zenon DEF Writer!FormInv
  <2> QED
    BY <2>2 DEF Writer!Received, Writer!Exact
<1> QED
  BY <1>1, <1>2, <1>5, <1>6, <1>7 DEF WriterInv

(* ... and begin to print an object as it stands.                          *)
LEMMA WriterBegins ==
  ASSUME WriterInv, sw' = sw, sw \cap {"a", "b"} = {},
         built \in AnyObject, Out!BeginPrinting("canonical", built, os)
  PROVE  WriterInv'
<1>1. Writer!SInv /\ Writer!FormInv /\ os.mode = "canonical" /\ began.mode = "canonical"
  BY DEF WriterInv
<1>2. Writer!BeginPrinting("canonical", built, os)
  BY SamePrinting
<1>3. job = "idle" /\ ~os.failed /\ os' = os /\ began'.mode = os.mode
  BY <1>2 DEF Writer!BeginPrinting
<1>4. Writer!Idle(os)
  BY <1>1, <1>3, Writer!IdleStream, WriterConstants
<1>5. "canonical" \in {"canonical"}
  OBVIOUS
<1>6. Writer!SInv'
  BY <1>2, <1>3, <1>4, <1>5, Writer!BeginKeeps, WriterConstants
<1>7. Writer!FormInv'
  BY <1>2, <1>4, <1>5, Writer!BeginKeepsForm, WriterConstants
<1> QED
  BY <1>1, <1>3, <1>6, <1>7 DEF WriterInv

LEMMA InitWriter == Init => WriterInv
<1> SUFFICES ASSUME Init PROVE WriterInv
  OBVIOUS
<1>1. Out!Init
  BY DEF Init
<1>2. Writer!Init
  BY <1>1, SamePrinting DEF Out!Init, Writer!Init
<1>3. os.mode = "canonical" /\ began.mode = "canonical"
  BY <1>1 DEF Out!Init, Out!SetOutput, Out!NoOutput
<1>4. Writer!SInv /\ Writer!FormInv
  BY <1>2, Writer!InitS, Writer!InitForm, WriterConstants
<1> QED
  BY <1>3, <1>4 DEF WriterInv

LEMMA NextWriter ==
  ASSUME WriterInv, ArgumentsInv, BuiltInv, [Next]_vars
  PROVE  WriterInv'
<1>1. CASE sw \cap {"a", "b"} # {} /\ sw' = sw
  BY <1>1 DEF WriterInv
<1>2. CASE Printing
  BY <1>2, PrintingStep, WriterContinues
<1> QED
  BY <1>1, <1>2, StreamMoves, WriterKept, WriterSet, WriterBegins

(* What is then entered as printed is the canonical form of the object.    *)
CanonicalInv ==
  sw \cap {"a", "b"} = {} =>
    \A i \in DOMAIN printed :
      printed[i].kind = "canonical" => printed[i].text = Writer!Canonical(printed[i].object)

LEMMA EntryIsCanonical ==
  ASSUME WriterInv, Printing, job' = "idle", job = "canonical", sw \cap {"a", "b"} = {}
  PROVE  Entry.text = Writer!Canonical(object)
<1>1. todo = <<>> /\ os' = Ended(job, os)
  BY PrintingStep, EndIsEnded
<1>2. os' = os
  BY <1>1 DEF Ended
<1>3. Writer!SInv /\ Writer!FormInv /\ began.mode = "canonical"
  BY DEF WriterInv
<1>4. began.kind = "canonical"
  BY <1>3 DEF Writer!SInv, Writer!TraversalInv
<1>5. Writer!Output = Writer!Canonical(object)
  BY <1>1, <1>3, <1>4, Writer!CanonicalForm, WriterConstants
<1> QED
  BY <1>2, <1>5 DEF Writer!Output, Entry

LEMMA NextCanonical ==
  ASSUME CanonicalInv, WriterInv, ArgumentsInv, BuiltInv, [Next]_vars
  PROVE  CanonicalInv'
<1>1. CASE UNCHANGED printed /\ sw \subseteq sw'
  BY <1>1 DEF CanonicalInv
<1>2. CASE Printing /\ job' = "idle"
  <2>1. sw' = sw /\ Entry.kind = job /\ Entry.object = object
    BY <1>2, PrintingStep DEF Entry
  <2>2. \A i \in DOMAIN printed' :
          (i \in DOMAIN printed /\ printed'[i] = printed[i]) \/ printed'[i] = Entry
    BY <1>2, OneMore
  <2> QED
    BY <1>2, <2>1, <2>2, EntryIsCanonical DEF CanonicalInv
<1>3. CASE Printing /\ job' # "idle"
  BY <1>3, PrintingStep DEF CanonicalInv
<1> QED
  BY <1>1, <1>2, <1>3, StreamMoves DEF StreamSet

(* Two entries of an object in a form have the same text.                  *)
LEMMA SameTexts == RunInv /\ CanonicalInv => SameTextEveryTime
<1> SUFFICES ASSUME RunInv, CanonicalInv,
                    NEW i \in DOMAIN printed, NEW j \in DOMAIN printed,
                    printed[i].object = printed[j].object, printed[i].kind = printed[j].kind,
                    printed[i].kind # "canonical" \/ sw \cap {"a", "b"} = {}
             PROVE  printed[i].text = printed[j].text
  BY DEF SameTextEveryTime
<1>1. CASE printed[i].kind # "canonical"
  <2>1. /\ TextOf(printed[i].kind, printed[i].object, printed[i].text)
        /\ TextOf(printed[i].kind, printed[i].object, printed[j].text)
    BY <1>1 DEF RunInv
  <2> QED
    BY <2>1, TextIsDetermined
<1>2. CASE printed[i].kind = "canonical"
  BY <1>2, Zenon DEF CanonicalInv
<1> QED
  BY <1>1, <1>2

(* main prints an object with the same text every time it prints it in a   *)
(* form: set_output before base64 and advanced output makes what was       *)
(* printed before of no account, and canonical output needs none as long   *)
(* as it is the only form.                                                 *)

THEOREM SameTextIsPrinted == Spec => []SameTextEveryTime
<1> DEFINE Inv == ReaderInv /\ ArgumentsInv /\ RunInv /\ WriterInv /\ CanonicalInv
<1>1. Init => Inv
  <2>1. Init => CanonicalInv
    BY DEF Init, CanonicalInv
  <2> QED
    BY <2>1, InitReader, InitArguments, InitRun, InitWriter
<1>2. Inv /\ [Next]_vars => Inv'
  <2> SUFFICES ASSUME Inv, [Next]_vars PROVE Inv'
    OBVIOUS
  <2>1. BuiltInv
    BY BuiltIsObject
  <2> QED
    BY <2>1, NextReader, NextArguments, NextRun, NextWriter, NextCanonical
<1>3. Inv => SameTextEveryTime
  BY SameTexts
<1> HIDE DEF Inv
<1> QED
  BY <1>1, <1>2, <1>3, PTL DEF Spec

================================================================================
