# A verification of the S-expression library sexpp

TLA+ models of `rnpgp/sexp` (the C++ library `sexpp`), checked with TLC and, where
a result should hold for every size of input, proved with TLAPS.

The library reads and writes S-expressions: octet strings, with an optional
presentation hint, and lists of them.  There are three written forms: canonical
(lengths and raw octets), base64 of the canonical form in braces, and the
"advanced" form for people, with tokens, quoted, hexadecimal and base64 strings
and line breaks.  It is sequential code: no threads and nothing persistent.  What
makes it hard to get right is that small counters and modes (byte size, shift
register, column, depth, print mode) are kept by many functions and read by many
others, across recursion, errors and the end of input.

## Inventory

| part | source | state | operations | must be true |
|---|---|---|---|---|
| character classes | `sexp-char-defs.cpp`, `sexp.h` | tables | predicates, digit values | they are what the grammar says |
| input stream | `sexp-input.cpp` 38-162 | `byte_size`, `next_char`, `bits`, `n_bits`, `count` | `set_input`, `get_char`, `set_byte_size`, `skip_char`, `skip_white_space` | 4-bit and 6-bit regions decode exactly; a region ends where it should, without dropping data |
| reader | `sexp-input.cpp` 164-510, `sexp-object.cpp` (`parse`) | C++ stack, string under construction | `scan_object`, `scan_list`, `scan_string`, five string readers | every input ends the call; the object mirrors the brackets; lengths and escapes are honoured |
| depth manager | `sexp-depth-manager.cpp` | `depth`, `max_depth` | increase, decrease, reset | `depth` is the current nesting, and limited |
| output stream | `sexp-output.cpp`, `sexp.h` | `byte_size`, `bits`, `n_bits`, `mode`, `column`, `max_column`, `indent`, `base64_count`, `depth` | `put_char`, `var_put_char`, `change_output_byte_size`, `flush`, `new_line`, ... | groups are complete; `column` is the truth; regions never nest |
| writer | `sexp-object.cpp`, `sexp-simple-string.cpp` | C++ stack, the stream | `print_canonical`, `print_base64`, `print_advanced`, `advanced_length` | what is written is the object, in that form, and reads back |
| errors | `sexp-error.{h,cpp}` | `verbosity` | `sexp_error` | errors throw; warnings throw unless verbosity is `error` |
| extended private keys | `ext-key-format.{h,cpp}` | position in line, `is_scanning_value`, `has_key`, fields | `scan`, `scan_name`, `scan_value`, `read_char`, `skip_line` | a file is read as it was written, however it is folded and commented; one `Key`, whole |
| command line program | `sexp-main.cpp` | one input and one output stream, switches | options, loop over the objects, exit code | each object is printed once, in order, in each form asked for; the same object always alike |

How they interact: the reader calls the input stream character by character and is
the only one to open and close its regions; the end of a region is decided by the
stream.  The writer calls the output stream, which may break a line on its own.
Both streams inherit the depth manager.  Classes that print keep nothing
themselves: what one printing leaves in the stream is there for the next.
`ext_key_input_stream_t` overrides `read_char` of the input stream, so that lists
are read across continuation lines.  The program runs the reader and the writer in
turn, on one stream each, and resets only part of their state in between.

The hazards, each at its line, are in `PROJECT.json`.

## Modules

| module | what it is |
|---|---|
| `SexpChars` | octets, character classes, digit values (`sexp_char_defs_t`) |
| `Objects` | an object as its traversal: `Opened`, `Closed` and one event for each string |
| `InputStream` | `sexp_input_stream_t` as a channel; no `Next` of its own |
| `RegionDecoder` | a client that opens regions anywhere, with the history that says decoding is exact |
| `Parser` | one call of `scan_object`, over `InputStream` |
| `Nesting` | abstract: lists are entered and left one at a time, never more than `Limit` |
| `OutputStream` | `sexp_output_stream_t`: a record, and an operator for each member function |
| `Printer` | a client that prints objects in the three forms on one stream |
| `RoundTrip` | `Printer`'s output as `Parser`'s input |
| `ExtKey` | one call of `ext_key_input_stream_t::scan`, over `Parser` |
| `Transcript` | abstract: every object is printed in every form, in order, then the program ends |
| `Cli` | `main`, over `Parser` and `Printer` |
| `MC...` | alphabets, objects, widths, key files and command lines for TLC |
| `RegionDecoderProofs` | theorems about `RegionDecoder` |
| `ParserProofs` | theorems about `Parser`, and that it implements `Nesting` |
| `PrinterProofs`, `FormProofs` | theorems about `Printer`: the stream and the traversal; what an output looks like |
| `ExtKeyProofs` | theorems about `ExtKey`; those about `Parser`, used for the instance it reads the key with |
| `CliProofs` | theorems about `Cli`; those about `Parser` and `Printer`, used for the instances it reads and prints with |
| `Lemmas` | facts of numbers and sequences, among them induction on numbers |
| `Induction` | recursive functions and folds of any operator, instantiated where a proof meets one |

### How state and actions correspond to the code

*Input.*  The variables of `InputStream` are the members of the class; `status` says
whether an exception was thrown.  A call of `get_char` is two things: the caller's
action sets `reading` (`GetChar`), and each turn of its loop, one raw character, is
a step `ReadChar` until one of them resets `reading`.  So a caller's action is the
code between two returns of `get_char`.

*Reader.*  `pc` names the place where the code goes on when `get_char` returns;
`calls` is the C++ stack of `scan_list` and of the `scan_object` that read a `{`.
`built` is the object as far as it has been read.  `depth` is stepped after the
character behind the bracket was read, as in `open_list` and `close_list`.
`Fail` is `sexp_error` at level error; a warning throws if `WarningsThrow`
(`sexp_exception_t::shall_throw`).  After an exception the stream is not used.

*Output.*  A member function of `sexp_output_stream_t` is an operator from the
stream's state to its next, and a printing function is a composition or fold of
such operators.  One step prints one event of the object's traversal: the
beginning of a list, its end, or a whole string with the separation before it.
`frames` holds `vertical` and `firstelement` of the active calls of
`sexp_list_t::print_advanced`.  `failed` says that an error was thrown, or that
the assertion in `flush` failed.

*Key files.*  The file is stored in `doc`, because `read_char` looks ahead in it; `at`
is how much of it has been taken.  `ReadChar` is the overridden `read_char`: its
loops over line ends, comments and the two peeks are one choice of the line end to
stop at (`LineEnd`).  `phase` and `c` are the place in `scan`, `scan_name` or
`scan_value` and their last character; `name`, `string` and `fields` are theirs.  The
reader of the key is `Parser`, entered at `sexp_list_t::parse`, whose raw characters
come from this `ReadChar`.

*Program.*  `options` are the arguments still to be looked at, `sw` the switches that
are on, `phase` the place in `main`.  Reading is the steps of `Parser`, printing
those of `Printer`, each from the stream's state that the last object left.
`NotYet` is the value of `next_char` by which `main` knows, with prompts, that
nothing has been read; `Caught` is its handler of exceptions.  `printed` is a history
of what was printed in which form, and `ret` the exit code.

Definitions marked "A fault" are variants of the definition after them with a
plausible bug.  No specification uses them; each is put in the place of the
original to see that the property named for it in `PROJECT.json` then fails.

### Abstractions

* Octets are `0..255` and `EOF` is -1; strings are sequences of octets.  Inputs are
  not stored: the next raw character is chosen when it is read, so that a run covers
  all inputs over its alphabet up to `MaxInput`, cut off everywhere.
* `uint32_t` arithmetic is modulo `WordMod`.  TLC's integers are 32 bits wide, so
  the runs use 2^16; the proofs are about every multiple of 2^16.  `depth` is a
  `size_t`; it is a word too.
* 1024 * 1024, the largest verbatim string, is `MaxVerbatim`; the number of digits
  of a length is limited by `DigitLimit` (8 in the code); `default_line_length` is
  `DefaultWidth`.
* Wording and positions of messages are left out, and so are the prompts, the
  switch `-l` and the line feeds between outputs, which `main` writes past its stream.
* `fields` is kept in order of insertion; the order of the multimap is looked at by
  nothing in the library.
* Characters of names and letters of options are those of the "C" locale.

## Runs

All runs of `Parser` are over every input of at most `MaxInput` characters from an
alphabet chosen for one part of the grammar, including every premature end.

| run | question | bounds, and why they are enough |
|---|---|---|
| RegionDecoder | are octets exactly the digits, does a region end without losing data | 6 characters of digits of both kinds, blanks, padding, all terminators; three base64 octets take 4 digits, so all phases of the register occur, twice for hexadecimal |
| ParserLists | depth counter, tree, call stack and regions, termination, refinement of `Nesting` | 6 of 14 characters, limit 2, warnings thrown: lists in lists and one level too many, base64 braces around lists (`KCk` is `()`), hints, and the brackets of all regions in and out of one another |
| ParserStrings | declared lengths before every representation, and every escape sequence | 5 characters: numbers of up to 5 digits (one too many, and 77777 does not fit the word; largest verbatim string 3), and a whole octal escape in quotes; warnings not thrown |
| Printer | the three forms, two objects in a row on one stream | objects of up to 3 events with hints, empty strings, tokens, numbers, blanks, brackets and binary strings, of up to 5 with tokens and brackets, and lists one level too deep for the limit of 2; widths 0 (none) to 9, so that lines break inside every representation |
| RoundTrip | does the reader give back what the writer wrote | some 1200 objects with every representation in data and hints, empty strings too, in all three forms; widths 0 (none), 1 and 3 (where `max_column - 4` wraps), 4, 6, 7, 11; strings of up to 7 octets, so that base64 ends in 0, 1 or 2 octets; verbosity as the library sets it, so that the warning of an empty string does not throw |
| ExtKey | is a key file read as it was written, and does every other file end the scan | a key with and without a hexadecimal string and a second field, either first, folded at every place but before a `#`, zero to two comments at the fold, three kinds of line ends, the last line with and without; and all files of up to 5 pieces out of names, brackets, `#`, blank and line end, with two keys too |
| Cli | does the program print each object in each form, once, in order, always alike, and stop between two forms only when it fails | 313 files of zero to three objects of four kinds, with nothing, a line feed or more blanks between them, sound or with one of three kinds of rubbish at the end; 13 command lines with every option; lines of 7 characters, so that they break |

Together the passing runs take every action of every module.

Five further runs show what the code does against its own comments and help text:

| run | what TLC shows |
|---|---|
| ParserQuoted | `1"aaa"`: `scan_quoted_string` stops once the string is longer than declared, without an error, and leaves the rest to be read as something else |
| PrinterStandard | `print_canonical` after `print_base64` on the same stream writes a newline inside a verbatim string |
| PrinterDepth | `sexp_list_t::print_advanced` calls `open_list` but never `close_list`: the counter only grows |
| ExtKeyWrapped | a key folded before the `#` of a hexadecimal string: `read_char` takes the continuation line for a comment, and the string is lost |
| CliWidth | `set_output`, before base64 and advanced output, undoes the width that `-w` has set |

Further observations have no run of their own:

* `}` ends the 6-bit region while a string between `|` is being read; the string goes
  on with raw characters until a `|` comes (`sexp-input.cpp:385`).
* `advanced_length` of a list leaves out the blanks between its elements
  (`sexp-object.cpp:168`), so that a line may be too long by as much.
* Without a limit (`max_depth` 0) the depth counter is decreased but not increased and
  wraps below zero; nothing reads it then.
* `flush` writes the digit of the left-over bits without looking at the line's end, so
  that a line of base64 may be one character longer than `max_column`, the "max usable
  column": `Base64FitsLine` therefore grants one.  At the greatest width of all, 2^32 - 1,
  that character makes the column wrap to 0, so that the next break comes a line late:
  the property leaves that width out.
* A line feed in a string that is printed as it is, in the verbatim form, does not reset
  `column`: `put_char` counts it like any other octet, and the line is then broken
  early.  `ColumnTracksOutput` says that the column is the distance to *a* line feed (or
  to where the stream was set up), and to the last one if no string holds any; and
  it says so modulo 2^32, because a line without breaks can be longer than that.
* With `-a`, the lists that `print_advanced` leaves open in the counter are reset
  by the next `set_output`; canonical output comes before it for the same object, but
  after it for the next one, on a stream that still counts them.
* `README.adoc:126` promises advanced output when options name no format; the program's
  output is then canonical (`sexp-main.cpp:136`).  See Properties, below.
* With `-s` the blanks at the beginning of the file are skipped, though the rest is
  taken as it is.
* In a key file, a field with an empty value takes the next line as its value
  (`ext-key-format.cpp:239`); a blank continuation line ends a value other than the
  key, although line 232 says that it encodes a newline, and only a space, not a tab,
  marks a continuation; and the character after the key's `)`, which should be the
  line end, is dropped whatever it is (line 291).

### Properties

The ones to know are `ExactDecoding` and `NoDataDropped` (the shift register),
`HexOnlyInHexString` (regions and strings end together), `DepthIsNesting` and
`NestingSpec` (the depth limit), `TreeMirrorsCalls` (what is built), `Termination`,
`EndIsNoOctet` and `EscapesAreExact` (what is stored), `LengthNeverWraps` (declared
lengths), `SomeLengthForVerbatim` (the code's assertion, which is about the word for "no
length" only, not about other wrapped numbers), `CanonicalIsExact`, `RegionIsPadded`, `ColumnTracksOutput`,
`Base64FitsLine`, `OnlyDepthFails`, `CanonicalDepthIsNesting`, `RoomIsNotNegative` (the
writer), `ReadsBack` (both together), `ReadsWritten`, `KeyIsComplete` and
`KeyIsNeverReplaced` (key files), `TranscriptSpec`, `EveryFormInTurn` and
`SameTextEveryTime` (the program).  Each is stated in words where it is defined.

The depth counter is the nesting in the canonical and base64 forms only
(`CanonicalDepthIsNesting`); for `print_advanced` PrinterDepth refutes it.
`CanonicalIsExact` asks that the stream be in canonical mode, as it is after
`set_output`; without that it is `CanonicalIsStandard`, which PrinterStandard refutes.
For the same reason `SameTextEveryTime` says nothing of canonical output next to
another form.

`ReadsWritten` is `WrapsAnywhere` without the place before a `#`, which ExtKeyWrapped
refutes.  Files not written by anyone are held to `KeyIsComplete`: success means one
whole list.  `TranscriptSpec` maps `main` to `Transcript`: its objects are those the
file was made of (or the whole text with `-s`), its forms those the help text
promises, its result the exit code.  It is a refinement with liveness: that the
program ends is part of it.  `EveryFormInTurn` is what can be said of the output without
knowing what a file was made of, and so of every file, broken or not.

Both go by `AskedFor`, the forms that a command line stands for, and the repository does
not agree with itself on them.  For options without a format the code
(`sexp-main.cpp:136`), the help text (line 50), the man page (`sexpp.1:37`) and the test
scripts (`tests.sh:124`) have canonical output; so has `AskedFor`.  `README.adoc` has `-a`
"enabled if no format is specified" and `-c` "disabled" (lines 126 to 128), and takes
`-i certificate.dat -x` for advanced output (lines 155 to 163, next to a result that is
canonical).  The code does not do that: that the two properties hold, on command lines
such as `-x` and `-s` too, means that `README.adoc` is wrong there.

### Fairness

The reader is one thread that runs on until it returns or throws: `Parser` assumes
weak fairness of `Next`.  In `RoundTrip` only the reader is fair: a client need not
print, but what has been printed is read.  Nothing else is assumed; the input is
finite because a run bounds it, and `ReadEOF` is the only choice from then on.

`ExtKey` is one thread too and assumes weak fairness of `Next`; its file is finite.
`Cli` assumes weak fairness of `Main`, everything that is not printing, and of
`Printing`.  The second is spelled out with the condition that enables it (`main` is
in a print call and no error was thrown), because TLC cannot evaluate ENABLED of a
step of an instance in reasonable time; at most one of the two is enabled in a state.

## Theorems

For every value of the constants that their assumptions allow: any alphabet, length
of input, depth limit, word width; any set of objects, width of lines and number of
outputs; any set of key files.

| theorem | says | rests on |
|---|---|---|
| `DecoderTypesHold` | `Spec => []TypeOK` (`RegionDecoder`) | `ExactDecoding`: between two calls fewer than 8 bits wait |
| `DecodingIsExact` | `Spec => [](TypeOK /\ ExactDecoding)` | the invariant itself, with the arithmetic of shifting digits in and octets out modulo the word as lemmas |
| `RegionsEndClean` | `Spec => NoDataDropped` | `ExactDecoding`: if the left-over bits are 0, then the digits are the octets times a power of 2 |
| `TypesHold` | `Spec => []TypeOK` (`Parser`) | `TInv`: also `RegisterHasRoom` (between calls fewer than 8 bits are pending) and `EscapeSoFar` (an escape's digits so far bound its value) |
| `RegionsMatchStrings` | `Spec => []HexOnlyInHexString` | `HInv`: while a coded string is read its region is open or over (`CodedRegion`) |
| `EndIsNeverStored` | `Spec => EndIsNoOctet` | `TInv`, and the lemma `NextStores` on the readers of strings |
| `EscapesAreWhole` | `Spec => EscapesAreExact` | `EscapeSoFar`: the number fits an octet when it is stored |
| `VerbatimHasLength` | `Spec => []SomeLengthForVerbatim` | `LInv`: a number of n digits is less than 10^n (`DecimalBound`), and where the representation is chosen there is a length or the character is no colon (`LengthDeclared`) |
| `LengthIsWritten` | `Spec => LengthNeverWraps` | `LInv`: short of the limit the next digit gives a number less than a power of ten that fits the word (`DigitFits`) |
| `DepthIsCounted` | `Spec => []DepthIsNesting` | `NInv`: a frame for each place of the code that will leave one (`FramesMatch`) |
| `ImplementsNesting` | with a limit, `Spec => NestingSpec` | `NInv`; each step of the reader is a step of `Nesting` or leaves it alone |
| `TreeIsBuilt` | `Spec => []TreeMirrorsCalls` | `TreeInv`: before the end every prefix of what is built leaves a list open |
| `WriterTypesHold` | `Spec => []TypeOK` (`Printer`) | `SInv`, see below |
| `OnlyDepthFailsHolds` | `Spec => []OnlyDepthFails` | `StreamInv`: the byte size is 6 in a base64 output and 8 in any other, between two steps |
| `ColumnIsTracked` | `Spec => []ColumnTracksOutput` | `StreamInv`, which every member function of the stream keeps |
| `WriterDepthIsCounted` | `Spec => []CanonicalDepthIsNesting` | `DepthInv`, with the number of open lists of a prefix of an object as a lemma |
| `RoomIsLeft` | `Spec => RoomIsNotNegative` | `SInv`, and what `Separate` leaves of the column |
| `CanonicalFormIsExact` | `Spec => []CanonicalIsExact` | `FormInv`: what was received is the canonical form of the events that were printed |
| `RegionIsWhole` | `Spec => []RegionIsPadded` | `FormInv`: in a region, 6 bits for each digit and those that wait are 8 for each octet of the canonical form so far |
| `RegionFitsLine` | `Spec => []Base64FitsLine` | `FormInv`: so far every line fits, and the column is that of the last one |
| `KeyIsReadOnce` | `Spec => KeyIsNeverReplaced` (`ExtKey`) | `KeyBehind`: with `has_key` set the scanner is neither in a key nor before one |
| `KeyIsWhole` | `Spec => []KeyIsComplete` (`ExtKey`) | `ScanInv`: the invariants of the reader carried over to the instance that reads the key, and `KeyInv` |
| `SameTextIsPrinted` | `Spec => []SameTextEveryTime` (`Cli`) | `RunInv`: in base64 and advanced form an output is a run, from the stream as set up, of a function of the form and the object; `CanonicalInv`: in canonical form its text is the canonical form of the object |
| `FormsAreInTurn` | `Spec => []EveryFormInTurn` (`Cli`) | `TurnInv`: the number of prints says where `main` is in the list of forms; and `ReaderInv`: what it prints is an object |

*The reader.*  `TypeOK` alone is not inductive: that `get_char` never lets the register
grow past 13 bits needs to know how full it is between calls, and that a number fits
needs to know how many digits it has.  `DepthIsNesting` needs `FramesMatch` because the
counter is stepped when a list is closed, at a place of the code which the stack must
be known to have reached with a list on top.

*The writer.*  `SInv` is `StreamInv` (the registers, the column and the byte size),
`TraversalInv` (what is left to be printed is the end of the object) and `DepthInv`.
Its three parts need one another: that `flush` finds no incomplete octet outside
base64 needs the byte size of the job, that the depth counter does not wrap at the end
of a list needs to know that the list was begun, which is a fact of the object and
of how much of it is left.  A printing function is a composition or fold of member
functions of the stream; the proof goes the same way.  Each member function is shown
to keep the set of sound streams, `FoldInvariant` says that a fold then does, and the
actions follow.  `FormInv` adds what the stream has received since `Begin`: in
canonical mode the canonical form itself (`Exact`), and in a region its digits and
waiting bits (`Coded`).  Both are about the same print functions, so that the lemmas
on `print_canonical` are stated once, for `Received`, which is one or the other.
That `Canonical` of a longer prefix is the text of one more event is the
equation of its fold.

*Key files.*  `KeyIsNeverReplaced` needs `KeyBehind` because the test for a second key
and the reading of its value are several characters apart.  `KeyIsWhole` is the place
where two components meet: the reader is entered at a list and takes its characters
from the overridden `read_char`, so its invariants are shown again for steps of
`ExtKey`, from the lemmas on each action of `Parser`.

*The program.*  `CliProofs` uses the invariants of both halves, each for an instance of
its component.  `ReaderInv` holds those of `Parser` while `main` is in its loop: while
an object is scanned `TreeInv` says what has been built, outside `scan_object` no
frame is active, and `next_char` is a character except in the first turn after a
prompt (`FirstToCome`), where the type invariant of the reader does not hold yet.  From
it comes that what is printed is an object (`BuiltInv`).  `SameTextEveryTime` has a
reason for each form.  `set_output` comes before base64 and advanced output, and a
step of the writer depends on the stream, the active lists and the events that are
left (`StepIsAfter`): so two outputs of one object are the same run, step by step, and
end after as many steps (`RunsAgree`, `TextIsDetermined`).  In canonical form the
stream is the one that the last output left; there the invariants of `Printer` apply
(`WriterInv`), for as long as no other form is asked for, and the text is
`Canonical` of the object wherever it begins.  `TurnInv` relates the two halves of
`main`: after the options the switches are those that `AskedFor` is made of
(`OptionsRead`, `Settled`), and then the forms still to come, the number of outputs
and the object under way determine one another.

*Induction.*  The provers do not instantiate the induction theorems of the library,
whose parameter is an operator.  `Lemmas` has induction on numbers for a *set* of
numbers instead, from the well-foundedness of `<`, and `Induction` proves from it, for
an operator that is a constant of the module, that a recursive function satisfies
its equation and that a fold does what a loop does (`RecursionEquation`, `FoldEmpty`,
`FoldAppend`, `FoldRelation`, `FoldInvariant`).  A proof about `Decimal`, `VarPutAll`,
`Pad` or `Canonical` takes an instance of it, with that operator for the constant.

The assumptions are those stated with the constants.  They are about what the code
fixes (the word has at least 16 bits and holds the limits; a length of at most
`DigitLimit` digits, and one more, is less than the word; characters are octets) and
about inputs that are not any value at all (what is printed is an object; key files and the
program's input are sequences of octets, its command lines sequences of the options
that `main` knows or does not, and a width is a word).  What `main` prints is no
assumption: that it is an object is proved of the reader.

Only model-checked: `Termination`, `ReadsBack` and `TranscriptSpec`, which are about
liveness, with which the prover does not deal.  The safety part of the last two, and
`ReadsWritten`, compare what is read with the data that a file was made of: that is a
recursive computation on those data, and what it yields for every input needs an
induction over data, which is out of the prover's reach too.

## Not modelled

* A stream that is used after an exception, or a second `scan` on the stream of a key
  file (`has_key` is never reset): no caller does either.
* The accessors of objects (`sexp_list_at`, `as_unsigned`, comparisons): one-line
  queries, which the library itself does not call.  A constructor of `sexp_string_t`
  (`sexp.h:313`) leaves `with_presentation_hint` uninitialised; nothing calls it.
* Prompts, files, message texts and positions; build files, packaging, tests.

## Plan

Done: the decoder, the reader, its nesting and tree, the writer, extended private
keys and the command line program, each with its proofs; writing and reading back.

1. The depth counter of the output stream over a whole file of objects.
2. A grammar of the transport form as an operator on bounded inputs, and the reader
   against it: which inputs are accepted, and with which object.
