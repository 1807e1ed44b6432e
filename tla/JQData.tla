------------------------------- MODULE JQData -------------------------------
(***************************************************************************)
(* jQuery's data of one element, and the document's ready promise.         *)
(*                                                                         *)
(* A key with a dash has two spellings: "dashed" (foo-bar) and "camel"     *)
(* (fooBar).  A data attribute is read into the cache the first time it is *)
(* asked for.  Values are numbers, 0 is undefined.                         *)
(***************************************************************************)
EXTENDS Integers, Sequences, SequencesExt

CONSTANT MaxDataOps,  \* bound: writes to the data or to the attribute
         MaxHolds     \* bound: calls of holdReady(true)

VARIABLES cache,         \* data_user of the element
          attribute,     \* the data-foo-bar attribute
          hasDataAttrs,  \* data() has read all attributes
          latest,        \* what the last write of .data(), or the read of the attribute, stored
          dataOps

dataVars == <<cache, attribute, hasDataAttrs, latest, dataOps>>

Spellings == {"dashed", "camel"}
Undefined == 0

DataInit ==
  /\ cache = [k \in Spellings |-> Undefined]
  /\ attribute \in {Undefined, 1}
  /\ hasDataAttrs = FALSE /\ latest = Undefined
  /\ dataOps = 1

NewValue == dataOps + 1
MayWrite == dataOps < MaxDataOps /\ dataOps' = dataOps + 1

\* .data(k, value): the camel spelling, and the dashed one as well if there is a copy.
DataWrite(k) ==
  /\ MayWrite
  /\ cache' = [s \in Spellings |->
                 IF s = "camel" \/ (k = "dashed" /\ cache["camel"] # Undefined) THEN NewValue ELSE cache[s]]
  /\ latest' = NewValue
  /\ UNCHANGED <<attribute, hasDataAttrs>>

\* jQuery.data(elem, k, value) stores the key as it is.
RawWrite(k) ==
  /\ MayWrite
  /\ cache' = [cache EXCEPT ![k] = NewValue]
  /\ latest' = IF k = "camel" THEN NewValue ELSE latest
  /\ UNCHANGED <<attribute, hasDataAttrs>>

\* What .data(k) returns before it looks at the attribute.
Stored(k) == IF cache[k] # Undefined THEN cache[k] ELSE cache["camel"]

\* .data(k): an attribute that is read is stored under the camel spelling.
DataRead(k) ==
  /\ Stored(k) = Undefined /\ attribute # Undefined
  /\ cache' = [cache EXCEPT !["camel"] = attribute]
  /\ latest' = attribute
  /\ UNCHANGED <<attribute, hasDataAttrs, dataOps>>

\* .data() reads all attributes, once.
DataReadAll ==
  /\ ~hasDataAttrs
  /\ hasDataAttrs' = TRUE
  /\ cache' = [cache EXCEPT !["camel"] = IF @ = Undefined THEN attribute ELSE @]
  /\ latest' = cache'["camel"]
  /\ UNCHANGED <<attribute, dataOps>>

\* removeData(k): a key that is there goes with its camel spelling, any other key only as camel.
RemoveData(k) ==
  /\ cache' = [s \in Spellings |->
                 IF s = "camel" \/ (k = "dashed" /\ cache[k] # Undefined) THEN Undefined ELSE cache[s]]
  /\ latest' = Undefined
  /\ UNCHANGED <<attribute, hasDataAttrs, dataOps>>

SetAttribute ==
  /\ MayWrite
  /\ attribute' = NewValue
  /\ UNCHANGED <<cache, hasDataAttrs, latest>>

DataNext ==
  \/ \E k \in Spellings : DataWrite(k) \/ RawWrite(k) \/ DataRead(k) \/ RemoveData(k)
  \/ DataReadAll \/ SetAttribute

\* The camel spelling reads what was written last under either spelling, and an attribute
\* keeps the value it was first read with.  (The dashed spelling does not: its copy stays as
\* it is when the camel one is written or removed.)
CamelReadsLatest == cache["camel"] = latest
-----------------------------------------------------------------------------
VARIABLES readyState,  \* of the document: "loading", "interactive" or "complete"
          late,        \* jQuery is loaded into a complete document: its timeout is pending
          listening,   \* completed() listens to DOMContentLoaded and load
          isReady, readyWait,
          holds,       \* holdReady(true) calls not yet released
          resolved,    \* readyList
          triggers     \* how often the "ready" event was triggered
readyVars == <<readyState, late, listening, isReady, readyWait, holds, resolved, triggers>>

ReadyInit ==
  /\ readyState \in {"loading", "interactive", "complete"}
  /\ late = (readyState = "complete") /\ listening = ~late
  /\ isReady = FALSE /\ readyWait = 1 /\ holds = 0 /\ resolved = FALSE /\ triggers = 0

\* jQuery.ready(wait): goes on to resolve only when nothing is left to wait for.
ready(wait) ==
  LET left == readyWait - 1
      return == IF wait THEN left # 0 ELSE isReady
  IN  IF return
      THEN readyWait' = (IF wait THEN left ELSE readyWait) /\ UNCHANGED <<isReady, resolved, triggers>>
      ELSE /\ isReady' = TRUE /\ readyWait' = left
           /\ resolved' = (resolved \/ wait \/ left <= 0)
           /\ triggers' = IF wait \/ left <= 0 THEN triggers + 1 ELSE triggers

\* The document goes from loading to interactive, which is DOMContentLoaded, to complete, which
\* is load; completed() hears the first of them and stops listening.
DocumentAdvances ==
  /\ readyState # "complete"
  /\ readyState' = IF readyState = "loading" THEN "interactive" ELSE "complete"
  /\ IF listening THEN ready(FALSE) ELSE UNCHANGED <<isReady, readyWait, resolved, triggers>>
  /\ listening' = FALSE
  /\ UNCHANGED <<late, holds>>

LateTimeout ==
  /\ late /\ late' = FALSE
  /\ ready(FALSE)
  /\ UNCHANGED <<readyState, listening, holds>>

HoldReady ==
  /\ readyWait < MaxHolds + 1 /\ triggers < 2
  /\ readyWait' = readyWait + 1 /\ holds' = holds + 1
  /\ UNCHANGED <<readyState, late, listening, isReady, resolved, triggers>>

ReleaseReady ==
  /\ holds > 0 /\ holds' = holds - 1
  /\ ready(TRUE)
  /\ UNCHANGED <<readyState, late, listening>>

ReadyNext == DocumentAdvances \/ LateTimeout \/ HoldReady \/ ReleaseReady

DomIsReady == ~listening /\ ~late

\* The ready callbacks run when the document is ready and every hold was released: not
\* before, and not later.
ReadyWaitsForHolds == /\ resolved => DomIsReady
                      /\ DomIsReady /\ holds = 0 => resolved

\* No hold is in force at the moment they run.
HoldsDelayReady == [][~resolved /\ resolved' => holds' = 0]_readyVars
-----------------------------------------------------------------------------
(***************************************************************************)
(* jQuery on one element's class names and on the value of a select.       *)
(***************************************************************************)
CONSTANTS ClassNames,
          FirstClasses,    \* the class attribute of the page: a name may be there twice
          OptionValues,    \* of the select's options, in order
          DisabledOptions, \* their positions
          MaxFormOps       \* bound: calls and choices of the user

VARIABLES className,       \* the names in the attribute
          savedClasses,    \* data_priv: __className__
          present,         \* ghost: the names as a set
          multiple,        \* the select is select-multiple
          selected,        \* the selected options
          askedVal,           \* ghost: the values of the last val(...) that the user left alone
          formOps

formVars == <<className, savedClasses, present, multiple, selected, askedVal, formOps>>

FormInit ==
  /\ className = FirstClasses /\ savedClasses = <<>> /\ present = ToSet(FirstClasses)
  /\ multiple \in BOOLEAN /\ askedVal = <<>>
  /\ selected = (IF multiple THEN {} ELSE {Min(DOMAIN OptionValues \ DisabledOptions)})
  /\ formOps = 0

FormOp == formOps < MaxFormOps /\ formOps' = formOps + 1
-----------------------------------------------------------------------------
hasClass(cur, c) == c \in ToSet(cur)
addClass(cur, classes) == FoldLeft(LAMBDA r, c : IF hasClass(r, c) THEN r ELSE Append(r, c), cur, classes)

removeClass(cur, classes) == FoldLeft(LAMBDA r, c : SelectSeq(r, LAMBDA d : d # c), cur, classes)
toggleNames(cur, classes) ==
  FoldLeft(LAMBDA r, c : IF hasClass(r, c) THEN removeClass(r, <<c>>) ELSE addClass(r, <<c>>), cur, classes)

ClassOp == FormOp /\ UNCHANGED <<multiple, selected, askedVal>>

AddClass(classes) ==
  /\ ClassOp /\ className' = addClass(className, classes) /\ present' = present \cup ToSet(classes)
  /\ UNCHANGED savedClasses

RemoveClass(classes) ==
  /\ ClassOp /\ className' = removeClass(className, classes) /\ present' = present \ ToSet(classes)
  /\ UNCHANGED savedClasses

ToggleNames(classes) ==
  /\ ClassOp /\ className' = toggleNames(className, classes)
  /\ present' = (present \ ToSet(classes)) \cup (ToSet(classes) \ present)
  /\ UNCHANGED savedClasses

\* toggleClass() and toggleClass(boolean): all the names at once.
ToggleAll(value) ==
  /\ ClassOp
  /\ savedClasses' = IF className # <<>> THEN className ELSE savedClasses
  /\ className' = IF className # <<>> \/ value = "false" THEN <<>> ELSE savedClasses
  /\ present' = IF present # {} \/ value = "false" THEN {} ELSE ToSet(savedClasses)
-----------------------------------------------------------------------------
Options == DOMAIN OptionValues
Enabled == Options \ DisabledOptions

\* The browser: one option at most is selected, and if none is left the first that can be.
SelectOption(sel, i, on) ==
  IF on THEN (IF multiple THEN sel \cup {i} ELSE {i})
  ELSE IF ~multiple /\ sel \ {i} = {} THEN {Min(Enabled)} ELSE sel \ {i}

\* valHooks.select: get returns null (<<>>), or the values.
getVal(sel) ==
  IF sel = {} THEN <<>>
  ELSE LET shown == IF multiple THEN sel \cap Enabled ELSE {Min(sel)} \cap Enabled
       IN  [i \in DOMAIN SetToSortSeq(shown, <) |-> OptionValues[SetToSortSeq(shown, <)[i]]]
setVal(sel, values) ==
  LET set  == {i \in Options : OptionValues[i] \in values}
      done == FoldRight(LAMBDA i, s : SelectOption(s, i, i \in set), [i \in Options |-> i], sel)
  IN  IF set = {} THEN {} ELSE done

SelectOp == FormOp /\ UNCHANGED <<className, savedClasses, present, multiple>>

SetVal(values) == SelectOp /\ selected' = setVal(selected, values) /\ askedVal' = <<values>>

Choose(i, on) ==
  /\ SelectOp /\ i \in Enabled
  /\ selected' = SelectOption(selected, i, on) /\ askedVal' = <<>>

FormNext ==
  \/ \E c, d \in ClassNames :
       \/ AddClass(<<c, d>>) \/ RemoveClass(<<c, d>>)
       \/ c # d /\ ToggleNames(<<c, d>>)
  \/ \E value \in {"none", "true", "false"} : ToggleAll(value)
  \/ \E values \in SUBSET (ToSet(OptionValues) \cup {0}) : SetVal(values)
  \/ \E i \in Options, on \in BOOLEAN : (multiple \/ on) /\ Choose(i, on)
-----------------------------------------------------------------------------
\* The class attribute is a set of names whatever it was at first: adding, removing and
\* toggling do to it what they do to a set, and bring in no name twice.
ClassesAreASet ==
  /\ ToSet(className) = present
  /\ \A c \in ClassNames :
       LET count(s) == Len(SelectSeq(s, LAMBDA d : d = c)) IN count(className) \in {0, 1, count(FirstClasses)}

\* val() gives back what val(...) asked for: the options with the values, of a select-one the
\* first of them, except those that are disabled.
ValIsGivenBack ==
  askedVal # <<>> =>
    LET wanted == {i \in Options : OptionValues[i] \in askedVal[1]}
        chosen == (IF multiple \/ wanted = {} THEN wanted ELSE {Min(wanted)}) \cap Enabled
    IN  ToSet(getVal(selected)) = {OptionValues[i] : i \in chosen}
=============================================================================
