------------------------------ MODULE ReadConfig ------------------------------
(***************************************************************************)
(* `read_terragrunt_config` (ReadTerragruntConfigFn in                     *)
(* crates/core/src/terragrunt/resolver.rs) and the two evaluators it calls *)
(* and is called from, `evaluate_locals` and `evaluate_inputs`.  Reducing  *)
(* a local may call it, and it reduces the locals and the inputs of the    *)
(* file it reads with the same function registry, so reads nest; all of    *)
(* them share one memo, one set of files in flight and one stack.  The     *)
(* include cascade comes before and reads files of its own, past the memo. *)
(*                                                                         *)
(* A body is a sequence of entries, its locals and then its inputs.  The   *)
(* data of an entry is abstracted to the files whose contents went into    *)
(* it: a literal has none, the result of a read has the file and whatever  *)
(* went into that file's own locals and inputs.                            *)
(***************************************************************************)
EXTENDS Naturals, Sequences, FiniteSets

CONSTANTS
  Files,       \* the files read_terragrunt_config may be asked for
  Included,    \* those of them the include cascade has read and parsed before
  Component,   \* the merged body `resolve` evaluates: the outermost caller
  Bodies,      \* [Files \cup {Component} -> SUBSET BodyShape]
  MaxPasses,   \* the cap on the passes of evaluate_locals (16 in the code)
  None

\* An entry calls the function on a file, with an argument of the wrong type
\* or not at all, and may refer to a local of the same body (0: to none).
Illtyped == "illtyped"
Entry == [call : Files \cup {None, Illtyped}, use : Nat]
BodyShape == [locals : Seq(Entry), inputs : Seq(Entry)]

Callers == Files \cup {Component}

ASSUME IncludedAreFiles == Included \subseteq Files
ASSUME ComponentIsNoFile == Component \notin Files /\ None \notin Callers
ASSUME MarksAreNoValues == Illtyped \notin Files /\ \A S \in SUBSET Files : S # None
ASSUME CapPositive == MaxPasses \in Nat \ {0}
ASSUME BodiesShaped ==
  DOMAIN Bodies = Callers /\ \A f \in Callers : Bodies[f] \subseteq BodyShape

VARIABLES
  body,      \* [Callers -> BodyShape \cup {None}]: the bodies parsed so far
  parses,    \* [Files -> Nat]: how often each was parsed in this resolution
  frames,    \* the evaluations under way, the innermost last
  open,      \* the `stack` of paths that are being read
  inflight,  \* the keys of `inflight`
  memo,      \* [Files -> (SUBSET Files) \cup {None}]
  answers,   \* history: <<caller, entry, file, how the call was answered>>
  result     \* what went into the component's locals and inputs, or None

vars == <<body, parses, frames, open, inflight, memo, answers, result>>

Entries(f) == body[f].locals \o body[f].inputs
LocalsOf(f) == 1..Len(body[f].locals)
InputsOf(f) == (Len(body[f].locals) + 1)..Len(Entries(f))
Upwards(first, last) == [k \in 1..(last + 1 - first) |-> first + k - 1]

\* evaluate_locals begins: all locals pending, none resolved.
NewFrame(f, b) ==
  LET n == Len(b.locals \o b.inputs) IN
  [file |-> f, inputs |-> FALSE, pass |-> 1, progress |-> FALSE,
   pending |-> Upwards(1, Len(b.locals)), kept |-> << >>,
   got |-> [k \in 1..n |-> None],    \* the calls reduced to a literal
   val |-> [k \in 1..n |-> None]]    \* the entries reduced to a literal

\* read_and_project of the cascade: once a file, and nothing goes to the memo.
ByCascade(f) == IF f \in Included THEN 1 ELSE 0

Init ==
  /\ \E b \in Bodies[Component] :
       /\ body = [f \in Callers |-> IF f = Component THEN b ELSE None]
       /\ frames = <<NewFrame(Component, b)>>
  /\ parses = [f \in Files |-> ByCascade(f)]
  /\ open = << >>
  /\ inflight = {}
  /\ memo = [f \in Files |-> None]
  /\ answers = {}
  /\ result = None

-----------------------------------------------------------------------------
(* The innermost evaluation, and the entry it is at.                        *)

Top == frames[Len(frames)]
SetTop(frame) == frames' = [frames EXCEPT ![Len(frames)] = frame]
Running == frames # << >>
AtEntry == Running /\ Top.pending # << >>
Cursor == Head(Top.pending)
Now == Entries(Top.file)[Cursor]

\* The entry's call is still a call: reduce it.
Calling == AtEntry /\ Now.call \in Files /\ Top.got[Cursor] = None
Answer(how) == answers' = answers \cup {<<Top.file, Cursor, Now.call, how>>}
Got(files) == SetTop([Top EXCEPT !.got[Cursor] = files])

\* `memo.get(&canonical)`
MemoHit ==
  /\ Calling
  /\ memo[Now.call] # None
  /\ Got(memo[Now.call])
  /\ Answer("memo")
  /\ UNCHANGED <<body, parses, open, inflight, memo, result>>

\* The file is in flight, so this call comes from inside its own evaluation:
\* the fallback, or an empty map.  The test before it compares the stack with
\* a freshly allocated Arc by address and never finds anything.
RefuseInFlight ==
  /\ Calling
  /\ memo[Now.call] = None /\ Now.call \in inflight
  /\ Got({})
  /\ Answer("fallback")
  /\ UNCHANGED <<body, parses, open, inflight, memo, result>>

\* Wrong: `inflight` keeps the path when fs::read fails (NothingLeaks fails).
ReadFails_Leaks ==
  /\ Calling
  /\ memo[Now.call] = None /\ Now.call \notin inflight
  /\ inflight' = inflight \cup {Now.call}
  /\ Got({})
  /\ Answer("unreadable")
  /\ UNCHANGED <<body, parses, open, memo, result>>

\* The path does not resolve under the root, or fs::read fails; `inflight` and
\* the stack are left as they were found.
ReadFails ==
  /\ Calling
  /\ memo[Now.call] = None /\ Now.call \notin inflight
  /\ Got({})
  /\ Answer("unreadable")
  /\ UNCHANGED <<body, parses, open, inflight, memo, result>>

\* The file is marked as in flight, read and parsed; its locals come next.
EnterRead ==
  /\ Calling
  /\ memo[Now.call] = None /\ Now.call \notin inflight
  /\ inflight' = inflight \cup {Now.call}
  /\ open' = Append(open, Now.call)
  /\ parses' = [parses EXCEPT ![Now.call] = @ + 1]
  /\ \E b \in Bodies[Now.call] :
       /\ body' = [body EXCEPT ![Now.call] = b]
       /\ frames' = Append(frames, NewFrame(Now.call, b))
  /\ Answer("read")
  /\ UNCHANGED <<memo, result>>

\* Whether `reduce_expression` comes to a literal: the call has been reduced
\* and the local it refers to is among those resolved so far.
Reduced(f, e, got, val) ==
  /\ e.call # Illtyped
  /\ e.call \in Files => got # None
  /\ e.use # 0 => (e.use \in LocalsOf(f) /\ val[e.use] # None)

Sources(e, got, val) ==
  (IF e.call \in Files THEN got ELSE {}) \cup (IF e.use # 0 THEN val[e.use] ELSE {})

\* The entry is reduced as far as it goes: a literal joins `resolved`, what is
\* not one is kept for the next pass (an input: dropped).
Reduce ==
  /\ AtEntry
  /\ ~Calling
  /\ LET k == Cursor
         ok == Reduced(Top.file, Now, Top.got[k], Top.val)
     IN  SetTop([Top EXCEPT
           !.pending = Tail(@),
           !.val[k] = IF ok THEN Sources(Now, Top.got[k], Top.val) ELSE None,
           !.progress = @ \/ ok,
           !.kept = IF ok THEN @ ELSE Append(@, k)])
  /\ UNCHANGED <<body, parses, open, inflight, memo, answers, result>>

-----------------------------------------------------------------------------
(* The ends of a pass, of the locals and of the whole evaluation.           *)

AtPassEnd == Running /\ Top.pending = << >> /\ ~Top.inputs

\* Progress was made, something is pending still, and the cap is not reached.
Again == Top.progress /\ Top.kept # << >> /\ Top.pass < MaxPasses

\* Wrong: as long as anything is pending, pass after pass (ReadsEnd fails).
NextPass_NoProgress ==
  /\ AtPassEnd
  /\ Top.kept # << >>
  /\ SetTop([Top EXCEPT !.pending = Top.kept, !.kept = << >>])
  /\ UNCHANGED <<body, parses, open, inflight, memo, answers, result>>

NextPass ==
  /\ AtPassEnd
  /\ Again
  /\ SetTop([Top EXCEPT !.pass = @ + 1, !.progress = FALSE,
                        !.pending = Top.kept, !.kept = << >>])
  /\ UNCHANGED <<body, parses, open, inflight, memo, answers, result>>

\* Wrong: one pass and no more (LocalsSettle fails).
BeginInputs_OnePass ==
  /\ AtPassEnd
  /\ SetTop([Top EXCEPT !.inputs = TRUE, !.kept = << >>,
       !.pending = Upwards(Len(body[Top.file].locals) + 1, Len(Entries(Top.file)))])
  /\ UNCHANGED <<body, parses, open, inflight, memo, answers, result>>

\* evaluate_inputs: each input once, against the locals that were resolved.
BeginInputs ==
  /\ AtPassEnd
  /\ ~Again
  /\ SetTop([Top EXCEPT !.inputs = TRUE, !.kept = << >>,
       !.pending = Upwards(Len(body[Top.file].locals) + 1, Len(Entries(Top.file)))])
  /\ UNCHANGED <<body, parses, open, inflight, memo, answers, result>>

Evaluated == Running /\ Top.inputs /\ Top.pending = << >>
Collected == UNION {Top.val[k] : k \in {j \in DOMAIN Top.val : Top.val[j] # None}}

\* Wrong: the inputs are left out of the memo (MemoHoldsWhatItCalled fails).
FinishRead_LocalsOnly ==
  LET n == Len(frames)
      caller == frames[n - 1]
      value == {Top.file} \cup
        UNION {Top.val[k] : k \in {j \in LocalsOf(Top.file) : Top.val[j] # None}}
  IN  /\ Evaluated /\ n > 1
      /\ memo' = [memo EXCEPT ![Top.file] = value]
      /\ open' = SubSeq(open, 1, Len(open) - 1)
      /\ inflight' = inflight \ {Top.file}
      /\ frames' = [SubSeq(frames, 1, n - 1) EXCEPT
                      ![n - 1].got[Head(caller.pending)] = value]
      /\ UNCHANGED <<body, parses, answers, result>>

\* The result goes into the memo, the path comes off the stack and out of
\* `inflight`, and the call in the frame below has its value.
FinishRead ==
  LET n == Len(frames)
      caller == frames[n - 1]
      value == {Top.file} \cup Collected
  IN  /\ Evaluated /\ n > 1
      /\ memo' = [memo EXCEPT ![Top.file] = value]
      /\ open' = SubSeq(open, 1, Len(open) - 1)
      /\ inflight' = inflight \ {Top.file}
      /\ frames' = [SubSeq(frames, 1, n - 1) EXCEPT
                      ![n - 1].got[Head(caller.pending)] = value]
      /\ UNCHANGED <<body, parses, answers, result>>

\* `resolve` has its effective locals and inputs.
FinishComponent ==
  /\ Evaluated /\ Len(frames) = 1
  /\ frames' = << >>
  /\ result' = Collected
  /\ UNCHANGED <<body, parses, open, inflight, memo, answers>>

EvaluateStep ==
  \/ MemoHit \/ RefuseInFlight \/ ReadFails \/ EnterRead
  \/ Reduce \/ NextPass \/ BeginInputs \/ FinishRead \/ FinishComponent

Terminated == frames = << >> /\ UNCHANGED vars

Next == EvaluateStep \/ Terminated

\* One thread evaluates a component; it runs until `resolve` returns.
Spec == Init /\ [][Next]_vars /\ WF_vars(EvaluateStep)

-----------------------------------------------------------------------------
(* Properties.                                                              *)

Hows == {"memo", "fallback", "unreadable", "read"}

TypeOK ==
  /\ \A f \in Callers : body[f] \in Bodies[f] \cup {None}
  /\ parses \in [Files -> Nat]
  /\ open \in Seq(Files)
  /\ inflight \subseteq Files
  /\ memo \in [Files -> (SUBSET Files) \cup {None}]
  /\ \A a \in answers : a[1] \in Callers /\ a[3] \in Files /\ a[4] \in Hows
  /\ result \in (SUBSET Files) \cup {None}
  /\ \A i \in 1..Len(frames) :
       LET fr == frames[i]
           n == Len(Entries(fr.file))
       IN  /\ fr.file \in Callers
           /\ fr.inputs \in BOOLEAN /\ fr.progress \in BOOLEAN
           /\ fr.pass \in 1..MaxPasses
           /\ fr.pending \in Seq(1..n) /\ fr.kept \in Seq(1..n)
           /\ fr.got \in [1..n -> (SUBSET Files) \cup {None}]
           /\ fr.val \in [1..n -> (SUBSET Files) \cup {None}]

\* The memo, the files in flight and the stack tell one story, whichever reads
\* succeed or fail: in flight are exactly the files whose evaluation is under
\* way, each once, none of them memoised.  A path that stayed in flight would
\* answer every later read of that file with the fallback.
NothingLeaks ==
  /\ Len(open) = (IF frames = << >> THEN 0 ELSE Len(frames) - 1)
  /\ \A i \in 1..Len(open) : frames[i + 1].file = open[i]
  /\ \A i, j \in 1..Len(open) : open[i] = open[j] => i = j
  /\ inflight = {open[i] : i \in 1..Len(open)}
  /\ \A f \in inflight : memo[f] = None

\* A memoised result holds what the file asked for: every file it read, or
\* found in the memo, with all that went into that one, provided the entry
\* that asked needed no local that stayed unresolved; what it got in place of a
\* file that was in flight is left out.  And the function itself parses no file
\* twice: the cascade's reading, which the memo does not know of, is the only
\* other one.
MemoHoldsWhatItCalled ==
  /\ \A f \in Files : parses[f] <= ByCascade(f) + 1
  /\ \A a \in answers :
       LET f == a[1]
           g == a[3]
       IN  (f \in Files /\ a[4] \in {"memo", "read"} /\ Entries(f)[a[2]].use = 0)
             => (memo[f] # None => (memo[g] # None /\ memo[g] \subseteq memo[f]))

\* The passes over the locals end at a fixpoint: when the inputs are evaluated,
\* a local that is still not a literal has a call that failed, or refers to one
\* that is not a literal either; unless the cap cut the passes short.
LocalsSettle ==
  \A i \in 1..Len(frames) :
    LET fr == frames[i] IN
    (fr.inputs /\ fr.pass < MaxPasses) =>
      \A k \in LocalsOf(fr.file) :
        fr.val[k] = None =>
          ~Reduced(fr.file, Entries(fr.file)[k], fr.got[k], fr.val)

\* `resolve` returns, although files may read one another in a circle.
ReadsEnd == <>(result # None)

=============================================================================
