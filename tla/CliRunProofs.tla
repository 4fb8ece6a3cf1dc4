---------------------------- MODULE CliRunProofs ----------------------------
(***************************************************************************)
(* What `oxidepdf run` guarantees holds for any number of invocations,     *)
(* inputs and outputs, and however often the user interferes: no file is   *)
(* clobbered or half written, inputs beyond their budget end the run, and  *)
(* success means that everything was handed over.                          *)
(***************************************************************************)
EXTENDS CliRun, SequenceTheorems, TLAPS

USE DEF pipe, Return

(* The inductive invariant.                                                 *)

\* A run at an output is at an existing one, and the file it is about to write
\* has a name; it has an exit code when it is over.
PositionOK(p, next, k, code) ==
    /\ code = "none" <=> next \notin {"exit", "end"}
    /\ code = "killed" => next = "end"
    /\ next = "start" => k = 1
    /\ next \in {"stat", "read"} => k \in DOMAIN Inputs[p]
    /\ next \in {"output", "fill", "persist"} => k \in DOMAIN Outputs[p]
    /\ next \in {"fill", "persist"} => Outputs[p][k] \in Files
    /\ next \notin {"start", "exit", "end"} => Metrics[p] \in Files \cup {NoPath}
    /\ next \in {"metrics", "fill metrics", "persist metrics"} => Metrics[p] \in Files
PositionInv == \A p \in Runs : PositionOK(p, step[p], at[p], exit[p])

\* A temporary file belongs to a run that is filling it or about to rename it,
\* unless that run was killed; it is complete before it is renamed.
Filling == {"fill", "fill metrics"}
Renaming == {"persist", "persist metrics"}
TempOK(file) ==
    /\ file.by \in Runs
    /\ \/ /\ step[file.by] \in Filling
          /\ file = Partial(file.by, TargetOf(file.by)[2])
       \/ /\ step[file.by] \in Renaming
          /\ file = Written(file.by, TargetOf(file.by)[2])
       \/ exit[file.by] = "killed"
TempInv == \A file \in temps : TempOK(file)

Inv == TypeOK /\ PositionInv /\ TempInv /\ WholeFilesOnly

-----------------------------------------------------------------------------
(* How a run moves.                                                         *)

Moves(p, next, k, code) ==
    /\ next \in Steps /\ k \in Nat \ {0} /\ code \in ExitCodes \cup {"none"}
    /\ PositionOK(p, next, k, code)
    /\ step' = [step EXCEPT ![p] = next]
    /\ at' = [at EXCEPT ![p] = k]
    /\ exit' = [exit EXCEPT ![p] = code]

LEMMA MovedState ==
    ASSUME TypeOK, NEW p \in Runs, NEW next, NEW k, NEW code, Moves(p, next, k, code)
    PROVE  /\ step' \in [Runs -> Steps] /\ step'[p] = next
           /\ at' \in [Runs -> Nat \ {0}] /\ at'[p] = k
           /\ exit' \in [Runs -> ExitCodes \cup {"none"}] /\ exit'[p] = code
           /\ \A q \in Runs \ {p} :
                  step'[q] = step[q] /\ at'[q] = at[q] /\ exit'[q] = exit[q]
BY DEF TypeOK, Moves

LEMMA PositionKept ==
    ASSUME TypeOK, PositionInv, NEW p \in Runs, NEW next, NEW k, NEW code,
           Moves(p, next, k, code)
    PROVE  PositionInv'
<1>1. ASSUME NEW q \in Runs  PROVE PositionOK(q, step'[q], at'[q], exit'[q])
  <2>1. CASE q = p
    BY <2>1, MovedState DEF Moves
  <2>2. CASE q # p
    BY <2>2, MovedState DEF PositionInv
  <2> QED
    BY <2>1, <2>2
<1> QED
  BY <1>1 DEF PositionInv, PositionOK

\* The temporary files of the other runs are not affected.
LEMMA OthersTemp ==
    ASSUME TypeOK, NEW p \in Runs, NEW next, NEW k, NEW code, Moves(p, next, k, code),
           NEW file, TempOK(file), file.by # p
    PROVE  TempOK(file)'
<1>1. file.by \in Runs \ {p}
  BY DEF TempOK
<1>2. step'[file.by] = step[file.by] /\ at'[file.by] = at[file.by] /\ exit'[file.by] = exit[file.by]
  BY <1>1, MovedState
<1>3. TargetOf(file.by)' = TargetOf(file.by)
  BY <1>2 DEF TargetOf
<1> QED
  BY <1>1, <1>2, <1>3 DEF TempOK, Partial, Written

LEMMA GoToMoves ==
    ASSUME TypeOK, NEW p \in Runs, NEW next \in Steps, GoTo(p, next),
           PositionOK(p, next, at[p], exit[p])
    PROVE  Moves(p, next, at[p], exit[p]) /\ seen' = seen /\ loaded' = loaded
BY DEF TypeOK, GoTo, Moves

LEMMA ExitMoves ==
    ASSUME TypeOK, NEW p \in Runs, NEW code \in ExitCodes \ {"killed"}, Exit(p, code)
    PROVE  Moves(p, "exit", at[p], code) /\ seen' = seen /\ loaded' = loaded
BY DEF TypeOK, Exit, Moves, PositionOK, Steps, ExitCodes

LEMMA NextOutputMoves ==
    ASSUME TypeOK, RunAssumption, NEW p \in Runs, NEW k \in Nat \ {0}, NextOutput(p, k),
           exit[p] = "none", Metrics[p] \in Files \cup {NoPath}
    PROVE  /\ \E next \in {"output", "metrics", "exit"}, code \in {"none", "ok"} :
                  Moves(p, next, k, code)
           /\ seen' = seen /\ loaded' = loaded
<1>1. Len(Outputs[p]) \in Nat /\ DOMAIN Outputs[p] = 1..Len(Outputs[p])
  BY DEF RunAssumption
<1>2. CASE k <= Len(Outputs[p])
  <2>0. k \in DOMAIN Outputs[p]
    BY <1>1, <1>2
  <2>1. PositionOK(p, "output", k, "none")
    BY <2>0 DEF PositionOK
  <2>2. step' = [step EXCEPT ![p] = "output"] /\ exit' = [exit EXCEPT ![p] = "none"]
    BY <1>1, <1>2 DEF NextOutput, TypeOK
  <2>3. Moves(p, "output", k, "none")
    BY <2>1, <2>2 DEF NextOutput, Moves, Steps
  <2> QED
    BY <2>3 DEF NextOutput
<1>3. CASE ~(k <= Len(Outputs[p])) /\ Metrics[p] # NoPath
  <2>1. PositionOK(p, "metrics", k, "none")
    BY <1>1, <1>3 DEF PositionOK
  <2>2. step' = [step EXCEPT ![p] = "metrics"] /\ exit' = [exit EXCEPT ![p] = "none"]
    BY <1>1, <1>3 DEF NextOutput, TypeOK
  <2>3. Moves(p, "metrics", k, "none")
    BY <2>1, <2>2 DEF NextOutput, Moves, Steps
  <2> QED
    BY <2>3 DEF NextOutput
<1>4. CASE ~(k <= Len(Outputs[p])) /\ Metrics[p] = NoPath
  <2>1. Moves(p, "exit", k, "ok")
    BY <1>1, <1>4 DEF NextOutput, Moves, PositionOK, Steps, ExitCodes, TypeOK
  <2> QED
    BY <2>1 DEF NextOutput
<1> QED
  BY <1>2, <1>3, <1>4

-----------------------------------------------------------------------------
(* What becomes of the temporary files.                                     *)

LEMMA TempsUntouched ==
    ASSUME TypeOK, PositionInv, TempInv, NEW p \in Runs, NEW next, NEW k, NEW code,
           Moves(p, next, k, code), UNCHANGED temps, step[p] # "end",
           code = "killed" \/ step[p] \notin Filling \cup Renaming
    PROVE  TempInv'
<1>1. ASSUME NEW file \in temps  PROVE TempOK(file)'
  <2>1. TempOK(file)
    BY DEF TempInv
  <2>2. CASE file.by # p
    BY <2>1, <2>2, OthersTemp
  <2>3. CASE file.by = p
    <3>1. exit[p] # "killed"
      BY DEF PositionInv, PositionOK
    <3>2. code = "killed"
      BY <2>1, <2>3, <3>1 DEF TempOK
    <3>3. exit'[p] = "killed"
      BY <3>2, MovedState
    <3> QED
      BY <2>3, <3>3 DEF TempOK
  <2> QED
    BY <2>2, <2>3
<1> QED
  BY <1>1 DEF TempInv

LEMMA TempsDropped ==
    ASSUME TypeOK, TempInv, NEW p \in Runs, NEW next, NEW k, NEW code,
           Moves(p, next, k, code), Drop(p)
    PROVE  TempInv' /\ temps' \subseteq temps
<1>1. ASSUME NEW file \in temps'  PROVE TempOK(file)'
  <2>1. file \in temps /\ file.by # p
    BY DEF Drop
  <2>2. TempOK(file)
    BY <2>1 DEF TempInv
  <2> QED
    BY <2>1, <2>2, OthersTemp
<1> QED
  BY <1>1 DEF TempInv, Drop

\* A run that is neither filling nor renaming, and not over, has none.
LEMMA NoTemp ==
    ASSUME PositionInv, TempInv, NEW p \in Runs, step[p] # "end",
           step[p] \notin Filling \cup Renaming
    PROVE  \A file \in temps : file.by # p
BY DEF PositionInv, PositionOK, TempInv, TempOK

LEMMA FileShapes ==
    ASSUME NEW p \in Runs, NEW k \in Nat
    PROVE  /\ Partial(p, k) \in Contents /\ Partial(p, k).by = p
           /\ Written(p, k) \in Contents /\ Written(p, k).by = p /\ Written(p, k).whole
           /\ Partial(p, k) # Written(p, k)
BY DEF Partial, Written, Contents

\* A step that leaves the files alone.
LEMMA Quiet ==
    ASSUME Inv, NEW p \in Runs, NEW next, NEW k, NEW code,
           Moves(p, next, k, code), UNCHANGED <<fs, temps>>, step[p] # "end",
           code = "killed" \/ step[p] \notin Filling \cup Renaming,
           PipeOK',
           seen' \in [Runs -> Nat], loaded' \in [Runs -> Nat]
    PROVE  Inv'
<1>1. PositionInv'
  BY PositionKept DEF Inv
<1>2. TempInv'
  BY TempsUntouched DEF Inv
<1>3. WholeFilesOnly'
  BY DEF Inv, WholeFilesOnly
<1>4. TypeOK'
  BY MovedState DEF Inv, TypeOK, Contents
<1> QED
  BY <1>1, <1>2, <1>3, <1>4 DEF Inv

-----------------------------------------------------------------------------
(* Each action keeps the invariant.                                         *)

LEMMA QuietExit ==
    ASSUME Inv, NEW p \in Runs, NEW code \in ExitCodes \ {"killed"}, Exit(p, code),
           UNCHANGED <<fs, temps>>, step[p] # "end",
           step[p] \notin Filling \cup Renaming, PipeOK'
    PROVE  Inv'
<1>1. Moves(p, "exit", at[p], code) /\ seen' = seen /\ loaded' = loaded
  BY ExitMoves DEF Inv
<1> QED
  BY <1>1, Quiet DEF Inv, TypeOK

LEMMA AtStep ==
    ASSUME Inv, NEW p \in Runs, step[p] \notin {"exit", "end"}
    PROVE  exit[p] = "none" /\ at[p] \in Nat \ {0} /\ PositionOK(p, step[p], at[p], "none")
BY DEF Inv, TypeOK, PositionInv, PositionOK

LEMMA QuietNext ==
    ASSUME RunAssumption, Inv, NEW p \in Runs, NEW k \in Nat \ {0}, NextOutput(p, k),
           UNCHANGED <<fs, temps>>, step[p] \in {"execute", "output"},
           PipeOK'
    PROVE  Inv'
<1>1. exit[p] = "none" /\ Metrics[p] \in Files \cup {NoPath}
  BY AtStep DEF PositionOK
<1>2. TypeOK
  BY DEF Inv
<1>3. seen' = seen /\ loaded' = loaded
  BY DEF NextOutput
<1>4. PICK next \in {"output", "metrics", "exit"}, code \in {"none", "ok"} :
          Moves(p, next, k, code)
  BY <1>1, <1>2, NextOutputMoves
<1> QED
  BY <1>2, <1>3, <1>4, Quiet DEF TypeOK, Filling, Renaming

LEMMA StartKeeps ==
    ASSUME RunAssumption, Inv, NEW p \in Runs, Start(p)
    PROVE  Inv'
<1> USE DEF Filling, Renaming
<1>0. PipeOK' /\ UNCHANGED <<fs, temps>> /\ step[p] = "start"
  BY DEF Start, Inv, TypeOK, PipeOK
<1>1. ASSUME NEW code \in ExitCodes \ {"killed"}, Exit(p, code)  PROVE Inv'
  BY <1>0, <1>1, QuietExit
<1>2. ASSUME Metrics[p] # Stdio, NEW next \in {"execute", "stat"}, GoTo(p, next),
             next = "stat" => Inputs[p] # <<>>
      PROVE  Inv'
  <2>1. Metrics[p] \in Files \cup {NoPath}
    BY <1>2 DEF RunAssumption
  <2>2. next = "stat" => at[p] \in DOMAIN Inputs[p]
    <3>1. at[p] = 1 /\ Inputs[p] \in Seq(Files \cup {Stdio})
      BY <1>0, AtStep DEF PositionOK, RunAssumption
    <3> QED
      BY <1>2, <3>1
  <2>3. PositionOK(p, next, at[p], exit[p])
    BY <1>0, <2>1, <2>2, AtStep DEF PositionOK
  <2>4. Moves(p, next, at[p], exit[p]) /\ seen' = seen /\ loaded' = loaded
    BY <1>2, <2>3, GoToMoves DEF Inv, Steps
  <2> QED
    BY <1>0, <2>4, Quiet DEF Inv, TypeOK
<1> QED
  BY <1>1, <1>2 DEF Start, ExitCodes

LEMMA StatInputKeeps ==
    ASSUME RunAssumption, Inv, NEW p \in Runs, StatInput(p)
    PROVE  Inv'
<1> USE DEF Filling, Renaming
<1>0. PipeOK' /\ UNCHANGED <<fs, temps>> /\ step[p] = "stat"
  BY DEF StatInput, Inv, TypeOK, PipeOK
<1>1. ASSUME NEW code \in ExitCodes \ {"killed"}, Exit(p, code)  PROVE Inv'
  BY <1>0, <1>1, QuietExit
<1>2. PositionOK(p, "read", at[p], exit[p]) /\ "read" \in Steps
  BY <1>0, AtStep DEF PositionOK, Steps
<1>3. CASE GoTo(p, "read")
  BY <1>0, <1>2, <1>3, GoToMoves, Quiet DEF Inv, TypeOK
<1>4. ASSUME NEW path \in Files, seen' = [seen EXCEPT ![p] = fs[path].size],
             step' = [step EXCEPT ![p] = "read"], UNCHANGED <<at, loaded, exit>>
      PROVE  Inv'
  <2>1. Moves(p, "read", at[p], exit[p])
    BY <1>2, <1>4 DEF Moves, Inv, TypeOK
  <2>2. seen' \in [Runs -> Nat]
    BY <1>4 DEF Inv, TypeOK, Contents
  <2> QED
    BY <1>0, <1>4, <2>1, <2>2, Quiet DEF Inv, TypeOK
<1> QED
  BY <1>1, <1>3, <1>4 DEF StatInput, ExitCodes

LEMMA AccountKeeps ==
    ASSUME RunAssumption, Inv, NEW p \in Runs, NEW n \in Nat, Account(p, n),
           step[p] = "read", UNCHANGED <<fs, temps, pipe>>
    PROVE  Inv'
<1> USE DEF Filling, Renaming
<1>0. PipeOK'
  BY DEF Inv, TypeOK, PipeOK
<1>l. loaded' \in [Runs -> Nat] /\ seen' = seen
  BY DEF Account, Inv, TypeOK
<1>1. CASE Return(p, "limit") /\ UNCHANGED at
  <2>1. Moves(p, "exit", at[p], "limit")
    BY <1>1 DEF Moves, PositionOK, Inv, TypeOK, Steps, ExitCodes
  <2> QED
    BY <1>0, <1>l, <2>1, Quiet DEF Inv, TypeOK
<1>2. CASE ~(Return(p, "limit") /\ UNCHANGED at)
  <2> DEFINE k == IF at[p] < Len(Inputs[p]) THEN at[p] + 1 ELSE 1
             next == IF at[p] < Len(Inputs[p]) THEN "stat" ELSE "execute"
  <2>1. at' = [at EXCEPT ![p] = k] /\ step' = [step EXCEPT ![p] = next]
        /\ UNCHANGED exit
    BY <1>2 DEF Account, Inv, TypeOK
  <2>2. exit[p] = "none" /\ at[p] \in Nat \ {0} /\ PositionOK(p, "read", at[p], "none")
    BY AtStep
  <2>3. Inputs[p] \in Seq(Files \cup {Stdio})
    BY DEF RunAssumption
  <2>4. PositionOK(p, next, k, exit[p])
    BY <2>2, <2>3 DEF PositionOK
  <2>5. Moves(p, next, k, exit[p])
    <3>1. k \in Nat \ {0} /\ next \in Steps
      BY <2>2 DEF Steps
    <3>2. exit' = [exit EXCEPT ![p] = exit[p]]
      BY <2>1 DEF Inv, TypeOK
    <3> HIDE DEF k, next
    <3> QED
      BY <2>1, <2>2, <2>4, <3>1, <3>2 DEF Moves
  <2> QED
    BY <1>0, <1>l, <2>1, <2>5, Quiet DEF Inv, TypeOK
<1> QED
  BY <1>1, <1>2

LEMMA ReadInputKeeps ==
    ASSUME RunAssumption, Inv, NEW p \in Runs, ReadInput(p)
    PROVE  Inv'
<1>0. step[p] = "read" /\ UNCHANGED <<fs, temps, pipe>> /\ PipeOK'
  BY DEF ReadInput, Inv, TypeOK, PipeOK
<1>1. CASE Exit(p, "input")
  BY <1>0, <1>1, QuietExit DEF ExitCodes, Filling, Renaming
<1>2. ASSUME NEW n \in Nat, Account(p, n)  PROVE Inv'
  BY <1>0, <1>2, AccountKeeps
<1> QED
  BY <1>1, <1>2 DEF ReadInput, RunAssumption, Inv, TypeOK, Contents

LEMMA ExecuteKeeps ==
    ASSUME RunAssumption, Inv, NEW p \in Runs, Execute(p)
    PROVE  Inv'
<1> USE DEF Filling, Renaming
<1>0. step[p] = "execute" /\ UNCHANGED <<fs, temps>> /\ PipeOK'
  BY DEF Execute, Inv, TypeOK, PipeOK
<1>1. ASSUME NEW code \in ExitCodes \ {"killed"}, Exit(p, code)  PROVE Inv'
  BY <1>0, <1>1, QuietExit
<1>2. CASE NextOutput(p, 1)
  <2>1. 1 \in Nat \ {0}
    OBVIOUS
  <2> QED
    BY <1>0, <1>2, <2>1, QuietNext
<1> QED
  BY <1>1, <1>2 DEF Execute

LEMMA WriteStdoutKeeps ==
    ASSUME RunAssumption, Inv, NEW p \in Runs, WriteStdout(p)
    PROVE  Inv'
<1> USE DEF Filling, Renaming
<1>0. step[p] = "output" /\ UNCHANGED <<fs, temps>> /\ at[p] \in Nat \ {0} /\ exit[p] = "none"
      /\ Metrics[p] \in Files \cup {NoPath}
  BY AtStep DEF WriteStdout, PositionOK
<1>1. PipeOK'
  <2>1. Written(p, at[p]) \in Contents /\ Partial(p, at[p]) \in Contents
    BY <1>0, FileShapes
  <2>2. /\ stdout \in [Runs -> Seq(Contents)] /\ out \in [Runs -> Nat]
        /\ refuses' = refuses /\ refuses \in [Runs -> BOOLEAN]
    BY DEF WriteStdout, Inv, TypeOK, PipeOK
  <2>3. \A file \in Contents :
            [stdout EXCEPT ![p] = Append(@, file)] \in [Runs -> Seq(Contents)]
    BY <2>2
  <2>4. stdout' \in [Runs -> Seq(Contents)]
    BY <2>1, <2>2, <2>3, ZenonT(30) DEF WriteStdout
  <2>5. Len(stdout[p]) \in Nat /\ Len(stdout[p]) + 1 \in Nat /\ out[p] \in Nat
    BY <2>2
  <2>6. ASSUME NEW counts \in SUBSET Nat, Passes(p, counts) PROVE out' \in [Runs -> Nat]
    BY <2>2, <2>5, <2>6 DEF Passes
  <2>7. out' \in [Runs -> Nat]
    BY <2>5, <2>6 DEF WriteStdout
  <2> QED
    BY <2>2, <2>4, <2>7 DEF PipeOK
<1>2. ASSUME NEW code \in ExitCodes \ {"killed"}, Exit(p, code)  PROVE Inv'
  BY <1>0, <1>1, <1>2, QuietExit
<1>3. CASE NextOutput(p, at[p] + 1)
  BY <1>0, <1>1, <1>3, QuietNext, SMTT(30)
<1> QED
  BY <1>2, <1>3 DEF WriteStdout, ExitCodes

LEMMA CreateTempKeeps ==
    ASSUME RunAssumption, Inv, NEW p \in Runs, CreateTemp(p)
    PROVE  Inv'
<1>0. /\ step[p] \in {"output", "metrics"} /\ exit[p] = "none" /\ at[p] \in Nat \ {0}
      /\ PositionOK(p, step[p], at[p], "none")
      /\ UNCHANGED <<fs, pipe>> /\ fs' \in [Files -> Contents]
      /\ PipeOK'
  BY AtStep DEF CreateTemp, Inv, TypeOK, PipeOK, Contents
<1>k. PICK k \in Nat : k = TargetOf(p)[2]
  BY <1>0 DEF TargetOf
<1> DEFINE next == IF k = 0 THEN "fill metrics" ELSE "fill"
<1>1. ASSUME NEW code \in ExitCodes \ {"killed"}, Exit(p, code), UNCHANGED temps
      PROVE  Inv'
  BY <1>0, <1>1, QuietExit DEF Filling, Renaming
<1>2. CASE temps' = temps \cup {Partial(p, k)} /\ GoTo(p, next)
  <2>1. k \in Nat /\ next = (IF step[p] = "metrics" THEN "fill metrics" ELSE "fill")
        /\ TargetOf(p)[1] = (IF step[p] = "metrics" THEN Metrics[p] ELSE Outputs[p][at[p]])
        /\ k = (IF step[p] = "metrics" THEN 0 ELSE at[p])
    BY <1>0, <1>k DEF TargetOf
  <2>2. PositionOK(p, next, at[p], exit[p]) /\ next \in Steps
    BY <1>0, <1>k, <2>1 DEF PositionOK, CreateTemp, Steps
  <2>3. Moves(p, next, at[p], exit[p]) /\ seen' = seen /\ loaded' = loaded
    BY <1>2, <2>2, GoToMoves DEF Inv
  <2>4. \A file \in temps : file.by # p
    BY <1>0, NoTemp DEF Inv, Filling, Renaming
  <2>5. Partial(p, k) \in Contents /\ Partial(p, k).by = p
    BY <2>1, FileShapes
  <2>6. step' \in [Runs -> Steps] /\ step'[p] = next /\ at' \in [Runs -> Nat \ {0}]
        /\ at'[p] = at[p] /\ exit' \in [Runs -> ExitCodes \cup {"none"}]
    BY <2>3, MovedState DEF Inv
  <2>7. TypeOK'
    BY <1>0, <1>2, <2>3, <2>4, <2>5, <2>6, ZenonT(30) DEF Inv, TypeOK, Contents
  <2>8. PositionInv'
    BY <2>3, PositionKept DEF Inv
  <2>9. TempInv'
    <3>1. ASSUME NEW file \in temps  PROVE TempOK(file)'
      <4>1. TempOK(file) /\ file.by # p
        BY <2>4 DEF Inv, TempInv
      <4> QED
        BY <2>3, <4>1, OthersTemp DEF Inv
    <3>2. TempOK(Partial(p, k))'
      <4>1. TargetOf(p)'[2] = k
        BY <2>1, <2>6, <1>0 DEF TargetOf
      <4> QED
        BY <2>1, <2>5, <2>6, <4>1 DEF TempOK, Filling, Partial, Written
    <3> QED
      BY <1>2, <3>1, <3>2 DEF TempInv
  <2>10. WholeFilesOnly'
    BY <1>0 DEF Inv, WholeFilesOnly
  <2> QED
    BY <2>7, <2>8, <2>9, <2>10 DEF Inv
<1> QED
  BY <1>1, <1>2, <1>k DEF CreateTemp, ExitCodes

\* The run drops its temporary file and leaves the other files alone.
LEMMA DropKeeps ==
    ASSUME Inv, NEW p \in Runs, NEW next, NEW k, NEW code, Moves(p, next, k, code), Drop(p),
           fs' \in [Files -> Contents], WholeFilesOnly',
           UNCHANGED <<pipe, seen, loaded>>
    PROVE  Inv'
<1>1. TempInv' /\ temps' \subseteq temps
  BY TempsDropped DEF Inv
<1>2. PositionInv'
  BY PositionKept DEF Inv
<1>3. TypeOK'
  BY <1>1, MovedState DEF Inv, TypeOK, PipeOK, Contents
<1> QED
  BY <1>1, <1>2, <1>3 DEF Inv

LEMMA FillTempKeeps ==
    ASSUME RunAssumption, Inv, NEW p \in Runs, FillTemp(p)
    PROVE  Inv'
<1>0. /\ step[p] \in Filling /\ exit[p] = "none" /\ at[p] \in Nat \ {0}
      /\ PositionOK(p, step[p], at[p], "none")
      /\ UNCHANGED <<fs, pipe>> /\ fs' \in [Files -> Contents]
      /\ PipeOK' /\ WholeFilesOnly'
  BY AtStep DEF FillTemp, Inv, TypeOK, PipeOK, Contents, WholeFilesOnly, Filling
<1>k. PICK k \in Nat : k = TargetOf(p)[2]
  BY <1>0 DEF TargetOf
<1> DEFINE next == IF k = 0 THEN "persist metrics" ELSE "persist"
<1>1. ASSUME NEW code \in ExitCodes \ {"killed"}, Exit(p, code), Drop(p)
      PROVE  Inv'
  <2>1. Moves(p, "exit", at[p], code) /\ seen' = seen /\ loaded' = loaded
    BY <1>1, ExitMoves DEF Inv
  <2> QED
    BY <1>0, <1>1, <2>1, DropKeeps
<1>2. CASE temps' = (temps \ {Partial(p, k)}) \cup {Written(p, k)} /\ GoTo(p, next)
  <2>1. k \in Nat /\ next = (IF step[p] = "fill metrics" THEN "persist metrics" ELSE "persist")
        /\ k = (IF step[p] = "fill metrics" THEN 0 ELSE at[p])
    BY <1>0, <1>k DEF TargetOf, Filling
  <2>2. PositionOK(p, next, at[p], exit[p]) /\ next \in Steps
    BY <1>0, <2>1 DEF PositionOK, Filling, Steps
  <2>3. Moves(p, next, at[p], exit[p]) /\ seen' = seen /\ loaded' = loaded
    BY <1>2, <2>2, GoToMoves DEF Inv
  <2>4. \A file \in temps : file.by = p => file = Partial(p, k)
    BY <1>0, <1>k DEF Inv, TempInv, TempOK, Filling, Renaming
  <2>5. Written(p, k) \in Contents /\ Written(p, k).by = p
    BY <2>1, FileShapes
  <2>6. step' \in [Runs -> Steps] /\ step'[p] = next /\ at' \in [Runs -> Nat \ {0}]
        /\ at'[p] = at[p] /\ exit' \in [Runs -> ExitCodes \cup {"none"}]
    BY <2>3, MovedState DEF Inv
  <2>7. \A file \in temps \ {Partial(p, k)} : file.by # p
    BY <2>4
  <2>8. TypeOK'
    BY <1>0, <1>2, <2>3, <2>5, <2>6, <2>7 DEF Inv, TypeOK, Contents
  <2>9. TempInv'
    <3>1. ASSUME NEW file \in temps \ {Partial(p, k)}  PROVE TempOK(file)'
      <4>1. TempOK(file) /\ file.by # p
        BY <2>7 DEF Inv, TempInv
      <4> QED
        BY <2>3, <4>1, OthersTemp DEF Inv
    <3>2. TempOK(Written(p, k))'
      <4>1. TargetOf(p)'[2] = k
        BY <2>1, <2>6, <1>0 DEF TargetOf, Filling
      <4> QED
        BY <2>1, <2>5, <2>6, <4>1 DEF TempOK, Renaming, Partial, Written
    <3> QED
      BY <1>2, <3>1, <3>2 DEF TempInv
  <2>10. PositionInv'
    BY <2>3, PositionKept DEF Inv
  <2> QED
    BY <1>0, <2>8, <2>9, <2>10 DEF Inv
<1> QED
  BY <1>1, <1>2, <1>k DEF FillTemp, ExitCodes

LEMMA PersistKeeps ==
    ASSUME RunAssumption, Inv, NEW p \in Runs, Persist(p)
    PROVE  Inv'
<1> DEFINE path == TargetOf(p)[1]
           k == TargetOf(p)[2]
<1>0. /\ step[p] \in Renaming /\ exit[p] = "none" /\ at[p] \in Nat \ {0}
      /\ PositionOK(p, step[p], at[p], "none")
      /\ Drop(p) /\ UNCHANGED pipe
  BY AtStep DEF Persist, Renaming
<1>1. fs' \in [Files -> Contents] /\ WholeFilesOnly'
  <2>1. CASE UNCHANGED fs
    BY <2>1 DEF Inv, TypeOK, WholeFilesOnly, Contents
  <2>2. ASSUME NEW file \in temps, file.by = p, fs' = [fs EXCEPT ![path] = file]
        PROVE  fs' \in [Files -> Contents] /\ WholeFilesOnly'
    <3>1. file = Written(p, k)
      BY <1>0, <2>2 DEF Inv, TempInv, TempOK, Filling, Renaming
    <3>2. file \in Contents /\ file.whole
      BY <3>1 DEF Inv, TypeOK, Written
    <3> QED
      BY <2>2, <3>2 DEF Inv, TypeOK, WholeFilesOnly
  <2> QED
    BY <2>1, <2>2 DEF Persist
<1>2. ASSUME NEW code \in ExitCodes \ {"killed"}, Exit(p, code)  PROVE Inv'
  <2>1. Moves(p, "exit", at[p], code) /\ seen' = seen /\ loaded' = loaded
    BY <1>2, ExitMoves DEF Inv
  <2> QED
    BY <1>0, <1>1, <2>1, DropKeeps
<1>3. ASSUME k # 0, NextOutput(p, k + 1)  PROVE Inv'
  <2>1. k \in Nat \ {0} /\ Metrics[p] \in Files \cup {NoPath}
    BY <1>0, <1>3 DEF TargetOf, PositionOK, Renaming
  <2>2. PICK n \in Nat \ {0} : n = k + 1
    BY <2>1
  <2>3. NextOutput(p, n)
    BY <1>3, <2>2
  <2>4. TypeOK
    BY DEF Inv
  <2>5. PICK next \in {"output", "metrics", "exit"}, code \in {"none", "ok"} :
            Moves(p, next, n, code)
    BY <1>0, <2>1, <2>3, <2>4, NextOutputMoves
  <2>6. seen' = seen /\ loaded' = loaded
    BY <2>3 DEF NextOutput
  <2> QED
    BY <1>0, <1>1, <2>5, <2>6, DropKeeps
<1> QED
  BY <1>2, <1>3 DEF Persist, ExitCodes

LEMMA ProcessExitKeeps ==
    ASSUME Inv, NEW p \in Runs, ProcessExit(p)
    PROVE  Inv'
<1>1. PipeOK'
  BY DEF ProcessExit, Inv, TypeOK, PipeOK
<1>2. exit[p] # "none" /\ exit[p] # "killed" /\ step[p] = "exit"
  BY DEF ProcessExit, Inv, PositionInv, PositionOK
<1>3. Moves(p, "end", at[p], exit[p])
  BY <1>2 DEF ProcessExit, Moves, PositionOK, Inv, TypeOK, Steps
<1> QED
  BY <1>1, <1>2, <1>3, Quiet DEF ProcessExit, Inv, TypeOK, Filling, Renaming

LEMMA KillKeeps ==
    ASSUME Inv, NEW p \in Runs, Kill(p)
    PROVE  Inv'
<1>1. PipeOK'
  BY DEF Kill, Inv, TypeOK, PipeOK
<1>2. Moves(p, "end", at[p], "killed")
  BY DEF Kill, Moves, PositionOK, Inv, TypeOK, Steps, ExitCodes
<1> QED
  BY <1>1, <1>2, Quiet DEF Kill, Inv, TypeOK

LEMMA UserContents ==
    ASSUME RunAssumption
    PROVE  \A content \in {NoFile} \cup {UserFile(n) : n \in Sizes} :
               content \in Contents /\ content.whole
<1>1. NoFile \in Contents /\ NoFile.whole
  BY DEF NoFile, Contents
<1>2. ASSUME NEW n \in Sizes
      PROVE  UserFile(n) \in Contents /\ UserFile(n).whole
  <2>1. n \in Nat
    BY DEF RunAssumption
  <2> QED
    BY <2>1 DEF UserFile, Contents
<1> QED
  BY <1>1, <1>2

LEMMA OutsideKeeps ==
    ASSUME RunAssumption, Inv, UserTouches \/ \E p \in Runs : StdoutCloses(p)
    PROVE  Inv'
<1>1. UNCHANGED <<temps, step, at, seen, loaded, exit>> /\ PipeOK'
  BY DEF UserTouches, StdoutCloses, here, Inv, TypeOK, PipeOK
<1>2. \A content \in {NoFile} \cup {UserFile(n) : n \in Sizes} :
          content \in Contents /\ content.whole
  BY UserContents
<1>3. fs' \in [Files -> Contents] /\ WholeFilesOnly'
  BY <1>2 DEF UserTouches, StdoutCloses, Inv, TypeOK, WholeFilesOnly
<1>4. TypeOK'
  BY <1>1, <1>3 DEF Inv, TypeOK, Contents
<1>5. PositionInv'
  BY <1>1 DEF Inv, PositionInv, PositionOK
<1>6. TempInv'
  BY <1>1 DEF Inv, TempInv, TempOK, TargetOf
<1> QED
  BY <1>3, <1>4, <1>5, <1>6 DEF Inv

-----------------------------------------------------------------------------
(* The theorems.                                                            *)

LEMMA InvInit ==
    ASSUME RunAssumption, Init
    PROVE  Inv
<1>1. \A content \in {NoFile} \cup {UserFile(n) : n \in Sizes} :
          content \in Contents /\ content.whole
  BY UserContents
<1>2. <<>> \in Seq(Contents)
  OBVIOUS
<1>3. fs \in [Files -> Contents] /\ WholeFilesOnly
  BY <1>1 DEF Init, WholeFilesOnly
<1>4. TypeOK
  BY <1>2, <1>3 DEF Init, TypeOK, PipeOK, Steps
<1>5. PositionInv /\ TempInv
  BY DEF Init, PositionInv, PositionOK, TempInv
<1> QED
  BY <1>3, <1>4, <1>5 DEF Inv

LEMMA InvNext ==
    ASSUME RunAssumption, Inv, [Next]_vars
    PROVE  Inv'
<1>1. ASSUME NEW p \in Runs, RunStep(p)  PROVE Inv'
  BY <1>1, StartKeeps, StatInputKeeps, ReadInputKeeps, ExecuteKeeps, WriteStdoutKeeps,
     CreateTempKeeps, FillTempKeeps, PersistKeeps, ProcessExitKeeps, KillKeeps DEF RunStep
<1>2. CASE UserTouches \/ \E p \in Runs : StdoutCloses(p)
  BY <1>2, OutsideKeeps
<1>3. CASE UNCHANGED vars
  BY <1>3 DEF vars, here, Inv, TypeOK, PipeOK, PositionInv, PositionOK, TempInv, TempOK, TargetOf,
              WholeFilesOnly, Contents
<1> QED
  BY <1>1, <1>2, <1>3 DEF Next

\* The invariant holds of every behaviour: write_outputs_with_stats and its
\* helpers keep track of each temporary file until it is renamed or dropped.
THEOREM Invariance == Spec => []Inv
<1>1. Init => Inv
  BY RunAssumption, InvInit
<1>2. Inv /\ [Next]_vars => Inv'
  BY RunAssumption, InvNext
<1> QED
  BY <1>1, <1>2, PTL DEF Spec

\* The state keeps its type, and no run ever has two temporary files.
THEOREM TypeCorrect == Spec => []TypeOK
<1>1. Inv => TypeOK
  BY DEF Inv
<1> QED
  BY <1>1, Invariance, PTL

\* Nothing half written ever stands at a path: persist_output_file renames a
\* complete file or nothing.
THEOREM OnlyWholeFiles == Spec => []WholeFilesOnly
<1>1. Inv => WholeFilesOnly
  BY DEF Inv
<1> QED
  BY <1>1, Invariance, PTL

\* Every return path of write_outputs_with_stats drops its temporary file.
THEOREM NoTempsLeft == Spec => []TempsCleaned
<1>1. Inv => TempsCleaned
  BY DEF Inv, PositionInv, PositionOK, TempInv, TempOK, Filling, Renaming, TempsCleaned
<1> QED
  BY <1>1, Invariance, PTL

\* Without --force no run replaces a file, not even one that appeared between
\* the path.exists() check and the rename, and it writes to its own targets only.
THEOREM NothingClobbered == Spec => NoClobber
<1> DEFINE A == \A p \in Runs : step'[p] # step[p] => \A f \in Files :
                    fs'[f] # fs[f] =>
                        /\ Forced[p] \/ ~Exists(f)
                        /\ f = Metrics[p] \/ \E k \in DOMAIN Outputs[p] : Outputs[p][k] = f
<1>1. ASSUME Inv, [Next]_vars  PROVE A \/ UNCHANGED vars
  <2> SUFFICES ASSUME NEW p \in Runs, step'[p] # step[p],
                      NEW f \in Files, fs'[f] # fs[f]
               PROVE  /\ Forced[p] \/ ~Exists(f)
                      /\ f = Metrics[p] \/ \E k \in DOMAIN Outputs[p] : Outputs[p][k] = f
    OBVIOUS
  <2>1. PICK q \in Runs : RunStep(q)
    BY <1>1 DEF Next, UserTouches, StdoutCloses, vars, here
  <2>2. Persist(q)
    BY <2>1 DEF RunStep, Start, StatInput, ReadInput, Execute, WriteStdout, CreateTemp,
                FillTemp, ProcessExit, Kill
  <2>3. q = p
    BY <1>1, <2>2 DEF Persist, Exit, NextOutput, Inv, TypeOK
  <2>4. f = TargetOf(p)[1] /\ MayRename(p, f)
    BY <1>1, <2>2, <2>3 DEF Persist, Inv, TypeOK
  <2>5. step[p] \in {"persist", "persist metrics"} /\ PositionOK(p, step[p], at[p], "none")
    BY <1>1, <2>2, <2>3, AtStep DEF Persist
  <2> QED
    BY <2>4, <2>5 DEF TargetOf, MayRename, PositionOK
<1> QED
  BY <1>1, Invariance, PTL DEF Spec, NoClobber

-----------------------------------------------------------------------------
(* The input budget.                                                        *)

\* While inputs are read, those before the current one were within the limit
\* each; only a run that is over has loaded more.
Refused == {"limit", "killed"}
BudgetOK(p, next, k, bytes, code) ==
    /\ code \notin Refused => bytes <= MaxTotal /\ bytes <= MaxInput * Len(Inputs[p])
    /\ next = "start" => bytes = 0
    /\ next \in {"stat", "read"} => bytes <= MaxInput * (k - 1)
BudgetInv == \A p \in Runs : BudgetOK(p, step[p], at[p], loaded[p], exit[p])

\* What the provers need to know of products.
LEMMA TimesMonotone ==
    ASSUME NEW m \in Nat, NEW k \in Nat, NEW l \in Nat, k <= l
    PROVE  m * k \in Nat /\ m * k <= m * l /\ m * (k + 1) = m * k + m
<1>1. PICK d \in Nat : l = k + d
  <2>1. l - k \in Nat /\ l = k + (l - k)
    OBVIOUS
  <2> QED
    BY <2>1
<1>2. m * (k + d) = m * k + m * d /\ m * d \in Nat /\ m * k \in Nat
  OBVIOUS
<1>3. m * (k + 1) = m * k + m
  OBVIOUS
<1> QED
  BY <1>1, <1>2, <1>3

\* A step of p that ends nowhere before the execution leaves the budget alone.
LEMMA BudgetLater ==
    ASSUME Inv, BudgetInv, NEW p \in Runs, UNCHANGED loaded,
           NEW next \in Steps \ {"start", "stat", "read"}, step' = [step EXCEPT ![p] = next],
           exit[p] \notin Refused \/ exit'[p] \in Refused,
           \A q \in Runs \ {p} : at'[q] = at[q] /\ exit'[q] = exit[q]
    PROVE  BudgetInv'
<1>1. ASSUME NEW q \in Runs PROVE BudgetOK(q, step'[q], at'[q], loaded'[q], exit'[q])
  <2>1. CASE q = p
    BY <2>1 DEF Inv, TypeOK, BudgetInv, BudgetOK
  <2>2. CASE q # p
    BY <2>2 DEF Inv, TypeOK, BudgetInv
  <2> QED
    BY <2>1, <2>2
<1> QED
  BY <1>1 DEF BudgetInv, BudgetOK

\* A step of p to a position whose budget is right.
LEMMA BudgetOf ==
    ASSUME Inv, BudgetInv, NEW p \in Runs, NEW next, NEW k, NEW bytes, NEW code,
           BudgetOK(p, next, k, bytes, code), step' = [step EXCEPT ![p] = next],
           at' = [at EXCEPT ![p] = k], loaded' = [loaded EXCEPT ![p] = bytes],
           exit' = [exit EXCEPT ![p] = code]
    PROVE  BudgetInv'
<1>1. ASSUME NEW q \in Runs PROVE BudgetOK(q, step'[q], at'[q], loaded'[q], exit'[q])
  <2>1. CASE q = p
    BY <2>1 DEF Inv, TypeOK
  <2>2. CASE q # p
    BY <2>2 DEF Inv, TypeOK, BudgetInv
  <2> QED
    BY <2>1, <2>2
<1> QED
  BY <1>1 DEF BudgetInv, BudgetOK

LEMMA BudgetHere ==
    ASSUME Inv, BudgetInv, NEW p \in Runs, NEW next,
           BudgetOK(p, next, at[p], loaded[p], exit[p]),
           step' = [step EXCEPT ![p] = next], UNCHANGED <<at, loaded, exit>>
    PROVE  BudgetInv'
<1>1. PICK k, bytes, code : k = at[p] /\ bytes = loaded[p] /\ code = exit[p]
  OBVIOUS
<1>2. /\ at' = [at EXCEPT ![p] = k] /\ loaded' = [loaded EXCEPT ![p] = bytes]
      /\ exit' = [exit EXCEPT ![p] = code]
  BY <1>1 DEF Inv, TypeOK
<1>3. BudgetOK(p, next, k, bytes, code)
  BY <1>1
<1> QED
  BY <1>2, <1>3, BudgetOf

LEMMA ExitSteps ==
    ASSUME Inv, BudgetInv, NEW p \in Runs, NEW code, Exit(p, code), exit[p] = "none"
    PROVE  BudgetInv'
BY BudgetLater DEF Exit, Steps, Inv, TypeOK, Refused

LEMMA NextOutputSteps ==
    ASSUME Inv, BudgetInv, NEW p \in Runs, NEW k, NextOutput(p, k), exit[p] = "none"
    PROVE  BudgetInv'
<1>1. PICK next \in {"output", "metrics", "exit"} : step' = [step EXCEPT ![p] = next]
  BY DEF NextOutput
<1>2. next \in Steps \ {"start", "stat", "read"} /\ UNCHANGED loaded
      /\ \A q \in Runs \ {p} : at'[q] = at[q] /\ exit'[q] = exit[q]
  BY DEF NextOutput, Steps, Inv, TypeOK
<1> QED
  BY <1>1, <1>2, BudgetLater DEF Refused

LEMMA GoToSteps ==
    ASSUME Inv, BudgetInv, NEW p \in Runs, NEW next \in Steps \ {"start", "stat", "read"},
           GoTo(p, next)
    PROVE  BudgetInv'
BY BudgetLater DEF GoTo

\* An input within the limit uses up what its position allows.
LEMMA AccountSteps ==
    ASSUME RunAssumption, Inv, BudgetInv, NEW p \in Runs, NEW n \in Nat, Account(p, n),
           step[p] = "read"
    PROVE  BudgetInv'
<1>1. CASE Return(p, "limit") /\ UNCHANGED at
  <2>1. PICK k, bytes : k = at[p] /\ bytes = loaded[p] + n
    OBVIOUS
  <2>2. at' = [at EXCEPT ![p] = k] /\ loaded' = [loaded EXCEPT ![p] = bytes]
    BY <1>1, <2>1 DEF Account, Inv, TypeOK
  <2>3. BudgetOK(p, "exit", k, bytes, "limit")
    BY DEF BudgetOK, Refused
  <2> QED
    BY <1>1, <2>2, <2>3, BudgetOf
<1>2. CASE ~ (Return(p, "limit") /\ UNCHANGED at)
  <2> DEFINE length == Len(Inputs[p])
             k == IF at[p] < length THEN at[p] + 1 ELSE 1
             next == IF at[p] < length THEN "stat" ELSE "execute"
             bytes == loaded[p] + n
  <2>1. /\ at' = [at EXCEPT ![p] = k] /\ step' = [step EXCEPT ![p] = next]
        /\ loaded' = [loaded EXCEPT ![p] = bytes]
        /\ exit' = [exit EXCEPT ![p] = "none"]
        /\ n <= MaxInput /\ bytes <= MaxTotal
    BY <1>2, AtStep DEF Account, Inv, TypeOK
  <2>2. /\ loaded[p] \in Nat /\ at[p] \in Nat \ {0} /\ length \in Nat /\ at[p] <= length
        /\ MaxInput \in Nat /\ loaded[p] <= MaxInput * (at[p] - 1)
    <3>1. PositionOK(p, "read", at[p], "none") /\ Inputs[p] \in Seq(Files \cup {Stdio})
      BY AtStep DEF RunAssumption
    <3>2. at[p] \in 1..length /\ length \in Nat
      BY <3>1 DEF PositionOK
    <3> QED
      BY <3>2 DEF BudgetInv, BudgetOK, RunAssumption, Inv, TypeOK
  <2>3. PICK j \in Nat : at[p] = j + 1 /\ j + 1 <= length
    <3>1. at[p] - 1 \in Nat /\ at[p] = (at[p] - 1) + 1
      <4>1. \A i \in Nat \ {0} : i - 1 \in Nat /\ i = (i - 1) + 1
        OBVIOUS
      <4> QED
        BY <2>2, <4>1
    <3> HIDE DEF length
    <3> QED
      BY <2>2, <3>1
  <2>4. bytes <= MaxInput * (j + 1) /\ MaxInput * (j + 1) <= MaxInput * length
        /\ MaxInput * (j + 1) \in Nat /\ MaxInput * length \in Nat
    <3> HIDE DEF length
    <3>1. at[p] - 1 = j
      BY <2>3
    <3>2. loaded[p] <= MaxInput * j
      BY <2>2, <3>1
    <3>3. j + 1 \in Nat /\ j <= j
      OBVIOUS
    <3>4. MaxInput * (j + 1) = MaxInput * j + MaxInput /\ MaxInput * j \in Nat
      BY <2>2, <3>3, TimesMonotone
    <3>5. MaxInput * (j + 1) <= MaxInput * length /\ MaxInput * (j + 1) \in Nat
      BY <2>2, <2>3, <3>3, TimesMonotone
    <3>6. MaxInput * length \in Nat
      BY <2>2, TimesMonotone
    <3>7. bytes <= MaxInput * j + MaxInput
      <4> HIDE DEF bytes
      <4>1. bytes = loaded[p] + n
        BY DEF bytes
      <4> QED
        BY <2>1, <2>2, <3>2, <3>4, <4>1
    <3> QED
      BY <3>4, <3>5, <3>6, <3>7
  <2>5. BudgetOK(p, next, k, bytes, "none")
    <3>1. bytes <= MaxInput * length
      <4>1. bytes \in Nat
        BY <2>2
      <4> HIDE DEF length, bytes
      <4> QED
        BY <2>4, <4>1
    <3>2. next = "stat" => k - 1 = j + 1
      BY <2>3
    <3>3. next = "stat" => bytes <= MaxInput * (k - 1)
      BY <2>4, <3>2
    <3> QED
      BY <2>1, <3>1, <3>3 DEF BudgetOK
  <2> HIDE DEF k, next, bytes
  <2> QED
    BY <2>1, <2>5, BudgetOf
<1> QED
  BY <1>1, <1>2

\* Start, fs::metadata and fs::read.
LEMMA LoadingSteps ==
    ASSUME RunAssumption, Inv, BudgetInv, NEW p \in Runs,
           Start(p) \/ StatInput(p) \/ ReadInput(p)
    PROVE  BudgetInv'
<1>0. exit[p] = "none"
  BY AtStep DEF Start, StatInput, ReadInput
<1>1. ASSUME NEW code, Exit(p, code) PROVE BudgetInv'
  BY <1>0, <1>1, ExitSteps
<1>2. CASE Start(p)
  <2>1. CASE GoTo(p, "execute")
    BY <2>1, GoToSteps DEF Steps
  <2>2. CASE GoTo(p, "stat")
    <3>1. loaded[p] = 0 /\ at[p] = 1 /\ BudgetOK(p, "start", at[p], loaded[p], exit[p])
      BY <1>2, AtStep DEF Start, BudgetInv, BudgetOK, PositionOK
    <3>2. MaxInput \in Nat /\ MaxInput * (1 - 1) = 0
      BY DEF RunAssumption
    <3>3. BudgetOK(p, "stat", at[p], loaded[p], exit[p])
      BY <3>1, <3>2 DEF BudgetOK
    <3> QED
      BY <2>2, <3>3, BudgetHere DEF GoTo
  <2> QED
    BY <1>1, <1>2, <2>1, <2>2 DEF Start, ExitCodes
<1>3. CASE StatInput(p)
  <2>1. BudgetOK(p, "read", at[p], loaded[p], exit[p])
    BY <1>3 DEF StatInput, BudgetInv, BudgetOK
  <2>2. CASE step' = [step EXCEPT ![p] = "read"] /\ UNCHANGED <<at, loaded, exit>>
    BY <2>1, <2>2, BudgetHere
  <2>3. \/ \E code \in ExitCodes : Exit(p, code)
        \/ step' = [step EXCEPT ![p] = "read"] /\ UNCHANGED <<at, loaded, exit>>
    BY <1>3 DEF StatInput, GoTo, ExitCodes
  <2> QED
    BY <1>1, <2>2, <2>3
<1>4. CASE ReadInput(p)
  <2>1. ASSUME NEW n \in Nat, Account(p, n) PROVE BudgetInv'
    BY <1>4, <2>1, AccountSteps DEF ReadInput
  <2> QED
    BY <1>1, <1>4, <2>1 DEF ReadInput, RunAssumption, Inv, TypeOK, Contents
<1> QED
  BY <1>2, <1>3, <1>4

LEMMA BudgetInit ==
    ASSUME RunAssumption, Init
    PROVE  BudgetInv
<1> SUFFICES ASSUME NEW p \in Runs PROVE 0 <= MaxInput * Len(Inputs[p]) /\ 0 <= MaxTotal
  BY DEF Init, BudgetInv, BudgetOK
<1>1. MaxInput \in Nat /\ MaxTotal \in Nat /\ Len(Inputs[p]) \in Nat
  BY DEF RunAssumption
<1>2. MaxInput * Len(Inputs[p]) \in Nat
  BY <1>1, TimesMonotone
<1> QED
  BY <1>1, <1>2

LEMMA BudgetNext ==
    ASSUME RunAssumption, Inv, BudgetInv, [Next]_vars
    PROVE  BudgetInv'
<1>1. ASSUME NEW p \in Runs, RunStep(p) PROVE BudgetInv'
  <2>1. ASSUME NEW code, Exit(p, code), exit[p] = "none" PROVE BudgetInv'
    BY <2>1, ExitSteps
  <2>2. ASSUME NEW k, NextOutput(p, k), exit[p] = "none" PROVE BudgetInv'
    BY <2>2, NextOutputSteps
  <2>3. ASSUME NEW next \in {"fill", "fill metrics", "persist", "persist metrics"}, GoTo(p, next)
        PROVE  BudgetInv'
    BY <2>3, GoToSteps DEF Steps
  <2>4. CASE Start(p) \/ StatInput(p) \/ ReadInput(p)
    BY <2>4, LoadingSteps
  <2>5. CASE Execute(p) \/ WriteStdout(p) \/ CreateTemp(p)
    <3>1. exit[p] = "none"
      BY <2>5, AtStep DEF Execute, WriteStdout, CreateTemp
    <3> QED
      BY <2>1, <2>2, <2>3, <2>5, <3>1 DEF Execute, WriteStdout, CreateTemp
  <2>6. CASE FillTemp(p) \/ Persist(p)
    <3>1. exit[p] = "none"
      BY <2>6, AtStep DEF FillTemp, Persist
    <3> QED
      BY <2>1, <2>2, <2>3, <2>6, <3>1 DEF FillTemp, Persist
  <2>7. CASE ProcessExit(p) \/ Kill(p)
    <3>1. step' = [step EXCEPT ![p] = "end"] /\ UNCHANGED <<at, loaded>>
      BY <2>7 DEF ProcessExit, Kill
    <3>2. "end" \in Steps \ {"start", "stat", "read"}
      BY DEF Steps
    <3>3. /\ exit'[p] \in {exit[p], "killed"}
          /\ \A q \in Runs \ {p} : at'[q] = at[q] /\ exit'[q] = exit[q]
      BY <2>7 DEF ProcessExit, Kill, Inv, TypeOK
    <3> QED
      BY <3>1, <3>2, <3>3, BudgetLater DEF Refused
  <2> QED
    BY <1>1, <2>4, <2>5, <2>6, <2>7 DEF RunStep
<1>2. CASE UserTouches \/ (\E p \in Runs : StdoutCloses(p)) \/ UNCHANGED vars
  BY <1>2 DEF UserTouches, StdoutCloses, vars, here, BudgetInv, BudgetOK
<1> QED
  BY <1>1, <1>2 DEF Next

\* enforce_cli_input_limits: a run goes on only with inputs within the total
\* limit and the limit per input, although files grow between fs::metadata and
\* fs::read; a file that has grown is loaded whole, and the run that has loaded
\* it is refused with the limit's exit code, unless it is killed first.
THEOREM InputBudget == Spec => []InputsBounded
<1>1. Init => BudgetInv
  BY RunAssumption, BudgetInit
<1>2. Inv /\ BudgetInv /\ [Next]_vars => BudgetInv'
  BY RunAssumption, BudgetNext
<1>3. BudgetInv => InputsBounded
  BY DEF BudgetInv, BudgetOK, InputsBounded, Refused
<1> QED
  BY <1>1, <1>2, <1>3, Invariance, PTL DEF Spec

-----------------------------------------------------------------------------
(* What has been delivered.                                                 *)

\* How many outputs a run at this step has delivered.
DeliveredSoFar(p, next, k) ==
    IF next \in {"start", "stat", "read", "execute"} THEN 0
    ELSE IF next \in {"output", "fill", "persist"} THEN k - 1
    ELSE Len(Outputs[p])
InPlace(path, file) == path \in Files /\ ~Contended(path) => fs[path] = file
StdoutOK(p, n) ==
    /\ \A i \in DOMAIN stdout[p] : stdout[p][i].whole
    /\ {k \in 1..n : Outputs[p][k] = Stdio} = {stdout[p][i].part : i \in DOMAIN stdout[p]}
    /\ \A i, j \in DOMAIN stdout[p] : i < j => stdout[p][i].part < stdout[p][j].part
DeliveryOK(p, n) ==
    /\ n \in 0..Len(Outputs[p])
    /\ \A k \in 1..n : InPlace(Outputs[p][k], Written(p, k))
    /\ StdoutOK(p, n)

\* A run that has not failed has delivered what comes before its position.
RunDelivers(p) ==
    exit[p] \in {"none", "ok"} =>
        /\ DeliveryOK(p, DeliveredSoFar(p, step[p], at[p]))
        /\ exit[p] = "ok" =>
               InPlace(Metrics[p], Written(p, 0)) /\ Metrics[p] \in Files \cup {NoPath}
DeliveryInv == user \in Nat /\ \A p \in Runs : RunDelivers(p)

LEMMA OutputPaths ==
    ASSUME RunAssumption, NEW p \in Runs
    PROVE  /\ Len(Outputs[p]) \in Nat /\ DOMAIN Outputs[p] = 1..Len(Outputs[p])
           /\ \A k \in 1..Len(Outputs[p]) : Targets(p)[k] = Outputs[p][k] /\ k \in DOMAIN Targets(p)
           /\ Targets(p)[Len(Outputs[p]) + 1] = Metrics[p]
           /\ Len(Outputs[p]) + 1 \in DOMAIN Targets(p)
BY DEF RunAssumption, Targets

\* What is in place stays there while nothing else writes to its path.
LEMMA InPlaceStays ==
    ASSUME NEW path, NEW file, InPlace(path, file), UNCHANGED user,
           path \in Files /\ ~Contended(path) => fs'[path] = fs[path]
    PROVE  InPlace(path, file)'
BY DEF InPlace, Contended

LEMMA DeliveryStays ==
    ASSUME NEW p \in Runs, NEW n, DeliveryOK(p, n), UNCHANGED user, stdout'[p] = stdout[p],
           \A k \in 1..n : Outputs[p][k] \in Files /\ ~Contended(Outputs[p][k]) =>
                                fs'[Outputs[p][k]] = fs[Outputs[p][k]]
    PROVE  DeliveryOK(p, n)'
<1>1. ASSUME NEW k \in 1..n PROVE InPlace(Outputs[p][k], Written(p, k))'
  BY InPlaceStays DEF DeliveryOK
<1>2. StdoutOK(p, n)'
  BY DEF DeliveryOK, StdoutOK
<1> QED
  BY <1>1, <1>2 DEF DeliveryOK, Written

\* p moves: what another run has delivered stays.
LEMMA OthersDeliver ==
    ASSUME RunAssumption, Inv, DeliveryInv, NEW p \in Runs, UNCHANGED user,
           \/ UNCHANGED fs
           \/ \E i \in DOMAIN Targets(p), file \in temps : fs' = [fs EXCEPT ![Targets(p)[i]] = file],
           NEW q \in Runs \ {p}, stdout'[q] = stdout[q],
           step'[q] = step[q], at'[q] = at[q], exit'[q] = exit[q]
    PROVE  RunDelivers(q)'
<1> SUFFICES ASSUME exit[q] \in {"none", "ok"} PROVE RunDelivers(q)'
  BY DEF RunDelivers
<1> DEFINE n == DeliveredSoFar(q, step[q], at[q])
<1>1. /\ DeliveryOK(q, n)
      /\ exit[q] = "ok" => InPlace(Metrics[q], Written(q, 0)) /\ Metrics[q] \in Files \cup {NoPath}
  BY DEF DeliveryInv, RunDelivers
<1>2. ASSUME NEW j \in DOMAIN Targets(q), Targets(q)[j] \in Files, ~Contended(Targets(q)[j])
      PROVE  fs'[Targets(q)[j]] = fs[Targets(q)[j]]
  <2>1. CASE UNCHANGED fs
    BY <2>1
  <2>2. ASSUME NEW i \in DOMAIN Targets(p), NEW file \in temps,
               fs' = [fs EXCEPT ![Targets(p)[i]] = file]
        PROVE  fs'[Targets(q)[j]] = fs[Targets(q)[j]]
    <3>1. <<q, j>> # <<p, i>> /\ Targets(q)[j] # Targets(p)[i]
      BY <1>2 DEF Contended
    <3> QED
      BY <1>2, <2>2, <3>1 DEF Inv, TypeOK
  <2> QED
    BY <2>1, <2>2
<1>3. DeliveryOK(q, n)'
  <2>1. \A k \in 1..n : k \in 1..Len(Outputs[q])
    BY <1>1, OutputPaths DEF DeliveryOK
  <2>2. \A k \in 1..n : Outputs[q][k] \in Files /\ ~Contended(Outputs[q][k]) =>
                             fs'[Outputs[q][k]] = fs[Outputs[q][k]]
    <3> TAKE k \in 1..n
    <3>1. k \in DOMAIN Targets(q) /\ Targets(q)[k] = Outputs[q][k]
      BY <2>1, OutputPaths
    <3> QED
      BY <1>2, <3>1
  <2> HIDE DEF n
  <2>3. PICK m : m = n
    OBVIOUS
  <2>4. DeliveryOK(q, m)'
    BY <1>1, <2>2, <2>3, DeliveryStays
  <2>5. n' = n
    BY DEF n, DeliveredSoFar
  <2> QED
    BY <2>3, <2>4, <2>5 DEF DeliveryOK, InPlace, StdoutOK
<1>4. exit[q] = "ok" => InPlace(Metrics[q], Written(q, 0))'
  BY <1>1, <1>2, OutputPaths, InPlaceStays
<1>5. n' = DeliveredSoFar(q, step[q], at[q])' /\ Written(q, 0)' = Written(q, 0)
  BY DEF Written
<1> QED
  BY <1>1, <1>3, <1>4, <1>5 DEF RunDelivers

\* A step of p is p's alone, and the only path it may change is one of its
\* targets.
LEMMA RunStepFrame ==
    ASSUME RunAssumption, Inv, NEW p \in Runs, RunStep(p)
    PROVE  /\ UNCHANGED user
           /\ \/ UNCHANGED fs
              \/ \E i \in DOMAIN Targets(p), file \in temps :
                     fs' = [fs EXCEPT ![Targets(p)[i]] = file]
           /\ \A q \in Runs \ {p} :
                  /\ stdout'[q] = stdout[q] /\ out'[q] = out[q] /\ refuses'[q] = refuses[q]
                  /\ step'[q] = step[q] /\ at'[q] = at[q] /\ exit'[q] = exit[q]
<1> DEFINE Frame == \A q \in Runs \ {p} :
                        /\ stdout'[q] = stdout[q] /\ out'[q] = out[q] /\ refuses'[q] = refuses[q]
                        /\ step'[q] = step[q] /\ at'[q] = at[q] /\ exit'[q] = exit[q]
<1>1. /\ step \in [Runs -> Steps] /\ at \in [Runs -> Nat \ {0}]
      /\ exit \in [Runs -> ExitCodes \cup {"none"}] /\ stdout \in [Runs -> Seq(Contents)]
      /\ out \in [Runs -> Nat]
  BY DEF Inv, TypeOK, PipeOK
<1>2. ASSUME NEW code, Exit(p, code), UNCHANGED pipe PROVE Frame
  BY <1>1, <1>2 DEF Exit
<1>3. ASSUME NEW k, NextOutput(p, k), UNCHANGED pipe PROVE Frame
  BY <1>1, <1>3 DEF NextOutput
<1>4. ASSUME NEW next, GoTo(p, next), UNCHANGED pipe PROVE Frame
  BY <1>1, <1>4 DEF GoTo
<1>5. CASE Start(p) \/ StatInput(p)
  BY <1>1, <1>2, <1>4, <1>5 DEF Start, StatInput
<1>6. CASE ReadInput(p)
  BY <1>1, <1>2, <1>6 DEF ReadInput, Account
<1>7. CASE Execute(p) \/ CreateTemp(p)
  BY <1>2, <1>3, <1>4, <1>7 DEF Execute, CreateTemp
<1>8. CASE FillTemp(p)
  BY <1>2, <1>4, <1>8 DEF FillTemp
<1>11. CASE ProcessExit(p) \/ Kill(p)
  BY <1>1, <1>11 DEF ProcessExit, Kill
<1>9. CASE WriteStdout(p)
  <2>1. \A q \in Runs \ {p} : stdout'[q] = stdout[q] /\ out'[q] = out[q] /\ refuses'[q] = refuses[q]
    BY <1>1, <1>9 DEF WriteStdout, Passes
  <2>2. \A q \in Runs \ {p} : step'[q] = step[q] /\ at'[q] = at[q] /\ exit'[q] = exit[q]
    BY <1>1, <1>9 DEF WriteStdout, Exit, NextOutput
  <2> QED
    BY <1>9, <2>1, <2>2 DEF WriteStdout
<1>10. CASE Persist(p)
  <2>1. Frame /\ UNCHANGED user
    BY <1>2, <1>3, <1>10 DEF Persist
  <2>2. PICK path : path = TargetOf(p)[1]
    OBVIOUS
  <2>3. \E i \in DOMAIN Targets(p) : Targets(p)[i] = path
    <3>1. PositionOK(p, step[p], at[p], "none") /\ step[p] \in {"persist", "persist metrics"}
      BY <1>10, AtStep DEF Persist
    <3>2. CASE step[p] = "persist"
      BY <2>2, <3>1, <3>2, OutputPaths DEF PositionOK, TargetOf
    <3>3. CASE step[p] = "persist metrics"
      BY <2>2, <3>3, OutputPaths DEF TargetOf
    <3> QED
      BY <3>1, <3>2, <3>3
  <2>4. \/ UNCHANGED fs
        \/ \E file \in temps : fs' = [fs EXCEPT ![path] = file]
    BY <1>10, <2>2 DEF Persist
  <2> QED
    BY <2>1, <2>3, <2>4
<1> QED
  BY <1>5, <1>6, <1>7, <1>8, <1>9, <1>10, <1>11
     DEF RunStep, Start, StatInput, ReadInput, Execute, CreateTemp, FillTemp, ProcessExit, Kill

LEMMA ExitDelivers ==
    ASSUME Inv, NEW p \in Runs, NEW code \in ExitCodes \ {"ok"}, Exit(p, code)
    PROVE  RunDelivers(p)'
BY DEF Inv, TypeOK, Exit, ExitCodes, RunDelivers

\* A step that delivers nothing and counts nothing.
LEMMA QuietDelivers ==
    ASSUME Inv, DeliveryInv, NEW p \in Runs, UNCHANGED <<fs, stdout, user>>,
           exit[p] = "none", exit'[p] = "none",
           DeliveredSoFar(p, step[p], at[p])' = DeliveredSoFar(p, step[p], at[p])
    PROVE  RunDelivers(p)'
<1>1. PICK n : n = DeliveredSoFar(p, step[p], at[p])
  OBVIOUS
<1>2. DeliveryOK(p, n)
  BY <1>1 DEF DeliveryInv, RunDelivers
<1>3. DeliveryOK(p, n)'
  BY <1>2, DeliveryStays
<1> QED
  BY <1>1, <1>3 DEF RunDelivers, DeliveryOK, StdoutOK, InPlace

\* Going on to output k when those before it have been delivered.
LEMMA NextDelivers ==
    ASSUME RunAssumption, Inv, NEW p \in Runs, NEW k \in 1..(Len(Outputs[p]) + 1),
           NextOutput(p, k), exit[p] = "none", Metrics[p] \in Files \cup {NoPath},
           NEW n, n = k - 1, DeliveryOK(p, n)'
    PROVE  RunDelivers(p)'
<1>1. Len(Outputs[p]) \in Nat
  BY OutputPaths
<1>2. at'[p] = k
  BY DEF NextOutput, Inv, TypeOK
<1>3. CASE k <= Len(Outputs[p])
  <2>1. step'[p] = "output" /\ exit'[p] = "none"
    BY <1>1, <1>3 DEF NextOutput, Inv, TypeOK
  <2>2. DeliveredSoFar(p, step[p], at[p])' = n
    BY <1>2, <2>1 DEF DeliveredSoFar
  <2> QED
    BY <2>1, <2>2 DEF RunDelivers, DeliveryOK, StdoutOK, InPlace
<1>4. CASE k > Len(Outputs[p])
  <2>1. n = Len(Outputs[p])
    BY <1>1, <1>4
  <2>2. /\ step'[p] \in {"metrics", "exit"} /\ exit'[p] \in {"none", "ok"}
        /\ exit'[p] = "ok" => Metrics[p] = NoPath
    BY <1>1, <1>4 DEF NextOutput, Inv, TypeOK
  <2>3. DeliveredSoFar(p, step[p], at[p])' = n
    BY <2>1, <2>2 DEF DeliveredSoFar
  <2>4. exit'[p] = "ok" => InPlace(Metrics[p], Written(p, 0))'
    BY <2>2 DEF InPlace, RunAssumption
  <2> QED
    BY <2>2, <2>3, <2>4 DEF RunDelivers, DeliveryOK, StdoutOK, InPlace
<1> QED
  BY <1>1, <1>3, <1>4

\* A run at output k has delivered those before it.
LEMMA DeliveredBefore ==
    ASSUME RunAssumption, Inv, DeliveryInv, NEW p \in Runs, step[p] \in {"output", "fill", "persist"}
    PROVE  /\ at[p] \in 1..Len(Outputs[p]) /\ at[p] + 1 \in 1..(Len(Outputs[p]) + 1)
           /\ exit[p] = "none" /\ Metrics[p] \in Files \cup {NoPath}
           /\ DeliveryOK(p, at[p] - 1)
<1>1. exit[p] = "none" /\ PositionOK(p, step[p], at[p], "none")
  BY AtStep
<1>2. at[p] \in 1..Len(Outputs[p]) /\ Len(Outputs[p]) \in Nat
  BY <1>1, OutputPaths DEF PositionOK
<1>3. DeliveryOK(p, DeliveredSoFar(p, step[p], at[p]))
  BY <1>1 DEF DeliveryInv, RunDelivers
<1>4. DeliveredSoFar(p, step[p], at[p]) = at[p] - 1
  BY DEF DeliveredSoFar
<1>5. at[p] + 1 \in 1..(Len(Outputs[p]) + 1)
  BY <1>2
<1>6. Metrics[p] \in Files \cup {NoPath}
  BY <1>1 DEF PositionOK
<1> QED
  BY <1>1, <1>2, <1>3, <1>4, <1>5, <1>6

\* The steps up to the first output.
LEMMA LoadingDelivers ==
    ASSUME RunAssumption, Inv, DeliveryInv, NEW p \in Runs,
           Start(p) \/ StatInput(p) \/ ReadInput(p) \/ Execute(p)
    PROVE  RunDelivers(p)'
<1>0. /\ UNCHANGED <<fs, stdout, user>> /\ step[p] \in {"start", "stat", "read", "execute"}
      /\ exit[p] = "none" /\ step \in [Runs -> Steps]
      /\ exit \in [Runs -> ExitCodes \cup {"none"}]
  BY AtStep DEF Start, StatInput, ReadInput, Execute, Inv, TypeOK
<1>1. ASSUME NEW code \in ExitCodes \ {"ok"}, Exit(p, code) PROVE RunDelivers(p)'
  BY <1>1, ExitDelivers
<1>2. CASE step'[p] \in {"stat", "read", "execute"} /\ exit'[p] = "none"
  <2>1. DeliveredSoFar(p, step[p], at[p])' = DeliveredSoFar(p, step[p], at[p])
    BY <1>0, <1>2 DEF DeliveredSoFar
  <2> QED
    BY <1>0, <1>2, <2>1, QuietDelivers
<1>3. CASE Execute(p) /\ NextOutput(p, 1)
  <2>1. PICK k \in Nat \ {0} : k = 1
    OBVIOUS
  <2>2. Metrics[p] \in Files \cup {NoPath} /\ k \in 1..(Len(Outputs[p]) + 1)
    <3>1. Metrics[p] \in Files \cup {NoPath}
      BY <1>3, AtStep DEF Execute, PositionOK
    <3>2. Len(Outputs[p]) \in Nat
      BY OutputPaths
    <3> QED
      BY <2>1, <3>1, <3>2
  <2>3. DeliveryOK(p, 0)
    BY <1>0 DEF DeliveryInv, RunDelivers, DeliveredSoFar
  <2>4. DeliveryOK(p, 0)'
    BY <1>0, <2>3, DeliveryStays
  <2>5. PICK n \in Nat : n = 0 /\ n = k - 1
    BY <2>1
  <2>6. NextOutput(p, k) /\ DeliveryOK(p, n)'
    BY <1>3, <2>1, <2>4, <2>5 DEF DeliveryOK, StdoutOK, InPlace
  <2> QED
    BY <1>0, <2>2, <2>5, <2>6, NextDelivers
<1>4. CASE Start(p)
  <2>1. ASSUME NEW next \in {"execute", "stat"}, GoTo(p, next) PROVE RunDelivers(p)'
    BY <1>0, <1>2, <2>1 DEF GoTo
  <2> QED
    BY <1>1, <1>4, <2>1 DEF Start, ExitCodes
<1>5. CASE StatInput(p)
  <2>1. CASE step' = [step EXCEPT ![p] = "read"] /\ UNCHANGED exit
    BY <1>0, <1>2, <2>1
  <2> QED
    BY <1>1, <1>5, <2>1 DEF StatInput, GoTo, ExitCodes
<1>6. CASE ReadInput(p)
  <2>1. ASSUME NEW next \in {"execute", "stat"}, step' = [step EXCEPT ![p] = next], UNCHANGED exit
        PROVE  RunDelivers(p)'
    BY <1>0, <1>2, <2>1
  <2>2. ASSUME Return(p, "limit") PROVE RunDelivers(p)'
    BY <2>2 DEF Inv, TypeOK, RunDelivers
  <2> QED
    BY <1>1, <1>6, <2>1, <2>2 DEF ReadInput, Account, ExitCodes
<1>7. CASE Execute(p)
  BY <1>1, <1>3, <1>7 DEF Execute
<1> QED
  BY <1>4, <1>5, <1>6, <1>7

\* The end of the process.
LEMMA EndDelivers ==
    ASSUME Inv, DeliveryInv, NEW p \in Runs, ProcessExit(p) \/ Kill(p)
    PROVE  RunDelivers(p)'
<1>1. CASE Kill(p)
  BY <1>1 DEF Kill, Inv, TypeOK, RunDelivers
<1>2. CASE ProcessExit(p)
  <2>1. /\ UNCHANGED <<fs, stdout, user, at, exit>> /\ step[p] = "exit" /\ step'[p] = "end"
    BY <1>2 DEF ProcessExit, Inv, TypeOK
  <2>2. PICK n : n = Len(Outputs[p])
    OBVIOUS
  <2>3. DeliveredSoFar(p, step[p], at[p]) = n /\ DeliveredSoFar(p, step[p], at[p])' = n
    BY <2>1, <2>2 DEF DeliveredSoFar
  <2>4. exit[p] \in {"none", "ok"} => DeliveryOK(p, n)'
    BY <2>1, <2>3, DeliveryStays DEF DeliveryInv, RunDelivers
  <2>5. exit[p] = "ok" => InPlace(Metrics[p], Written(p, 0))' /\ Metrics[p] \in Files \cup {NoPath}
    BY <2>1, InPlaceStays DEF DeliveryInv, RunDelivers
  <2> QED
    BY <2>1, <2>3, <2>4, <2>5 DEF RunDelivers, DeliveryOK, StdoutOK, InPlace
<1> QED
  BY <1>1, <1>2

\* Creating and filling the temporary file.
LEMMA TempDelivers ==
    ASSUME RunAssumption, Inv, DeliveryInv, NEW p \in Runs, CreateTemp(p) \/ FillTemp(p)
    PROVE  RunDelivers(p)'
<1>0. /\ UNCHANGED <<fs, stdout, user>> /\ exit[p] = "none"
      /\ at[p] \in Nat \ {0} /\ step \in [Runs -> Steps]
  BY AtStep DEF CreateTemp, FillTemp, Inv, TypeOK
<1>1. ASSUME NEW code \in ExitCodes \ {"ok"}, Exit(p, code) PROVE RunDelivers(p)'
  BY <1>1, ExitDelivers
<1>2. ASSUME NEW next, GoTo(p, next),
             DeliveredSoFar(p, next, at[p]) = DeliveredSoFar(p, step[p], at[p])
      PROVE  RunDelivers(p)'
  <2>1. exit'[p] = "none" /\ step'[p] = next /\ at'[p] = at[p]
    BY <1>0, <1>2 DEF GoTo
  <2>2. DeliveredSoFar(p, step[p], at[p])' = DeliveredSoFar(p, next, at[p])
    BY <2>1 DEF DeliveredSoFar
  <2> QED
    BY <1>0, <1>2, <2>1, <2>2, QuietDelivers
<1>3. CASE CreateTemp(p)
  <2> DEFINE next == IF TargetOf(p)[2] = 0 THEN "fill metrics" ELSE "fill"
  <2>1. CASE GoTo(p, next)
    <3>1. \/ step[p] = "output" /\ next = "fill"
          \/ step[p] = "metrics" /\ next = "fill metrics"
      BY <1>0, <1>3 DEF CreateTemp, TargetOf
    <3>2. DeliveredSoFar(p, next, at[p]) = DeliveredSoFar(p, step[p], at[p])
      BY <3>1 DEF DeliveredSoFar
    <3> HIDE DEF next
    <3> QED
      BY <1>2, <2>1, <3>2
  <2> QED
    BY <1>1, <1>3, <2>1 DEF CreateTemp, ExitCodes
<1>4. CASE FillTemp(p)
  <2> DEFINE next == IF TargetOf(p)[2] = 0 THEN "persist metrics" ELSE "persist"
  <2>1. CASE GoTo(p, next)
    <3>1. \/ step[p] = "fill" /\ next = "persist"
          \/ step[p] = "fill metrics" /\ next = "persist metrics"
      BY <1>0, <1>4 DEF FillTemp, TargetOf
    <3>2. DeliveredSoFar(p, next, at[p]) = DeliveredSoFar(p, step[p], at[p])
      BY <3>1 DEF DeliveredSoFar
    <3> HIDE DEF next
    <3> QED
      BY <1>2, <2>1, <3>2
  <2> QED
    BY <1>1, <1>4, <2>1 DEF FillTemp, ExitCodes
<1> QED
  BY <1>3, <1>4

\* The next output follows what is on standard output already.
LEMMA StdoutGrows ==
    ASSUME RunAssumption, Inv, NEW p \in Runs, NEW k \in 1..Len(Outputs[p]),
           Outputs[p][k] = Stdio, NEW n, n = k - 1, StdoutOK(p, n),
           stdout' = [stdout EXCEPT ![p] = Append(@, Written(p, k))]
    PROVE  StdoutOK(p, k)'
<1>1. PICK old \in Seq(Contents) : old = stdout[p]
  BY DEF Inv, TypeOK, PipeOK
<1>2. PICK new : new = stdout'[p]
  OBVIOUS
<1>3. /\ Len(old) \in Nat /\ DOMAIN old = 1..Len(old)
      /\ DOMAIN new = 1..(Len(old) + 1) /\ new[Len(old) + 1] = Written(p, k)
      /\ \A i \in 1..Len(old) : new[i] = old[i]
  <2>1. new = Append(old, Written(p, k))
    BY <1>1, <1>2 DEF Inv, TypeOK, PipeOK
  <2>2. Written(p, k) \in Contents
    <3>1. k \in Nat
      OBVIOUS
    <3> QED
      BY <3>1, FileShapes
  <2> QED
    BY <2>1, <2>2
<1>4. Written(p, k).whole /\ Written(p, k).part = k
  BY DEF Written
<1>5. /\ \A i \in 1..Len(old) : old[i].whole
      /\ {j \in 1..n : Outputs[p][j] = Stdio} = {old[i].part : i \in 1..Len(old)}
      /\ \A i, j \in 1..Len(old) : i < j => old[i].part < old[j].part
  <2>1. DOMAIN old = 1..Len(old)
    BY <1>3
  <2>2. stdout[p] = old
    BY <1>1
  <2>3. \A i \in 1..Len(old) : old[i].whole
    BY <2>1, <2>2 DEF StdoutOK
  <2>4. {j \in 1..n : Outputs[p][j] = Stdio} = {old[i].part : i \in 1..Len(old)}
    BY <2>1, <2>2, Zenon DEF StdoutOK
  <2>5. \A i, j \in 1..Len(old) : i < j => old[i].part < old[j].part
    BY <2>1, <2>2, Zenon DEF StdoutOK
  <2> QED
    BY <2>3, <2>4, <2>5
<1>6. \A i \in 1..Len(old) : old[i].part \in 1..n
  BY <1>5
<1>7. 1..k = (1..n) \cup {k} /\ k \in Nat /\ n \in Nat /\ n < k
  BY OutputPaths, SMTT(30)
<1>8. {j \in 1..k : Outputs[p][j] = Stdio} = {j \in 1..n : Outputs[p][j] = Stdio} \cup {k}
  BY <1>7
<1>9. 1..(Len(old) + 1) = (1..Len(old)) \cup {Len(old) + 1}
  BY <1>3
<1>10. {new[i].part : i \in DOMAIN new} = {old[i].part : i \in 1..Len(old)} \cup {k}
  <2>1. \A i \in 1..Len(old) : new[i].part = old[i].part
    BY <1>3
  <2>2. new[Len(old) + 1].part = k
    BY <1>3, <1>4
  <2>3. DOMAIN new = (1..Len(old)) \cup {Len(old) + 1}
    BY <1>3, <1>9
  <2>4. ASSUME NEW i \in DOMAIN new
        PROVE  new[i].part \in {old[j].part : j \in 1..Len(old)} \cup {k}
    BY <2>1, <2>2, <2>3
  <2>5. ASSUME NEW j \in 1..Len(old) PROVE old[j].part \in {new[i].part : i \in DOMAIN new}
    BY <2>1, <2>3
  <2>6. k \in {new[i].part : i \in DOMAIN new}
    BY <2>2, <2>3
  <2> QED
    BY <2>4, <2>5, <2>6
<1>11. \A i \in DOMAIN new : new[i].whole
  BY <1>3, <1>4, <1>5, <1>9
<1>12. ASSUME NEW i \in DOMAIN new, NEW j \in DOMAIN new, i < j
       PROVE  new[i].part < new[j].part
  <2>1. i \in 1..Len(old)
    BY <1>3, <1>9, <1>12
  <2>2. CASE j \in 1..Len(old)
    BY <1>3, <1>5, <1>12, <2>1, <2>2
  <2>3. CASE j = Len(old) + 1
    <3>1. new[i].part \in 1..n /\ new[j].part = k
      BY <1>3, <1>4, <1>6, <2>1, <2>3
    <3> QED
      BY <1>7, <3>1
  <2> QED
    BY <1>3, <1>9, <2>2, <2>3
<1>13. {j \in 1..k : Outputs[p][j] = Stdio} = {new[i].part : i \in DOMAIN new}
  BY <1>5, <1>8, <1>10
<1> QED
  <2>1. /\ \A i \in DOMAIN stdout'[p] : stdout'[p][i].whole
        /\ \A i, j \in DOMAIN stdout'[p] : i < j => stdout'[p][i].part < stdout'[p][j].part
    BY <1>2, <1>11, <1>12
  <2>2. {j \in 1..k : Outputs[p][j] = Stdio} = {stdout'[p][i].part : i \in DOMAIN stdout'[p]}
    BY <1>2, <1>13
  <2> QED
    BY <2>1, <2>2 DEF StdoutOK

LEMMA StdoutDelivers ==
    ASSUME RunAssumption, Inv, DeliveryInv, NEW p \in Runs, WriteStdout(p)
    PROVE  RunDelivers(p)'
<1>0. /\ UNCHANGED <<fs, user>> /\ step[p] = "output" /\ Outputs[p][at[p]] = Stdio
      /\ at[p] \in 1..Len(Outputs[p]) /\ at[p] + 1 \in 1..(Len(Outputs[p]) + 1)
      /\ exit[p] = "none" /\ Metrics[p] \in Files \cup {NoPath}
      /\ DeliveryOK(p, at[p] - 1)
  BY DeliveredBefore DEF WriteStdout
<1>1. ASSUME NEW code \in ExitCodes \ {"ok"}, Exit(p, code) PROVE RunDelivers(p)'
  BY <1>1, ExitDelivers
<1>2. CASE stdout' = [stdout EXCEPT ![p] = Append(@, Written(p, at[p]))] /\ NextOutput(p, at[p] + 1)
  <2>1. PICK k \in 1..Len(Outputs[p]), n \in Nat, m \in Nat :
            k = at[p] /\ n = k - 1 /\ m = k + 1
    BY <1>0, SMTT(30)
  <2>2. StdoutOK(p, k)'
    <3>1. StdoutOK(p, n) /\ stdout' = [stdout EXCEPT ![p] = Append(@, Written(p, k))]
      BY <1>0, <1>2, <2>1 DEF DeliveryOK
    <3> QED
      BY <1>0, <2>1, <3>1, StdoutGrows
  <2>3. ASSUME NEW j \in 1..k PROVE InPlace(Outputs[p][j], Written(p, j))'
    <3>1. CASE j = k
      BY <1>0, <2>1, <3>1 DEF InPlace, RunAssumption
    <3>2. CASE j # k
      <4>1. j \in 1..(at[p] - 1)
        BY <2>1, <3>2, SMTT(30)
      <4>2. InPlace(Outputs[p][j], Written(p, j))
        BY <1>0, <4>1 DEF DeliveryOK
      <4> QED
        BY <1>0, <4>2, InPlaceStays DEF Written
    <3> QED
      BY <3>1, <3>2
  <2>4. DeliveryOK(p, k)'
    BY <2>2, <2>3, OutputPaths DEF DeliveryOK
  <2>5. m \in 1..(Len(Outputs[p]) + 1) /\ NextOutput(p, m) /\ k = m - 1
    BY <1>0, <1>2, <2>1
  <2> QED
    BY <1>0, <2>4, <2>5, NextDelivers
<1> QED
  BY <1>1, <1>2 DEF WriteStdout, ExitCodes

\* What Persist renames is the complete file.
LEMMA PersistedFile ==
    ASSUME RunAssumption, Inv, NEW p \in Runs, Persist(p), ~ (\E code \in ExitCodes \ {"ok"} : Exit(p, code))
    PROVE  /\ fs' = [fs EXCEPT ![TargetOf(p)[1]] = Written(p, TargetOf(p)[2])]
           /\ \/ TargetOf(p)[2] = 0 /\ Exit(p, "ok")
              \/ TargetOf(p)[2] # 0 /\ NextOutput(p, TargetOf(p)[2] + 1)
<1>1. \A file \in temps : file.by = p => file = Written(p, TargetOf(p)[2])
  <2>1. exit[p] = "none" /\ step[p] \in Renaming
    BY AtStep DEF Persist, Renaming
  <2> QED
    BY <2>1 DEF Inv, TempInv, TempOK, Filling, Renaming
<1>2. \E file \in temps : file.by = p /\ fs' = [fs EXCEPT ![TargetOf(p)[1]] = file]
  BY DEF Persist, ExitCodes
<1>3. \/ TargetOf(p)[2] = 0 /\ Exit(p, "ok")
      \/ TargetOf(p)[2] # 0 /\ NextOutput(p, TargetOf(p)[2] + 1)
  BY DEF Persist, ExitCodes
<1> QED
  BY <1>1, <1>2, <1>3

LEMMA PersistDelivers ==
    ASSUME RunAssumption, Inv, DeliveryInv, NEW p \in Runs, Persist(p)
    PROVE  RunDelivers(p)'
<1>1. ASSUME NEW code \in ExitCodes \ {"ok"}, Exit(p, code) PROVE RunDelivers(p)'
  BY <1>1, ExitDelivers
<1>2. CASE ~ (\E code \in ExitCodes \ {"ok"} : Exit(p, code)) /\ step[p] = "persist"
  <2>1. /\ at[p] \in 1..Len(Outputs[p]) /\ at[p] + 1 \in 1..(Len(Outputs[p]) + 1)
        /\ exit[p] = "none" /\ Metrics[p] \in Files \cup {NoPath}
        /\ DeliveryOK(p, at[p] - 1)
    BY <1>2, DeliveredBefore
  <2>2. PICK k \in 1..Len(Outputs[p]), n \in Nat, m \in Nat :
            k = at[p] /\ n = k - 1 /\ m = k + 1
    BY <2>1
  <2>3. TargetOf(p)[1] = Outputs[p][k] /\ TargetOf(p)[2] = k /\ k # 0
        /\ Outputs[p][k] \in Files
    <3>1. PositionOK(p, "persist", at[p], "none")
      BY <1>2, AtStep
    <3> QED
      BY <1>2, <2>2, <3>1 DEF TargetOf, PositionOK
  <2>4. /\ fs' = [fs EXCEPT ![Outputs[p][k]] = Written(p, k)] /\ NextOutput(p, m)
        /\ UNCHANGED <<stdout, user>>
    BY <1>2, <2>2, <2>3, PersistedFile DEF Persist
  <2>5. ASSUME NEW j \in 1..k PROVE InPlace(Outputs[p][j], Written(p, j))'
    <3>1. CASE j = k
      BY <2>3, <2>4, <3>1 DEF InPlace, Inv, TypeOK, Written
    <3>2. CASE j # k
      <4>1. j \in 1..(at[p] - 1) /\ j \in 1..Len(Outputs[p])
        BY <2>1, <2>2, <3>2, OutputPaths, SMTT(30)
      <4>2. InPlace(Outputs[p][j], Written(p, j))
        BY <2>1, <4>1 DEF DeliveryOK
      <4>3. Contended(Outputs[p][j]) \/ Outputs[p][j] # Outputs[p][k]
        <5>1. <<p, j>> # <<p, k>>
          BY <3>2
        <5> QED
          BY <4>1, <5>1, OutputPaths DEF Contended
      <4> QED
        BY <2>4, <4>2, <4>3, InPlaceStays DEF Written, Inv, TypeOK
    <3> QED
      BY <3>1, <3>2
  <2>6. StdoutOK(p, k)'
    <3>1. StdoutOK(p, n)
      BY <2>1, <2>2 DEF DeliveryOK
    <3>2. {j \in 1..k : Outputs[p][j] = Stdio} = {j \in 1..n : Outputs[p][j] = Stdio}
      <4>1. Outputs[p][k] # Stdio
        BY <2>3 DEF RunAssumption
      <4>2. ASSUME NEW j PROVE j \in 1..k <=> j \in 1..n \/ j = k
        BY <2>2, OutputPaths, SMTT(30)
      <4> QED
        BY <4>1, <4>2, Zenon
    <3> QED
      BY <2>4, <3>1, <3>2 DEF StdoutOK
  <2>7. DeliveryOK(p, k)'
    BY <2>5, <2>6, OutputPaths DEF DeliveryOK
  <2>8. m \in 1..(Len(Outputs[p]) + 1) /\ k = m - 1
    BY <2>1, <2>2, SMTT(30)
  <2> QED
    BY <2>1, <2>4, <2>7, <2>8, NextDelivers
<1>3. CASE ~ (\E code \in ExitCodes \ {"ok"} : Exit(p, code)) /\ step[p] = "persist metrics"
  <2>0. PICK n \in Nat : n = Len(Outputs[p])
    BY OutputPaths
  <2>1. /\ exit[p] = "none" /\ Metrics[p] \in Files
        /\ TargetOf(p)[1] = Metrics[p] /\ TargetOf(p)[2] = 0
    BY <1>3, AtStep DEF PositionOK, TargetOf
  <2>2. /\ fs' = [fs EXCEPT ![Metrics[p]] = Written(p, 0)] /\ Exit(p, "ok")
        /\ UNCHANGED <<stdout, user>>
    BY <1>3, <2>1, PersistedFile DEF Persist
  <2>3. DeliveryOK(p, n)
    BY <1>3, <2>0, <2>1 DEF DeliveryInv, RunDelivers, DeliveredSoFar
  <2>4. ASSUME NEW j \in 1..n, Outputs[p][j] \in Files, ~Contended(Outputs[p][j])
        PROVE  fs'[Outputs[p][j]] = fs[Outputs[p][j]]
    <3>1. <<p, j>> # <<p, Len(Outputs[p]) + 1>>
      BY <2>0
    <3>2. Outputs[p][j] # Metrics[p]
      BY <2>0, <2>4, <3>1, OutputPaths DEF Contended
    <3> QED
      BY <2>2, <2>4, <3>2 DEF Inv, TypeOK
  <2>5. DeliveryOK(p, n)'
    BY <2>2, <2>3, <2>4, DeliveryStays
  <2>6. step'[p] = "exit" /\ exit'[p] = "ok"
    BY <2>2 DEF Exit, Inv, TypeOK
  <2>7. DeliveredSoFar(p, step[p], at[p])' = n
    BY <2>0, <2>6 DEF DeliveredSoFar
  <2>8. InPlace(Metrics[p], Written(p, 0))'
    BY <2>1, <2>2 DEF InPlace, Inv, TypeOK, Written
  <2> QED
    BY <2>1, <2>5, <2>6, <2>7, <2>8 DEF RunDelivers, DeliveryOK, StdoutOK, InPlace
<1> QED
  BY <1>1, <1>2, <1>3 DEF Persist

LEMMA UserDelivers ==
    ASSUME DeliveryInv, UserTouches
    PROVE  DeliveryInv'
<1>1. user' \in Nat /\ user' > 0 /\ UNCHANGED <<stdout, step, at, exit>>
  BY DEF DeliveryInv, UserTouches, here
<1>2. ASSUME NEW path, NEW file PROVE InPlace(path, file)'
  BY <1>1 DEF InPlace, Contended
<1>3. ASSUME NEW p \in Runs, NEW n, DeliveryOK(p, n) PROVE DeliveryOK(p, n)'
  <2>1. StdoutOK(p, n)'
    BY <1>1, <1>3 DEF DeliveryOK, StdoutOK
  <2>2. \A k \in 1..n : InPlace(Outputs[p][k], Written(p, k))'
    BY <1>2
  <2> QED
    BY <1>3, <2>1, <2>2 DEF DeliveryOK
<1>4. ASSUME NEW p \in Runs PROVE RunDelivers(p)'
  <2>1. PICK n : n = DeliveredSoFar(p, step[p], at[p])
    OBVIOUS
  <2>2. DeliveredSoFar(p, step[p], at[p])' = n
    BY <1>1, <2>1 DEF DeliveredSoFar
  <2>3. exit[p] \in {"none", "ok"} => DeliveryOK(p, n)'
    BY <1>3, <2>1 DEF DeliveryInv, RunDelivers
  <2>4. InPlace(Metrics[p], Written(p, 0))'
    BY <1>2
  <2> QED
    BY <1>1, <2>2, <2>3, <2>4 DEF DeliveryInv, RunDelivers, DeliveryOK, StdoutOK, InPlace
<1> QED
  BY <1>1, <1>4 DEF DeliveryInv

LEMMA DeliveryInit ==
    ASSUME RunAssumption, Init
    PROVE  DeliveryInv
<1>1. ASSUME NEW p \in Runs PROVE DeliveryOK(p, 0)
  <2>1. DOMAIN stdout[p] = {} /\ 1..0 = {}
    BY DEF Init
  <2> QED
    BY <2>1, OutputPaths DEF DeliveryOK, StdoutOK
<1> QED
  BY <1>1 DEF Init, DeliveryInv, RunDelivers, DeliveredSoFar

LEMMA DeliveryNext ==
    ASSUME RunAssumption, Inv, DeliveryInv, [Next]_vars
    PROVE  DeliveryInv'
<1>1. ASSUME NEW p \in Runs, RunStep(p) PROVE DeliveryInv'
  <2>1. RunDelivers(p)'
    BY <1>1, LoadingDelivers, TempDelivers, StdoutDelivers, PersistDelivers, EndDelivers
       DEF RunStep
  <2>2. ASSUME NEW q \in Runs \ {p} PROVE RunDelivers(q)'
    BY <1>1, RunStepFrame, OthersDeliver
  <2>3. user' \in Nat
    BY <1>1, RunStepFrame DEF DeliveryInv
  <2> QED
    BY <2>1, <2>2, <2>3 DEF DeliveryInv
<1>2. CASE UserTouches
  BY <1>2, UserDelivers
<1>3. CASE (\E p \in Runs : StdoutCloses(p)) \/ UNCHANGED vars
  <2>1. UNCHANGED <<fs, stdout, step, at, exit, user>>
    BY <1>3 DEF StdoutCloses, vars, here
  <2> QED
    BY <2>1 DEF DeliveryInv, RunDelivers, DeliveredSoFar, DeliveryOK, StdoutOK,
                   InPlace, Contended, Written
<1> QED
  BY <1>1, <1>2, <1>3 DEF Next

\* process::exit has emptied the buffer of standard output as far as it could.
FlushInv ==
    \A p \in Runs : step[p] = "end" /\ exit[p] # "killed" =>
        refuses[p] \/ out[p] = Len(stdout[p])

LEMMA FlushNext ==
    ASSUME RunAssumption, Inv, FlushInv, [Next]_vars
    PROVE  FlushInv'
<1>1. ASSUME NEW p \in Runs, RunStep(p) PROVE FlushInv'
  <2>1. ASSUME NEW q \in Runs \ {p}, step'[q] = "end", exit'[q] # "killed"
        PROVE  refuses'[q] \/ out'[q] = Len(stdout'[q])
    BY <1>1, <2>1, RunStepFrame DEF FlushInv
  <2>2. CASE ProcessExit(p)
    <3>1. out'[p] = (IF refuses[p] THEN out[p] ELSE Len(stdout[p])) /\ UNCHANGED <<stdout, refuses>>
      BY <2>2 DEF ProcessExit, Inv, TypeOK, PipeOK
    <3> QED
      BY <2>1, <3>1 DEF FlushInv
  <2>3. CASE Kill(p)
    <3>1. exit'[p] = "killed"
      BY <2>3 DEF Kill, Inv, TypeOK
    <3> QED
      BY <2>1, <3>1 DEF FlushInv
  <2>4. CASE ~ProcessExit(p) /\ ~Kill(p)
    <3>1. step \in [Runs -> Steps]
      BY DEF Inv, TypeOK
    <3>2. ASSUME NEW code, Return(p, code) PROVE step'[p] # "end"
      BY <3>1, <3>2
    <3>4. ASSUME Start(p) PROVE step'[p] # "end"
      BY <3>1, <3>4 DEF Start, Exit, GoTo
    <3>5. ASSUME StatInput(p) \/ ReadInput(p) PROVE step'[p] # "end"
      BY <3>1, <3>5 DEF StatInput, ReadInput, Account, Exit, GoTo
    <3>6. ASSUME Execute(p) \/ WriteStdout(p) PROVE step'[p] # "end"
      BY <3>1, <3>6 DEF Execute, WriteStdout, NextOutput, Exit
    <3>7. ASSUME CreateTemp(p) PROVE step'[p] # "end"
      BY <3>1, <3>7 DEF CreateTemp, Exit, GoTo
    <3>8. ASSUME FillTemp(p) PROVE step'[p] # "end"
      BY <3>1, <3>8 DEF FillTemp, Exit, GoTo
    <3>9. ASSUME Persist(p) PROVE step'[p] # "end"
      BY <3>1, <3>9 DEF Persist, NextOutput, Exit
    <3> QED
      BY <1>1, <2>1, <2>4, <3>4, <3>5, <3>6, <3>7, <3>8, <3>9 DEF RunStep, FlushInv
  <2> QED
    BY <2>2, <2>3, <2>4
<1>2. ASSUME NEW p \in Runs, StdoutCloses(p) PROVE FlushInv'
  BY <1>2 DEF StdoutCloses, here, FlushInv, Inv, TypeOK, PipeOK
<1>3. CASE UserTouches \/ UNCHANGED vars
  BY <1>3 DEF UserTouches, vars, here, FlushInv
<1> QED
  BY <1>1, <1>2, <1>3 DEF Next

\* write_outputs_with_stats and process::exit: exit code 0 means that every
\* output and the metrics are where they were asked for, whole, unless the user
\* or another output took the path, and that standard output was given its
\* documents whole and in order.  They have left the process unless the
\* descriptor refuses bytes: that the code does not notice.
THEOREM SuccessMeansDelivered == Spec => []SuccessDelivers
<1>1. Init => DeliveryInv /\ FlushInv
  BY RunAssumption, DeliveryInit DEF Init, FlushInv
<1>2. Inv /\ DeliveryInv /\ FlushInv /\ [Next]_vars => DeliveryInv' /\ FlushInv'
  BY RunAssumption, DeliveryNext, FlushNext
<1>3. Inv /\ DeliveryInv /\ FlushInv => SuccessDelivers
  <2> SUFFICES ASSUME Inv, DeliveryInv, FlushInv PROVE SuccessDelivers
    OBVIOUS
  <2>1. ASSUME NEW p \in Runs, exit[p] = "ok", step[p] = "end"
        PROVE  /\ DeliveryOK(p, Len(Outputs[p])) /\ DOMAIN Outputs[p] = 1..Len(Outputs[p])
               /\ InPlace(Metrics[p], Written(p, 0)) /\ Metrics[p] \in Files \cup {NoPath}
    <3>2. DeliveredSoFar(p, step[p], at[p]) = Len(Outputs[p])
      BY <2>1 DEF DeliveredSoFar
    <3> QED
      BY RunAssumption, OutputPaths, <2>1, <3>2 DEF DeliveryInv, RunDelivers
  <2>2. ASSUME NEW p \in Runs, exit[p] = "ok", step[p] = "end"
        PROVE  /\ \A k \in DOMAIN Outputs[p] :
                      Outputs[p][k] \in Files /\ ~Contended(Outputs[p][k]) =>
                          fs[Outputs[p][k]] = Written(p, k)
               /\ Metrics[p] # NoPath /\ ~Contended(Metrics[p]) => fs[Metrics[p]] = Written(p, 0)
    BY <2>1, <2>2 DEF DeliveryOK, InPlace
  <2>3. ASSUME NEW p \in Runs, exit[p] = "ok", step[p] = "end"
        PROVE  /\ \A file \in {stdout[p][i] : i \in DOMAIN stdout[p]} : file.whole
               /\ {k \in DOMAIN Outputs[p] : Outputs[p][k] = Stdio} =
                      {stdout[p][i].part : i \in DOMAIN stdout[p]}
               /\ \A i, j \in DOMAIN stdout[p] : i < j => stdout[p][i].part < stdout[p][j].part
    <3>1. StdoutOK(p, Len(Outputs[p])) /\ DOMAIN Outputs[p] = 1..Len(Outputs[p])
      BY <2>1, <2>3 DEF DeliveryOK
    <3> QED
      BY <3>1 DEF StdoutOK
  <2> QED
    BY <2>2, <2>3 DEF SuccessDelivers, FlushInv
<1> QED
  BY <1>1, <1>2, <1>3, Invariance, PTL DEF Spec
=============================================================================
