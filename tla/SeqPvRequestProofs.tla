------------------------- MODULE SeqPvRequestProofs -------------------------
(***************************************************************************)
(* Proofs about SeqPvRequest, for any state sets, channels and pool:        *)
(*   TypeCorrect        types, and where a call may be;                     *)
(*   RequestsKeptApart  no request is with two callers;                     *)
(*   NoSemaphoreLost    an empty semaphore is held or will be filled;       *)
(*   NothingElseFound   what pvGet and pvPut find where they assert NULL;   *)
(*   CompletionTrue     a completion that is reported has happened.         *)
(* NoSemaphoreLost and CompletionTrue need polls of one element and are     *)
(* false otherwise (see the README).                                        *)
(***************************************************************************)
EXTENDS SeqPvRequest, TLAPS

Labels == {"idle", "take", "clear", "check", "alloc", "issue", "wait", "finish",
           "when", "poll", "pollFinish"}
Working == {"take", "clear", "check", "alloc", "issue", "wait", "finish"}

\* A call that stays in the program's variable.
Fits(o) == o \in Ops /\ o.ch + o.len <= length /\ o.n <= o.len

\* What the call of a state set looks like where its thread is.
Place(p, o) ==
  /\ p # "idle" => o.kind \in Kinds
  /\ p \in Working => o.n = 0
  /\ p = "pollFinish" => o.n < o.len
  /\ p = "issue" => o.rq \in Requests
  /\ o.len \in Polled \cup {0, 1}
InPlace == \A s \in SS : Place(pc[s], op[s])

TInv == TypeOK /\ InPlace

LEMMA Numbers ==
  /\ length \in Nat /\ length > 0 /\ 0 \in Channels
  /\ \A c \in Channels : c \in Nat /\ c < length
  /\ \A n \in Nat : n < length => n \in Channels
BY SeqPvRequestAssumption DEF Channels

LEMMA OpFrom ==
  ASSUME NEW k \in Kinds \cup {"none"}, NEW c \in Channels, NEW len \in Nat,
         c + len <= length, NEW how \in {"sync", "async", "poll", "when"},
         NEW done \in BOOLEAN
  PROVE  Fits(Op(k, c, len, how, done))
<1>1. len \in 0..length /\ 0 \in 0..length
  BY Numbers
<1> QED BY <1>1 DEF Op, Ops, Fits

LEMMA NoOpFits == Fits(NoOp) /\ Place("idle", NoOp)
<1>1. 0 + 0 <= length
  BY Numbers
<1>2. Fits(NoOp)
  BY <1>1, OpFrom, Numbers DEF NoOp
<1>3. Place("idle", NoOp)
  BY DEF Place, Working, NoOp, Op
<1> QED BY <1>2, <1>3

\* A call of the state set is an operation on the program's variable.
LEMMA OpFits ==
  ASSUME CallTypes, NEW s \in SS
  PROVE  /\ Fits(op[s]) /\ op[s].n \in Nat /\ op[s].len \in Nat /\ op[s].ch \in Nat
         /\ op[s].n <= op[s].len /\ op[s].ch + op[s].len <= length
         /\ op[s] \in Ops /\ op[s].ch \in Channels /\ pc[s] \in Labels
BY Numbers DEF CallTypes, Fits, Ops, Labels

\* Looking at the next element keeps the rest of the call.
LEMMA AtFits ==
  ASSUME NEW o \in Ops, NEW n \in Nat, NEW done \in BOOLEAN, Fits(o), n <= o.len
  PROVE  /\ Fits(At(o, n, done)) /\ At(o, n, done).n = n
         /\ At(o, n, done).kind = o.kind /\ At(o, n, done).len = o.len
<1>1. o.len \in Nat /\ o.len <= length /\ n \in 0..length
  BY Numbers DEF Ops
<1>2. At(o, n, done) \in Ops
  BY <1>1 DEF Ops, At
<1> QED BY <1>1, <1>2 DEF Fits, Ops, At

\* One state set moves on to p in the call o, the others stay where they are.
Moves(s, p, o) ==
  /\ pc' = [pc EXCEPT ![s] = p]
  /\ op' = [op EXCEPT ![s] = o] \/ (op' = op /\ o = op[s])

LEMMA Moved ==
  ASSUME CallTypes, InPlace, NEW s \in SS, NEW p \in Labels, NEW o, Fits(o), Place(p, o),
         Moves(s, p, o), syncSem' \in [SS -> BOOLEAN], calls' \in [SS -> 0..MaxCalls]
  PROVE  CallTypes' /\ InPlace'
<1>1. pc'[s] = p /\ op'[s] = o
  BY DEF Moves, CallTypes
<1>2. \A t \in SS \ {s} : pc'[t] = pc[t] /\ op'[t] = op[t]
  BY DEF Moves, CallTypes
<1>3. pc' \in [SS -> Labels] /\ op' \in [SS -> Ops]
  BY DEF Moves, CallTypes, Labels, Fits
<1>4. \A t \in SS : op'[t].ch + op'[t].len <= length /\ op'[t].n <= op'[t].len
  BY <1>1, <1>2 DEF CallTypes, Fits
<1>5. InPlace'
  BY <1>1, <1>2 DEF InPlace
<1> QED BY <1>3, <1>4, <1>5 DEF CallTypes, Labels

\* A state set in a call works on slots.
LEMMA SlotIsSlot ==
  ASSUME TInv, NEW s \in SS,
         pc[s] \in Working \cup {"pollFinish"} \/ PollsElement(s)
  PROVE  Slot(s) \in Slots /\ ReqSlot(s) \in Slots
<1>1. op[s].kind \in Kinds /\ op[s].ch \in Channels /\ op[s].n \in Nat
  BY OpFits DEF TInv, TypeOK, InPlace, Place, PollsElement, Working
<1>2. CASE op[s].n = 0
  BY <1>1, <1>2, Numbers DEF Slot, ReqSlot, Slots
<1>3. CASE op[s].n < op[s].len
  <2>1. op[s].ch + op[s].n \in Channels
    BY <1>1, <1>3, OpFits, Numbers DEF TInv, TypeOK
  <2> QED BY <1>1, <2>1 DEF Slot, ReqSlot, Slots
<1> QED BY <1>2, <1>3 DEF TInv, InPlace, Place, PollsElement

LEMMA TypeInit == Init => TInv
<1> SUFFICES ASSUME Init PROVE TInv
  OBVIOUS
<1>1. SlotTypes /\ CallbackTypes
  BY SeqPvRequestAssumption, Numbers DEF Init, SlotTypes, CallbackTypes, Idle, Doing
<1>2. CallTypes
  BY SeqPvRequestAssumption, Numbers, NoOpFits DEF Init, CallTypes, Fits
<1>3. InPlace
  BY NoOpFits DEF Init, InPlace
<1> QED BY <1>1, <1>2, <1>3 DEF TInv, TypeOK

LEMMA TypeTake == ASSUME TInv, NEW s \in SS, Take(s) PROVE TInv'
<1> USE DEF TInv, TypeOK
<1>1. Fits(op[s])
  BY OpFits, NoOpFits
<1>2. /\ (IF op[s].how = "async" THEN "clear" ELSE "check") \in Labels
      /\ Place(IF op[s].how = "async" THEN "clear" ELSE "check", op[s])
  BY NoOpFits DEF Take, InPlace, Place, Working, Labels, Ops, PollsElement
<1>3. Moves(s, IF op[s].how = "async" THEN "clear" ELSE "check", op[s])
  BY DEF Take, Moves, Goto, Return
<1>4. syncSem' \in [SS -> BOOLEAN] /\ calls' \in [SS -> 0..MaxCalls]
  BY DEF Take, CallTypes
<1>5. CallTypes' /\ InPlace'
  BY <1>1, <1>2, <1>3, <1>4, Moved
<1>6. SlotTypes'
  BY DEF Take, SlotTypes, Late
<1>7. CallbackTypes'
  BY DEF Take, CallbackTypes, InPlace, Place, caVars
<1> QED BY <1>5, <1>6, <1>7

LEMMA TypeTakeFails == ASSUME TInv, NEW s \in SS, TakeFails(s) PROVE TInv'
<1> USE DEF TInv, TypeOK
<1>1. Fits(NoOp)
  BY OpFits, NoOpFits
<1>2. ("idle") \in Labels /\ Place("idle", NoOp)
  BY NoOpFits DEF TakeFails, InPlace, Place, Working, Labels, Ops, PollsElement
<1>3. Moves(s, "idle", NoOp)
  BY DEF TakeFails, Moves, Goto, Return
<1>4. syncSem' \in [SS -> BOOLEAN] /\ calls' \in [SS -> 0..MaxCalls]
  BY DEF TakeFails, CallTypes
<1>5. CallTypes' /\ InPlace'
  BY <1>1, <1>2, <1>3, <1>4, Moved
<1>6. SlotTypes'
  BY DEF TakeFails, SlotTypes
<1>7. CallbackTypes'
  BY DEF TakeFails, CallbackTypes, InPlace, Place, caVars
<1> QED BY <1>5, <1>6, <1>7

LEMMA TypeClear == ASSUME TInv, NEW s \in SS, Clear(s) PROVE TInv'
<1> USE DEF TInv, TypeOK
<1>1. Fits(op[s])
  BY OpFits, NoOpFits
<1>2. ("check") \in Labels /\ Place("check", op[s])
  BY NoOpFits DEF Clear, InPlace, Place, Working, Labels, Ops, PollsElement
<1>3. Moves(s, "check", op[s])
  BY DEF Clear, Moves, Goto, Return
<1>4. syncSem' \in [SS -> BOOLEAN] /\ calls' \in [SS -> 0..MaxCalls]
  BY DEF Clear, CallTypes
<1>5. CallTypes' /\ InPlace'
  BY <1>1, <1>2, <1>3, <1>4, Moved
<1>6. SlotTypes'
  BY DEF Clear, SlotTypes
<1>7. CallbackTypes'
  BY DEF Clear, CallbackTypes, InPlace, Place, caVars
<1> QED BY <1>5, <1>6, <1>7

LEMMA TypeAlloc == ASSUME TInv, NEW s \in SS, Alloc(s) PROVE TInv'
<1> USE DEF TInv, TypeOK
<1>0. PICK rq \in pool : /\ pool' = pool \ {rq}
                         /\ reqOf' = [reqOf EXCEPT ![Slot(s)] = rq]
                         /\ op' = [op EXCEPT ![s].rq = rq]
  BY DEF Alloc
<1>r. rq \in Requests
  BY <1>0 DEF CallbackTypes
<1>f. Fits(op[s]) /\ op[s].n \in Nat /\ op[s].len \in Nat /\ op[s] \in Ops /\ op[s].len <= length
  BY OpFits, Numbers DEF Fits
<1>1. Fits([op[s] EXCEPT !.rq = rq])
  BY <1>0, <1>r, <1>f, Numbers DEF Fits, Ops
<1>2. ("issue") \in Labels /\ Place("issue", [op[s] EXCEPT !.rq = rq])
  BY <1>0, <1>r, NoOpFits, <1>f DEF Alloc, InPlace, Place, Working, Labels, Ops, PollsElement
<1>3. Moves(s, "issue", [op[s] EXCEPT !.rq = rq])
  BY <1>0, <1>r DEF Alloc, Moves, Goto, Return
<1>4. syncSem' \in [SS -> BOOLEAN] /\ calls' \in [SS -> 0..MaxCalls]
  BY DEF Alloc, CallTypes
<1>5. CallTypes' /\ InPlace'
  BY <1>1, <1>2, <1>3, <1>4, Moved
<1>6. SlotTypes'
  BY <1>0, <1>r DEF Alloc, SlotTypes
<1>7. CallbackTypes'
  BY <1>0, <1>r DEF Alloc, CallbackTypes, InPlace, Place, caVars
<1> QED BY <1>5, <1>6, <1>7

LEMMA TypeIssueFails == ASSUME TInv, NEW s \in SS, IssueFails(s) PROVE TInv'
<1> USE DEF TInv, TypeOK
<1>1. Fits(NoOp)
  BY OpFits, NoOpFits
<1>2. ("idle") \in Labels /\ Place("idle", NoOp)
  BY NoOpFits DEF IssueFails, InPlace, Place, Working, Labels, Ops, PollsElement
<1>3. Moves(s, "idle", NoOp)
  BY DEF IssueFails, Moves, Goto, Return
<1>4. syncSem' \in [SS -> BOOLEAN] /\ calls' \in [SS -> 0..MaxCalls]
  BY DEF IssueFails, CallTypes
<1>5. CallTypes' /\ InPlace'
  BY <1>1, <1>2, <1>3, <1>4, Moved
<1>6. SlotTypes'
  BY DEF IssueFails, SlotTypes
<1>7. CallbackTypes'
  BY DEF IssueFails, CallbackTypes, InPlace, Place, caVars
<1> QED BY <1>5, <1>6, <1>7

LEMMA TypeWaitOK == ASSUME TInv, NEW s \in SS, WaitOK(s) PROVE TInv'
<1> USE DEF TInv, TypeOK
<1>f. Fits(op[s]) /\ op[s].n \in Nat /\ op[s].len \in Nat /\ op[s] \in Ops /\ op[s].len <= length
  BY OpFits, Numbers DEF Fits
<1>1. Fits([op[s] EXCEPT !.done = TRUE])
  BY <1>f, Numbers DEF Fits, Ops
<1>2. ("finish") \in Labels /\ Place("finish", [op[s] EXCEPT !.done = TRUE])
  BY NoOpFits, <1>f DEF WaitOK, InPlace, Place, Working, Labels, Ops, PollsElement
<1>3. Moves(s, "finish", [op[s] EXCEPT !.done = TRUE])
  BY DEF WaitOK, Moves, Goto, Return
<1>4. syncSem' \in [SS -> BOOLEAN] /\ calls' \in [SS -> 0..MaxCalls]
  BY DEF WaitOK, CallTypes
<1>5. CallTypes' /\ InPlace'
  BY <1>1, <1>2, <1>3, <1>4, Moved
<1>6. SlotTypes'
  BY DEF WaitOK, SlotTypes
<1>7. CallbackTypes'
  BY DEF WaitOK, CallbackTypes, InPlace, Place, caVars
<1> QED BY <1>5, <1>6, <1>7

LEMMA TypeWaitTimesOut == ASSUME TInv, NEW s \in SS, WaitTimesOut(s) PROVE TInv'
<1> USE DEF TInv, TypeOK
<1>1. Fits(op[s])
  BY OpFits, NoOpFits
<1>2. ("finish") \in Labels /\ Place("finish", op[s])
  BY NoOpFits DEF WaitTimesOut, InPlace, Place, Working, Labels, Ops, PollsElement
<1>3. Moves(s, "finish", op[s])
  BY DEF WaitTimesOut, Moves, Goto, Return
<1>4. syncSem' \in [SS -> BOOLEAN] /\ calls' \in [SS -> 0..MaxCalls]
  BY DEF WaitTimesOut, CallTypes
<1>5. CallTypes' /\ InPlace'
  BY <1>1, <1>2, <1>3, <1>4, Moved
<1>6. SlotTypes'
  BY DEF WaitTimesOut, SlotTypes
<1>7. CallbackTypes'
  BY DEF WaitTimesOut, CallbackTypes, InPlace, Place, caVars
<1> QED BY <1>5, <1>6, <1>7

LEMMA TypeFinish == ASSUME TInv, NEW s \in SS, Finish(s) PROVE TInv'
<1> USE DEF TInv, TypeOK
<1>1. Fits(NoOp)
  BY OpFits, NoOpFits
<1>2. ("idle") \in Labels /\ Place("idle", NoOp)
  BY NoOpFits DEF Finish, InPlace, Place, Working, Labels, Ops, PollsElement
<1>3. Moves(s, "idle", NoOp)
  BY DEF Finish, Moves, Goto, Return
<1>4. syncSem' \in [SS -> BOOLEAN] /\ calls' \in [SS -> 0..MaxCalls]
  BY DEF Finish, CallTypes
<1>5. CallTypes' /\ InPlace'
  BY <1>1, <1>2, <1>3, <1>4, Moved
<1>6. SlotTypes'
  BY DEF Finish, SlotTypes
<1>7. CallbackTypes'
  BY DEF Finish, CallbackTypes, InPlace, Place, caVars
<1> QED BY <1>5, <1>6, <1>7

LEMMA TypeWhenWakes == ASSUME TInv, NEW s \in SS, WhenWakes(s) PROVE TInv'
<1> USE DEF TInv, TypeOK
<1>f. /\ Fits(At(op[s], 0, TRUE))
      /\ At(op[s], 0, TRUE).n = 0
      /\ At(op[s], 0, TRUE).kind = op[s].kind
      /\ At(op[s], 0, TRUE).len = op[s].len
  <2>1. 0 \in Nat /\ 0 <= op[s].len /\ TRUE \in BOOLEAN
    BY OpFits DEF Ops
  <2> QED BY <2>1, OpFits, AtFits
<1>1. Fits(At(op[s], 0, TRUE))
  BY <1>f
<1>2. ("poll") \in Labels /\ Place("poll", At(op[s], 0, TRUE))
  BY NoOpFits, <1>f DEF WhenWakes, InPlace, Place, Working, Labels, Ops, PollsElement
<1>3. Moves(s, "poll", At(op[s], 0, TRUE))
  BY DEF WhenWakes, Moves, Goto, Return
<1>4. syncSem' \in [SS -> BOOLEAN] /\ calls' \in [SS -> 0..MaxCalls]
  BY DEF WhenWakes, CallTypes
<1>5. CallTypes' /\ InPlace'
  BY <1>1, <1>2, <1>3, <1>4, Moved
<1>6. SlotTypes'
  BY DEF WhenWakes, SlotTypes
<1>7. CallbackTypes'
  BY DEF WhenWakes, CallbackTypes, InPlace, Place, caVars
<1> QED BY <1>5, <1>6, <1>7

LEMMA TypePollNothingPending == ASSUME TInv, NEW s \in SS, PollNothingPending(s) PROVE TInv'
<1> USE DEF TInv, TypeOK
<1>g. op[s].n < op[s].len
  BY DEF PollNothingPending, PollsElement, InPlace, Place
<1>f. /\ Fits(At(op[s], op[s].n + 1, op[s].done))
      /\ At(op[s], op[s].n + 1, op[s].done).n = op[s].n + 1
      /\ At(op[s], op[s].n + 1, op[s].done).kind = op[s].kind
      /\ At(op[s], op[s].n + 1, op[s].done).len = op[s].len
  <2>1. op[s].n + 1 \in Nat /\ op[s].n + 1 <= op[s].len /\ op[s].done \in BOOLEAN
    BY OpFits, <1>g DEF Ops
  <2> QED BY <2>1, OpFits, AtFits
<1>1. Fits(At(op[s], op[s].n + 1, op[s].done))
  BY <1>f
<1>2. (pc[s]) \in Labels /\ Place(pc[s], At(op[s], op[s].n + 1, op[s].done))
  BY NoOpFits, <1>f DEF PollNothingPending, InPlace, Place, Working, Labels, Ops, PollsElement
<1>3. Moves(s, pc[s], At(op[s], op[s].n + 1, op[s].done))
  BY DEF PollNothingPending, Moves, Goto, Return, CallTypes
<1>4. syncSem' \in [SS -> BOOLEAN] /\ calls' \in [SS -> 0..MaxCalls]
  BY DEF PollNothingPending, CallTypes
<1>5. CallTypes' /\ InPlace'
  BY <1>1, <1>2, <1>3, <1>4, Moved
<1>6. SlotTypes'
  BY DEF PollNothingPending, SlotTypes
<1>7. CallbackTypes'
  BY DEF PollNothingPending, CallbackTypes, InPlace, Place, caVars
<1> QED BY <1>5, <1>6, <1>7

LEMMA TypePollTakes == ASSUME TInv, NEW s \in SS, PollTakes(s) PROVE TInv'
<1> USE DEF TInv, TypeOK
<1>1. Fits(op[s])
  BY OpFits, NoOpFits
<1>2. ("pollFinish") \in Labels /\ Place("pollFinish", op[s])
  BY NoOpFits DEF PollTakes, InPlace, Place, Working, Labels, Ops, PollsElement
<1>3. Moves(s, "pollFinish", op[s])
  BY DEF PollTakes, Moves, Goto, Return
<1>4. syncSem' \in [SS -> BOOLEAN] /\ calls' \in [SS -> 0..MaxCalls]
  BY DEF PollTakes, CallTypes
<1>5. CallTypes' /\ InPlace'
  BY <1>1, <1>2, <1>3, <1>4, Moved
<1>6. SlotTypes'
  BY DEF PollTakes, SlotTypes
<1>7. CallbackTypes'
  BY DEF PollTakes, CallbackTypes, InPlace, Place, caVars
<1> QED BY <1>5, <1>6, <1>7

LEMMA TypePollPending == ASSUME TInv, NEW s \in SS, PollPending(s) PROVE TInv'
<1> USE DEF TInv, TypeOK
<1>g. op[s].n < op[s].len
  BY DEF PollPending, PollsElement, InPlace, Place
<1>f. /\ Fits(At(op[s], op[s].n + 1, FALSE))
      /\ At(op[s], op[s].n + 1, FALSE).n = op[s].n + 1
      /\ At(op[s], op[s].n + 1, FALSE).kind = op[s].kind
      /\ At(op[s], op[s].n + 1, FALSE).len = op[s].len
  <2>1. op[s].n + 1 \in Nat /\ op[s].n + 1 <= op[s].len /\ FALSE \in BOOLEAN
    BY OpFits, <1>g DEF Ops
  <2> QED BY <2>1, OpFits, AtFits
<1>1. Fits(At(op[s], op[s].n + 1, FALSE))
  BY <1>f
<1>2. (pc[s]) \in Labels /\ Place(pc[s], At(op[s], op[s].n + 1, FALSE))
  BY NoOpFits, <1>f DEF PollPending, InPlace, Place, Working, Labels, Ops, PollsElement
<1>3. Moves(s, pc[s], At(op[s], op[s].n + 1, FALSE))
  BY DEF PollPending, Moves, Goto, Return, CallTypes
<1>4. syncSem' \in [SS -> BOOLEAN] /\ calls' \in [SS -> 0..MaxCalls]
  BY DEF PollPending, CallTypes
<1>5. CallTypes' /\ InPlace'
  BY <1>1, <1>2, <1>3, <1>4, Moved
<1>6. SlotTypes'
  BY DEF PollPending, SlotTypes
<1>7. CallbackTypes'
  BY DEF PollPending, CallbackTypes, InPlace, Place, caVars
<1> QED BY <1>5, <1>6, <1>7

LEMMA TypePollFinish == ASSUME TInv, NEW s \in SS, PollFinish(s) PROVE TInv'
<1> USE DEF TInv, TypeOK
<1>g. op[s].n < op[s].len
  BY DEF PollFinish, PollsElement, InPlace, Place
<1>f. /\ Fits(At(op[s], op[s].n + 1, op[s].done))
      /\ At(op[s], op[s].n + 1, op[s].done).n = op[s].n + 1
      /\ At(op[s], op[s].n + 1, op[s].done).kind = op[s].kind
      /\ At(op[s], op[s].n + 1, op[s].done).len = op[s].len
  <2>1. op[s].n + 1 \in Nat /\ op[s].n + 1 <= op[s].len /\ op[s].done \in BOOLEAN
    BY OpFits, <1>g DEF Ops
  <2> QED BY <2>1, OpFits, AtFits
<1>1. Fits(At(op[s], op[s].n + 1, op[s].done))
  BY <1>f
<1>2. ("poll") \in Labels /\ Place("poll", At(op[s], op[s].n + 1, op[s].done))
  BY NoOpFits, <1>f DEF PollFinish, InPlace, Place, Working, Labels, Ops, PollsElement
<1>3. Moves(s, "poll", At(op[s], op[s].n + 1, op[s].done))
  BY DEF PollFinish, Moves, Goto, Return
<1>4. syncSem' \in [SS -> BOOLEAN] /\ calls' \in [SS -> 0..MaxCalls]
  BY DEF PollFinish, CallTypes
<1>5. CallTypes' /\ InPlace'
  BY <1>1, <1>2, <1>3, <1>4, Moved
<1>6. SlotTypes'
  BY DEF PollFinish, SlotTypes
<1>7. CallbackTypes'
  BY DEF PollFinish, CallbackTypes, InPlace, Place, caVars
<1> QED BY <1>5, <1>6, <1>7

LEMMA TypeCheck == ASSUME TInv, NEW s \in SS, Check(s) PROVE TInv'
<1> USE DEF TInv, TypeOK
<1>1. CallTypes' /\ InPlace'
  <2>1. syncSem' \in [SS -> BOOLEAN] /\ calls' \in [SS -> 0..MaxCalls]
    BY DEF Check, CallTypes
  <2>2. CASE op[s].kind = "get" /\ ~connected[op[s].ch]
    <3>1. Moves(s, "idle", NoOp)
      BY <2>2 DEF Check, Moves, Goto, Return
    <3> QED BY <2>1, <3>1, NoOpFits, Moved DEF Labels
  <2>3. CASE ~(op[s].kind = "get" /\ ~connected[op[s].ch])
    <3>1. Moves(s, "alloc", op[s])
      BY <2>3 DEF Check, Moves, Goto, Return
    <3>2. Fits(op[s]) /\ Place("alloc", op[s])
      BY OpFits DEF Check, InPlace, Place, Working
    <3> QED BY <2>1, <3>1, <3>2, Moved DEF Labels
  <2> QED BY <2>2, <2>3
<1>2. SlotTypes'
  BY DEF Check, SlotTypes
<1>3. CallbackTypes'
  BY DEF Check, CallbackTypes, caVars
<1> QED BY <1>1, <1>2, <1>3

LEMMA TypeIssue == ASSUME TInv, NEW s \in SS, Issue(s) PROVE TInv'
<1> USE DEF TInv, TypeOK
<1>1. CallTypes' /\ InPlace'
  <2>1. syncSem' \in [SS -> BOOLEAN] /\ calls' \in [SS -> 0..MaxCalls]
    BY DEF Issue, CallTypes
  <2>2. CASE op[s].how = "sync"
    <3>1. Moves(s, "wait", op[s])
      BY <2>2 DEF Issue, Moves, Goto, Return
    <3>2. Fits(op[s]) /\ Place("wait", op[s])
      BY OpFits DEF Issue, InPlace, Place, Working
    <3> QED BY <2>1, <3>1, <3>2, Moved DEF Labels
  <2>3. CASE op[s].how # "sync"
    <3>1. Moves(s, "idle", NoOp)
      BY <2>3 DEF Issue, Moves, Goto, Return
    <3> QED BY <2>1, <3>1, NoOpFits, Moved DEF Labels
  <2> QED BY <2>2, <2>3
<1>2. SlotTypes'
  BY DEF Issue, SlotTypes
<1>3. CallbackTypes'
  <2>1. [rq |-> op[s].rq, slot |-> Slot(s)] \in [rq : Requests, slot : Slots]
    BY SlotIsSlot DEF Issue, InPlace, Place, Working
  <2> QED BY <2>1 DEF Issue, CallbackTypes
<1> QED BY <1>1, <1>2, <1>3

LEMMA TypePollReturns == ASSUME TInv, NEW s \in SS, PollReturns(s) PROVE TInv'
<1> USE DEF TInv, TypeOK
<1>1. CallTypes' /\ InPlace'
  <2>1. syncSem' \in [SS -> BOOLEAN] /\ calls' \in [SS -> 0..MaxCalls]
    BY DEF PollReturns, CallTypes
  <2>2. CASE op[s].how = "when" /\ ~op[s].done
    <3>1. Moves(s, "when", op[s])
      BY <2>2 DEF PollReturns, Moves, Goto, Return
    <3>2. Fits(op[s]) /\ Place("when", op[s])
      BY OpFits DEF PollReturns, Returns, InPlace, Place, Working
    <3> QED BY <2>1, <3>1, <3>2, Moved DEF Labels
  <2>3. CASE ~(op[s].how = "when" /\ ~op[s].done)
    <3>1. Moves(s, "idle", NoOp)
      BY <2>3 DEF PollReturns, Moves, Goto, Return
    <3> QED BY <2>1, <3>1, NoOpFits, Moved DEF Labels
  <2> QED BY <2>2, <2>3
<1>2. SlotTypes'
  BY DEF PollReturns, SlotTypes
<1>3. CallbackTypes'
  BY DEF PollReturns, CallbackTypes, caVars
<1> QED BY <1>1, <1>2, <1>3

LEMMA TypeCalls == ASSUME TInv, NEW s \in SS, Calls(s) PROVE TInv'
<1> USE DEF TInv, TypeOK
<1>1. SlotTypes' /\ CallbackTypes'
  BY ZenonT(60) DEF Calls, Call, Poll, EnterWhen, SlotTypes, CallbackTypes, caVars
<1>2. PICK k \in Kinds, c \in Channels :
        \/ \E how \in {"sync", "async"} : Call(s, k, c, how)
        \/ \E len \in IF k = "put" THEN Polled ELSE {1} :
             /\ c + len <= length
             /\ Poll(s, k, c, len) \/ EnterWhen(s, k, c, len)
  BY DEF Calls
<1>3. CASE \E how \in {"sync", "async"} : Call(s, k, c, how)
  <2>1. PICK how \in {"sync", "async"} : Call(s, k, c, how)
    BY <1>3
  <2> DEFINE o == Op(k, c, 0, how, FALSE)
  <2>2. c + 0 <= length
    BY Numbers
  <2>3. Fits(o) /\ Place("take", o)
    <3>1. Fits(o)
      BY <2>2, OpFrom
    <3>2. Place("take", o)
      BY DEF Place, Op
    <3> QED BY <3>1, <3>2
  <2>4. Moves(s, "take", o)
    BY <2>1 DEF Call, Moves, Goto
  <2>5. syncSem' \in [SS -> BOOLEAN] /\ calls' \in [SS -> 0..MaxCalls]
    BY <2>1, SeqPvRequestAssumption DEF Call, CallTypes
  <2> QED BY <1>1, <2>3, <2>4, <2>5, Moved DEF Labels
<1>4. ASSUME NEW len \in Polled \cup {1}, len \in Nat, c + len <= length,
             Poll(s, k, c, len) \/ EnterWhen(s, k, c, len)
      PROVE  TInv'
  <2>1. ASSUME NEW how \in {"poll", "when"}, NEW p \in {"poll", "when"}
        PROVE  Fits(Op(k, c, len, how, TRUE)) /\ Place(p, Op(k, c, len, how, TRUE))
    BY <1>4, OpFrom DEF Place, Working, Op
  <2>2. syncSem' \in [SS -> BOOLEAN] /\ calls' \in [SS -> 0..MaxCalls]
    BY <1>4 DEF Poll, EnterWhen, CallTypes
  <2>3. CASE Poll(s, k, c, len)
    <3>1. Moves(s, "poll", Op(k, c, len, "poll", TRUE))
      BY <2>3 DEF Poll, Moves, Goto
    <3> QED BY <1>1, <2>1, <2>2, <3>1, Moved DEF Labels
  <2>4. CASE EnterWhen(s, k, c, len)
    <3>1. Moves(s, "when", Op(k, c, len, "when", TRUE))
      BY <2>4 DEF EnterWhen, Moves, Goto
    <3> QED BY <1>1, <2>1, <2>2, <3>1, Moved DEF Labels
  <2> QED BY <1>4, <2>3, <2>4
<1>5. \A len \in IF k = "put" THEN Polled ELSE {1} : len \in Polled \cup {1} /\ len \in Nat
  BY SeqPvRequestAssumption
<1> QED BY <1>2, <1>3, <1>4, <1>5

\* The thread of the PV system leaves the calls of the state sets alone.
LEMMA TypeCallback ==
  ASSUME TInv,
         \/ Callback
         \/ \E a \in asked : Answer(a)
         \/ \E c \in Channels : Disconnect(c) \/ Reconnect(c)
  PROVE  TInv'
<1> USE DEF TInv, TypeOK
<1>1. CallTypes' /\ InPlace'
  <2>1. pc' = pc /\ op' = op /\ calls' = calls
    BY DEF Callback, Compare, WriteBuffer, SignalCompletion, Wake, Release, WakeAll,
           Answer, Disconnect, Reconnect, ssVars
  <2>2. syncSem' \in [SS -> BOOLEAN]
    BY DEF Callback, Compare, WriteBuffer, SignalCompletion, Wake, Release, WakeAll,
           Answer, Disconnect, Reconnect, ssVars, CallTypes
  <2> QED BY <2>1, <2>2 DEF CallTypes, InPlace
<1>2. SlotTypes'
  BY DEF Callback, Compare, WriteBuffer, SignalCompletion, Wake, Release, WakeAll,
         Answer, Disconnect, Reconnect, SlotTypes
<1>3. CallbackTypes'
  <2>1. ASSUME NEW a \in asked, Answer(a) PROVE CallbackTypes'
    <3>1. a.rq \in Requests /\ a.slot \in Slots
      BY DEF CallbackTypes
    <3> QED BY <2>1, <3>1, Numbers DEF Answer, CallbackTypes, Doing
  <2>2. CASE Compare
    BY <2>2, Numbers DEF Compare, CallbackTypes, Idle, Doing
  <2>3. CASE WriteBuffer
    BY <2>3 DEF WriteBuffer, CallbackTypes, After
  <2>4. CASE SignalCompletion
    BY <2>4 DEF SignalCompletion, CallbackTypes, After
  <2>5. CASE Wake
    BY <2>5 DEF Wake, CallbackTypes, After
  <2>6. CASE Release
    BY <2>6 DEF Release, CallbackTypes
  <2>7. CASE WakeAll
    BY <2>7, Numbers DEF WakeAll, CallbackTypes, Idle, Doing
  <2>8. ASSUME NEW c \in Channels, Disconnect(c) PROVE CallbackTypes'
    <3>1. breaks' \in 0..MaxBreaks
      BY <2>8, SeqPvRequestAssumption DEF Disconnect, CallbackTypes
    <3> QED BY <2>8, <3>1 DEF Disconnect, CallbackTypes, Doing
  <2>9. ASSUME NEW c \in Channels, Reconnect(c) PROVE CallbackTypes'
    BY <2>9, Numbers DEF Reconnect, CallbackTypes, Doing
  <2> QED BY <2>1, <2>2, <2>3, <2>4, <2>5, <2>6, <2>7, <2>8, <2>9
       DEF Callback
<1> QED BY <1>1, <1>2, <1>3

LEMMA TypeStep == TInv /\ [Next]_vars => TInv'
<1> SUFFICES ASSUME TInv, [Next]_vars PROVE TInv'
  OBVIOUS
<1>1. CASE UNCHANGED vars
  BY <1>1 DEF vars, TInv, TypeOK, SlotTypes, CallbackTypes, CallTypes, InPlace
<1>2. ASSUME NEW s \in SS, Calls(s) PROVE TInv'
  BY <1>2, TypeCalls
<1>3. ASSUME NEW s \in SS, StateSet(s) PROVE TInv'
  BY <1>3, TypeTake, TypeTakeFails, TypeClear, TypeCheck, TypeAlloc, TypeIssue,
     TypeIssueFails, TypeWaitOK, TypeWaitTimesOut, TypeFinish, TypeWhenWakes,
     TypePollNothingPending, TypePollTakes, TypePollPending, TypePollFinish,
     TypePollReturns DEF StateSet
<1> QED BY <1>1, <1>2, <1>3, TypeCallback DEF Next

\* Every variable keeps its type, and a call or a poll never leaves the program's
\* variable, whatever the state sets, the array and the pool.
THEOREM TypeCorrect == Spec => []TypeOK
<1>1. TInv => TypeOK
  BY DEF TInv
<1> QED BY <1>1, TypeInit, TypeStep, PTL DEF Spec

----------------------------------------------------------------------------
\* A step that gives and takes no request, and puts none into a hand.
LEMMA ApartKept ==
  ASSUME RequestsApart, pool' = pool, asked' = asked,
         \A t \in SS : pc'[t] = "issue" => pc[t] = "issue" /\ op'[t].rq = op[t].rq
  PROVE  RequestsApart'
BY DEF RequestsApart, InHand

\* A state set that moves to some other place than the issuing one.
LEMMA ApartMoved ==
  ASSUME TInv, RequestsApart, pool' = pool, asked' = asked,
         NEW s \in SS, NEW p, NEW o, Moves(s, p, o), p # "issue"
  PROVE  RequestsApart'
<1>1. \A t \in SS : pc'[t] = "issue" => pc[t] = "issue" /\ op'[t].rq = op[t].rq
  BY DEF Moves, TInv, TypeOK, CallTypes
<1> QED BY <1>1, ApartKept

LEMMA ApartAlloc == ASSUME TInv, RequestsApart, NEW s \in SS, Alloc(s) PROVE RequestsApart'
<1>1. PICK rq \in pool : pool' = pool \ {rq} /\ op' = [op EXCEPT ![s].rq = rq]
  BY DEF Alloc
<1>2. asked' = asked /\ pc' = [pc EXCEPT ![s] = "issue"]
  BY DEF Alloc, Goto, caVars
<1>3. op'[s].rq = rq
  BY <1>1 DEF TInv, TypeOK, CallTypes, Ops
<1>4. \A t \in SS \ {s} : op'[t] = op[t] /\ pc'[t] = pc[t]
  BY <1>1, <1>2 DEF TInv, TypeOK, CallTypes
<1>5. \A a \in asked : a.rq # rq
  BY <1>1 DEF RequestsApart
<1>6. \A t \in SS \ {s} : pc[t] = "issue" => op[t].rq # rq
  BY <1>1 DEF RequestsApart, InHand
<1> QED BY <1>1, <1>2, <1>3, <1>4, <1>5, <1>6 DEF RequestsApart, InHand

LEMMA ApartIssue == ASSUME TInv, RequestsApart, NEW s \in SS, Issue(s) PROVE RequestsApart'
<1>1. /\ pc[s] = "issue" /\ pool' = pool
      /\ asked' = asked \cup {[rq |-> op[s].rq, slot |-> Slot(s)]}
  BY DEF Issue
<1>2. pc'[s] # "issue"
  BY DEF Issue, Goto, Return, TInv, TypeOK, CallTypes
<1>3. \A t \in SS \ {s} : op'[t] = op[t] /\ pc'[t] = pc[t]
  BY DEF Issue, Goto, Return, TInv, TypeOK, CallTypes
<1> QED BY <1>1, <1>2, <1>3 DEF RequestsApart, InHand

LEMMA ApartIssueFails ==
  ASSUME TInv, RequestsApart, NEW s \in SS, IssueFails(s) PROVE RequestsApart'
<1>1. pc[s] = "issue" /\ pool' = pool \cup {op[s].rq} /\ asked' = asked
  BY DEF IssueFails, caVars
<1>2. pc'[s] # "issue"
  BY DEF IssueFails, Goto, Return, TInv, TypeOK, CallTypes
<1>3. \A t \in SS \ {s} : op'[t] = op[t] /\ pc'[t] = pc[t]
  BY DEF IssueFails, Goto, Return, TInv, TypeOK, CallTypes
<1> QED BY <1>1, <1>2, <1>3 DEF RequestsApart, InHand

LEMMA ApartAnswer ==
  ASSUME RequestsApart, NEW a \in asked, Answer(a) PROVE RequestsApart'
<1>1. pool' = pool \cup {a.rq} /\ asked' = asked \ {a} /\ pc' = pc /\ op' = op
  BY DEF Answer, ssVars
<1> QED BY <1>1 DEF RequestsApart, InHand

LEMMA ApartStep == TInv /\ RequestsApart /\ [Next]_vars => RequestsApart'
<1> SUFFICES ASSUME TInv, RequestsApart, [Next]_vars PROVE RequestsApart'
  OBVIOUS
<1>1. CASE UNCHANGED vars
  BY <1>1, ApartKept DEF vars
<1>2. ASSUME NEW s \in SS, Calls(s) PROVE RequestsApart'
  <2>1. PICK p \in {"take", "poll", "when"} : pc' = [pc EXCEPT ![s] = p]
    BY <1>2 DEF Calls, Call, Poll, EnterWhen, Goto
  <2>2. \A t \in SS : pc'[t] = "issue" => pc[t] = "issue" /\ op'[t].rq = op[t].rq
    BY <1>2, <2>1, ZenonT(60) DEF Calls, Call, Poll, EnterWhen, TInv, TypeOK, CallTypes
  <2>3. pool' = pool /\ asked' = asked
    BY <1>2 DEF Calls, Call, Poll, EnterWhen, caVars
  <2> QED BY <2>2, <2>3, ApartKept
<1>3. ASSUME NEW s \in SS, StateSet(s) PROVE RequestsApart'
  <2>1. CASE Alloc(s) \/ Issue(s) \/ IssueFails(s)
    BY <2>1, ApartAlloc, ApartIssue, ApartIssueFails
  <2>2. ASSUME NEW p, NEW o, Moves(s, p, o), p # "issue", pool' = pool, asked' = asked
        PROVE  RequestsApart'
    BY <2>2, ApartMoved
  <2>3. CASE TakeFails(s)
    BY <2>2, <2>3 DEF TakeFails, Goto, Return, Moves, caVars
  <2>4. CASE Take(s)
    <3>1. Moves(s, IF op[s].how = "async" THEN "clear" ELSE "check", op[s])
      BY <2>4 DEF Take, Goto, Moves
    <3> QED BY <2>2, <2>4, <3>1 DEF Take, caVars
  <2>5. CASE Clear(s) \/ WaitTimesOut(s) \/ PollTakes(s)
    <3>1. PICK p \in {"check", "finish", "pollFinish"} : Moves(s, p, op[s])
      BY <2>5 DEF Clear, WaitTimesOut, PollTakes, Goto, Moves
    <3> QED BY <2>2, <2>5, <3>1 DEF Clear, WaitTimesOut, PollTakes, caVars
  <2>6. CASE Check(s)
    <3>1. Moves(s, "idle", NoOp) \/ Moves(s, "alloc", op[s])
      BY <2>6 DEF Check, Goto, Return, Moves
    <3> QED BY <2>2, <2>6, <3>1 DEF Check, caVars
  <2>7. CASE WaitOK(s)
    <3>1. Moves(s, "finish", [op[s] EXCEPT !.done = TRUE])
      BY <2>7 DEF WaitOK, Goto, Moves
    <3> QED BY <2>2, <2>7, <3>1 DEF WaitOK, caVars
  <2>8. CASE Finish(s)
    <3>1. Moves(s, "idle", NoOp)
      BY <2>8 DEF Finish, Goto, Return, Moves
    <3> QED BY <2>2, <2>8, <3>1 DEF Finish, caVars
  <2>9. CASE WhenWakes(s)
    <3>1. Moves(s, "poll", At(op[s], 0, TRUE))
      BY <2>9 DEF WhenWakes, Goto, Moves
    <3> QED BY <2>2, <2>9, <3>1 DEF WhenWakes, caVars
  <2>10. CASE PollNothingPending(s) \/ PollPending(s)
    <3>1. PICK o : Moves(s, "poll", o)
      BY <2>10 DEF PollNothingPending, PollPending, PollsElement, Moves, TInv, TypeOK, CallTypes
    <3> QED BY <2>2, <2>10, <3>1 DEF PollNothingPending, PollPending, caVars
  <2>11. CASE PollFinish(s)
    <3>1. Moves(s, "poll", At(op[s], op[s].n + 1, op[s].done))
      BY <2>11 DEF PollFinish, Goto, Moves
    <3> QED BY <2>2, <2>11, <3>1 DEF PollFinish, caVars
  <2>12. CASE PollReturns(s)
    <3>1. Moves(s, "when", op[s]) \/ Moves(s, "idle", NoOp)
      BY <2>12 DEF PollReturns, Goto, Return, Moves
    <3> QED BY <2>2, <2>12, <3>1 DEF PollReturns, caVars
  <2> QED BY <1>3, <2>1, <2>3, <2>4, <2>5, <2>6, <2>7, <2>8, <2>9, <2>10, <2>11, <2>12
          DEF StateSet
<1>4. CASE Callback
  BY <1>4, ApartKept DEF Callback, Compare, WriteBuffer, SignalCompletion, Wake, Release,
     WakeAll, ssVars
<1>5. ASSUME NEW a \in asked, Answer(a) PROVE RequestsApart'
  BY <1>5, ApartAnswer
<1>6. ASSUME NEW c \in Channels, Disconnect(c) \/ Reconnect(c) PROVE RequestsApart'
  BY <1>6, ApartKept DEF Disconnect, Reconnect, ssVars
<1> QED BY <1>1, <1>2, <1>3, <1>4, <1>5, <1>6 DEF Next

\* However late an answer comes, and however many state sets share the pool, a
\* request is never with two of them, nor in the pool while its answer is due.
THEOREM RequestsKeptApart == Spec => []RequestsApart
<1>1. Init => RequestsApart
  BY DEF Init, RequestsApart, InHand
<1> QED BY <1>1, TypeInit, TypeStep, ApartStep, PTL DEF Spec

----------------------------------------------------------------------------
\* What is about to be issued is what its answer will be compared with.
IssueAt == \A s \in SS : pc[s] = "issue" => reqOf[Slot(s)] = op[s].rq

SInv == SemaphoreKept /\ IssueAt

\* The step of a state set leaves the calls of the others alone.
Others(s) == \A t \in SS \ {s} : pc'[t] = pc[t] /\ op'[t] = op[t]

LEMMA MovesOthers ==
  ASSUME TInv, NEW s \in SS, NEW p, NEW o, Moves(s, p, o)
  PROVE  Others(s) /\ pc'[s] = p /\ op'[s] = o
BY DEF Moves, Others, TInv, TypeOK, CallTypes

\* The slot of a state set depends on nothing but its call.
LEMMA SlotKept ==
  /\ \A s \in SS : op'[s] = op[s] => Slot(s)' = Slot(s)
  /\ \A s \in SS : Slot(s)[1] = s
BY DEF Slot

\* A state set that holds no semaphore moves, and changes neither the semaphores
\* nor the requests.
LEMMA KeptQuiet ==
  ASSUME TInv, SInv, NEW s \in SS, Others(s), ~Holds(s), pc'[s] # "issue",
         UNCHANGED <<sem, reqOf, asked, ca>>
  PROVE  SInv'
<1>1. IssueAt'
  BY SlotKept DEF IssueAt, SInv, Others
<1>2. ASSUME NEW x \in Slots, ~sem'[x]
      PROVE  (Holds(x[1]) /\ Slot(x[1]) = x)' \/ OnItsWay(x)'
  <2>1. x[1] \in SS
    BY DEF Slots
  <2>2. OnItsWay(x)' <=> OnItsWay(x)
    BY DEF OnItsWay
  <2>3. CASE x[1] = s
    BY <1>2, <2>1, <2>2, <2>3 DEF SInv, SemaphoreKept
  <2>4. CASE x[1] # s
    BY <1>2, <2>1, <2>2, <2>4, SlotKept DEF SInv, SemaphoreKept, Others, Holds
  <2> QED BY <2>3, <2>4
<1> QED BY <1>1, <1>2 DEF SInv, SemaphoreKept

\* A state set changes the semaphore or the request of the slot it works on; it
\* gives the semaphore back, holds it, or its answer is on the way.
LEMMA KeptAt ==
  ASSUME TInv, SInv, NEW s \in SS, Others(s), NEW y \in Slots, y = Slot(s),
         ca' = ca, asked \subseteq asked',
         \A x \in Slots \ {y} : sem'[x] = sem[x] /\ reqOf'[x] = reqOf[x],
         pc'[s] = "issue" => reqOf'[Slot(s)'] = op'[s].rq,
         sem'[y] \/ (Holds(s)' /\ Slot(s)' = y) \/ OnItsWay(y)'
  PROVE  SInv'
<1>1. IssueAt'
  <2>1. ASSUME NEW t \in SS \ {s}, pc[t] = "issue"
        PROVE  reqOf'[Slot(t)] = reqOf[Slot(t)]
    <3>1. Slot(t) \in Slots
      BY <2>1, SlotIsSlot DEF Working
    <3>2. Slot(t) # y
      BY SlotKept
    <3> QED BY <3>1, <3>2
  <2>2. ASSUME NEW t \in SS, pc'[t] = "issue" PROVE reqOf'[Slot(t)'] = op'[t].rq
    <3>1. CASE t = s
      BY <2>2, <3>1
    <3>2. CASE t # s
      BY <2>1, <2>2, <3>2, SlotKept DEF IssueAt, SInv, Others
    <3> QED BY <3>1, <3>2
  <2> QED BY <2>2 DEF IssueAt
<1>2. ASSUME NEW x \in Slots, ~sem'[x]
      PROVE  (Holds(x[1]) /\ Slot(x[1]) = x)' \/ OnItsWay(x)'
  <2>1. x[1] \in SS
    BY DEF Slots
  <2>2. CASE x = y
    <3>1. x[1] = s
      BY <2>2, SlotKept
    <3> QED BY <1>2, <2>2, <3>1
  <2>3. CASE x # y
    <3>1. OnItsWay(x) => OnItsWay(x)'
      BY <2>3 DEF OnItsWay
    <3>2. CASE x[1] = s
      BY <1>2, <2>3, <3>1, <3>2 DEF SInv, SemaphoreKept
    <3>3. CASE x[1] # s
      BY <1>2, <2>1, <2>3, <3>1, <3>3, SlotKept DEF SInv, SemaphoreKept, Others, Holds
    <3> QED BY <3>2, <3>3
  <2> QED BY <2>2, <2>3
<1> QED BY <1>1, <1>2 DEF SInv, SemaphoreKept

LEMMA KeptTake ==
  ASSUME TInv, SInv, NEW s \in SS, Take(s) PROVE SInv'
<1>1. PICK y \in Slots : y = Slot(s)
  BY SlotIsSlot DEF Take, Working
<1>2. Moves(s, IF op[s].how = "async" THEN "clear" ELSE "check", op[s])
  BY DEF Take, Moves, Goto, Return
<1>3. /\ Others(s) /\ pc'[s] = (IF op[s].how = "async" THEN "clear" ELSE "check") /\ op'[s] = op[s]
      /\ ca' = ca /\ asked \subseteq asked'
  BY <1>2, MovesOthers DEF Take, caVars
<1>4. \A x \in Slots \ {y} : sem'[x] = sem[x] /\ reqOf'[x] = reqOf[x]
  BY <1>1 DEF Take, TInv, TypeOK, SlotTypes
<1>5. Holds(s)' /\ Slot(s)' = y
  BY <1>1, <1>3, SlotKept DEF Holds
<1> QED BY <1>1, <1>3, <1>4, <1>5, KeptAt

LEMMA KeptClear ==
  ASSUME TInv, SInv, NEW s \in SS, Clear(s) PROVE SInv'
<1>1. PICK y \in Slots : y = Slot(s)
  BY SlotIsSlot DEF Clear, Working
<1>2. Moves(s, "check", op[s])
  BY DEF Clear, Moves, Goto, Return
<1>3. /\ Others(s) /\ pc'[s] = "check" /\ op'[s] = op[s]
      /\ ca' = ca /\ asked \subseteq asked'
  BY <1>2, MovesOthers DEF Clear, caVars
<1>4. \A x \in Slots \ {y} : sem'[x] = sem[x] /\ reqOf'[x] = reqOf[x]
  BY <1>1 DEF Clear, TInv, TypeOK, SlotTypes
<1>5. Holds(s)' /\ Slot(s)' = y
  BY <1>1, <1>3, SlotKept DEF Holds
<1> QED BY <1>1, <1>3, <1>4, <1>5, KeptAt

LEMMA KeptIssueFails ==
  ASSUME TInv, SInv, NEW s \in SS, IssueFails(s) PROVE SInv'
<1>1. PICK y \in Slots : y = Slot(s)
  BY SlotIsSlot DEF IssueFails, Working
<1>2. Moves(s, "idle", NoOp)
  BY DEF IssueFails, Moves, Goto, Return
<1>3. /\ Others(s) /\ pc'[s] = "idle" /\ op'[s] = NoOp
      /\ ca' = ca /\ asked \subseteq asked'
  BY <1>2, MovesOthers DEF IssueFails, caVars
<1>4. \A x \in Slots \ {y} : sem'[x] = sem[x] /\ reqOf'[x] = reqOf[x]
  BY <1>1 DEF IssueFails, TInv, TypeOK, SlotTypes
<1>5. sem'[y]
  BY <1>1 DEF IssueFails, TInv, TypeOK, SlotTypes
<1> QED BY <1>1, <1>3, <1>4, <1>5, KeptAt

LEMMA KeptWaitOK ==
  ASSUME TInv, SInv, NEW s \in SS, WaitOK(s) PROVE SInv'
<1>1. PICK y \in Slots : y = Slot(s)
  BY SlotIsSlot DEF WaitOK, Working
<1>2. Moves(s, "finish", [op[s] EXCEPT !.done = TRUE])
  BY DEF WaitOK, Moves, Goto, Return
<1>3. /\ Others(s) /\ pc'[s] = "finish" /\ op'[s] = [op[s] EXCEPT !.done = TRUE]
      /\ ca' = ca /\ asked \subseteq asked'
  BY <1>2, MovesOthers DEF WaitOK, caVars
<1>4. \A x \in Slots \ {y} : sem'[x] = sem[x] /\ reqOf'[x] = reqOf[x]
  BY <1>1 DEF WaitOK, TInv, TypeOK, SlotTypes
<1>5. Holds(s)' /\ Slot(s)' = y
  <2>1. op'[s].kind = op[s].kind /\ op'[s].ch = op[s].ch /\ op'[s].n = op[s].n
    BY <1>3, OpFits DEF TInv, TypeOK, Ops
  <2> QED BY <1>1, <1>3, <2>1 DEF Holds, Slot
<1> QED BY <1>1, <1>3, <1>4, <1>5, KeptAt

LEMMA KeptFinish ==
  ASSUME TInv, SInv, NEW s \in SS, Finish(s) PROVE SInv'
<1>1. PICK y \in Slots : y = Slot(s)
  BY SlotIsSlot DEF Finish, Working
<1>2. Moves(s, "idle", NoOp)
  BY DEF Finish, Moves, Goto, Return
<1>3. /\ Others(s) /\ pc'[s] = "idle" /\ op'[s] = NoOp
      /\ ca' = ca /\ asked \subseteq asked'
  BY <1>2, MovesOthers DEF Finish, caVars
<1>4. \A x \in Slots \ {y} : sem'[x] = sem[x] /\ reqOf'[x] = reqOf[x]
  BY <1>1 DEF Finish, TInv, TypeOK, SlotTypes
<1>5. sem'[y]
  BY <1>1 DEF Finish, TInv, TypeOK, SlotTypes
<1> QED BY <1>1, <1>3, <1>4, <1>5, KeptAt

LEMMA KeptPollTakes ==
  ASSUME TInv, SInv, NEW s \in SS, PollTakes(s) PROVE SInv'
<1>1. PICK y \in Slots : y = Slot(s)
  BY SlotIsSlot DEF PollTakes, Working
<1>2. Moves(s, "pollFinish", op[s])
  BY DEF PollTakes, Moves, Goto, Return
<1>3. /\ Others(s) /\ pc'[s] = "pollFinish" /\ op'[s] = op[s]
      /\ ca' = ca /\ asked \subseteq asked'
  BY <1>2, MovesOthers DEF PollTakes, caVars
<1>4. \A x \in Slots \ {y} : sem'[x] = sem[x] /\ reqOf'[x] = reqOf[x]
  BY <1>1 DEF PollTakes, TInv, TypeOK, SlotTypes
<1>5. Holds(s)' /\ Slot(s)' = y
  BY <1>1, <1>3, SlotKept DEF Holds
<1> QED BY <1>1, <1>3, <1>4, <1>5, KeptAt

LEMMA KeptPollFinish ==
  ASSUME Polled \subseteq {1}, TInv, SInv, NEW s \in SS, PollFinish(s) PROVE SInv'
<1>1. PICK y \in Slots : y = Slot(s)
  BY SlotIsSlot DEF PollFinish, Working
<1>2. Moves(s, "poll", At(op[s], op[s].n + 1, op[s].done))
  BY DEF PollFinish, Moves, Goto, Return
<1>3. /\ Others(s) /\ pc'[s] = "poll" /\ op'[s] = At(op[s], op[s].n + 1, op[s].done)
      /\ ca' = ca /\ asked \subseteq asked'
  BY <1>2, MovesOthers DEF PollFinish, caVars
<1>r. y = ReqSlot(s)
  <2>1. op[s].n = 0
    BY OpFits DEF PollFinish, TInv, TypeOK, InPlace, Place
  <2>2. op[s].ch + 0 = op[s].ch
    BY OpFits, Numbers DEF TInv, TypeOK
  <2> QED BY <1>1, <2>1, <2>2 DEF Slot, ReqSlot
<1>4. \A x \in Slots \ {y} : sem'[x] = sem[x] /\ reqOf'[x] = reqOf[x]
  BY <1>1, <1>r DEF PollFinish, TInv, TypeOK, SlotTypes
<1>5. sem'[y]
  BY <1>1 DEF PollFinish, TInv, TypeOK, SlotTypes
<1> QED BY <1>1, <1>3, <1>4, <1>5, KeptAt

LEMMA KeptCheck == ASSUME TInv, SInv, NEW s \in SS, Check(s) PROVE SInv'
<1>1. PICK y \in Slots : y = Slot(s)
  BY SlotIsSlot DEF Check, Working
<1>2. ca' = ca /\ asked \subseteq asked'
  BY DEF Check, caVars
<1>3. \A x \in Slots \ {y} : sem'[x] = sem[x] /\ reqOf'[x] = reqOf[x]
  BY <1>1 DEF Check, TInv, TypeOK, SlotTypes
<1>4. CASE op[s].kind = "get" /\ ~connected[op[s].ch]
  <2>1. Moves(s, "idle", NoOp)
    BY <1>4 DEF Check, Moves, Goto, Return
  <2>2. Others(s) /\ pc'[s] = "idle"
    BY <2>1, MovesOthers
  <2>3. sem'[y]
    BY <1>1, <1>4 DEF Check, TInv, TypeOK, SlotTypes
  <2> QED BY <1>1, <1>2, <1>3, <2>2, <2>3, KeptAt
<1>5. CASE ~(op[s].kind = "get" /\ ~connected[op[s].ch])
  <2>1. Moves(s, "alloc", op[s])
    BY <1>5 DEF Check, Moves, Goto, Return
  <2>2. Others(s) /\ pc'[s] = "alloc" /\ op'[s] = op[s]
    BY <2>1, MovesOthers
  <2>3. Holds(s)' /\ Slot(s)' = y
    BY <1>1, <2>2, SlotKept DEF Holds
  <2> QED BY <1>1, <1>2, <1>3, <2>2, <2>3, KeptAt
<1> QED BY <1>4, <1>5

LEMMA KeptAlloc == ASSUME TInv, SInv, NEW s \in SS, Alloc(s) PROVE SInv'
<1>1. PICK y \in Slots : y = Slot(s)
  BY SlotIsSlot DEF Alloc, Working
<1>2. PICK rq \in pool : /\ reqOf' = [reqOf EXCEPT ![Slot(s)] = rq]
                         /\ op' = [op EXCEPT ![s].rq = rq]
  BY DEF Alloc
<1>3. Moves(s, "issue", [op[s] EXCEPT !.rq = rq])
  BY <1>2 DEF Alloc, Moves, Goto
<1>4. Others(s) /\ pc'[s] = "issue" /\ op'[s] = [op[s] EXCEPT !.rq = rq]
  BY <1>3, MovesOthers
<1>5. /\ op'[s].kind = op[s].kind /\ op'[s].ch = op[s].ch /\ op'[s].n = op[s].n
      /\ op'[s].rq = rq
  BY <1>4, OpFits DEF TInv, TypeOK, Ops
<1>6. Holds(s)' /\ Slot(s)' = y
  BY <1>1, <1>4, <1>5 DEF Holds, Slot
<1>7. \A x \in Slots \ {y} : sem'[x] = sem[x] /\ reqOf'[x] = reqOf[x]
  BY <1>1, <1>2 DEF Alloc, TInv, TypeOK, SlotTypes
<1>8. reqOf'[Slot(s)'] = op'[s].rq
  BY <1>1, <1>2, <1>5, <1>6 DEF TInv, TypeOK, SlotTypes
<1>9. ca' = ca /\ asked \subseteq asked'
  BY DEF Alloc, caVars
<1> QED BY <1>1, <1>4, <1>6, <1>7, <1>8, <1>9, KeptAt

LEMMA KeptIssue == ASSUME TInv, SInv, NEW s \in SS, Issue(s) PROVE SInv'
<1>1. PICK y \in Slots : y = Slot(s)
  BY SlotIsSlot DEF Issue, Working
<1>2. Moves(s, "wait", op[s]) \/ Moves(s, "idle", NoOp)
  BY DEF Issue, Moves, Goto, Return
<1>3. Others(s) /\ pc'[s] # "issue"
  BY <1>2, MovesOthers
<1>4. ca' = ca /\ sem' = sem /\ reqOf' = reqOf
  BY DEF Issue
<1>5. asked' = asked \cup {[rq |-> reqOf[y], slot |-> y]}
  BY <1>1 DEF Issue, SInv, IssueAt
<1>6. OnItsWay(y)'
  BY <1>4, <1>5 DEF OnItsWay
<1> QED BY <1>1, <1>3, <1>4, <1>5, <1>6, KeptAt

\* The calls that change no slot.
LEMMA KeptSilent ==
  ASSUME TInv, SInv, NEW s \in SS,
         \/ TakeFails(s) \/ WaitTimesOut(s) \/ WhenWakes(s) \/ PollNothingPending(s)
         \/ PollPending(s) \/ PollReturns(s) \/ Calls(s)
  PROVE  SInv'
<1>1. UNCHANGED <<sem, reqOf, asked, ca>>
  BY ZenonT(60) DEF TakeFails, WaitTimesOut, WhenWakes, PollNothingPending, PollPending, PollReturns,
     Calls, Call, Poll, EnterWhen, caVars
<1>2. ~Holds(s)
  BY ZenonT(60) DEF TakeFails, WaitTimesOut, WhenWakes, PollNothingPending, PollPending, PollReturns,
     PollsElement, Returns, Calls, Call, Poll, EnterWhen, Holds
<1>3. /\ pc'[s] # "issue"
      /\ \A t \in SS \ {s} : pc'[t] = pc[t]
  BY DEF TakeFails, WaitTimesOut, WhenWakes, PollNothingPending, PollPending, PollReturns,
     PollsElement, Returns, Calls, Call, Poll, EnterWhen, Goto, Return, TInv, TypeOK, CallTypes
<1>4. \A t \in SS \ {s} : op'[t] = op[t]
  BY ZenonT(60) DEF TakeFails, WaitTimesOut, WhenWakes, PollNothingPending, PollPending, PollReturns,
     Calls, Call, Poll, EnterWhen, Goto, Return, TInv, TypeOK, CallTypes
<1> QED BY <1>1, <1>2, <1>3, <1>4, KeptQuiet DEF Others

\* An answer is taken out of asked into the callback, and the callback drops it
\* only if nobody waits for it.
LEMMA KeptCallback ==
  ASSUME TInv, SInv,
         \/ Callback
         \/ \E a \in asked : Answer(a)
         \/ \E c \in Channels : Disconnect(c) \/ Reconnect(c)
  PROVE  SInv'
<1>1. pc' = pc /\ op' = op /\ reqOf' = reqOf
  BY DEF Callback, Compare, WriteBuffer, SignalCompletion, Wake, Release, WakeAll,
         Answer, Disconnect, Reconnect, ssVars
<1>2. IssueAt'
  BY <1>1 DEF SInv, IssueAt, Slot
<1>3. ASSUME NEW x \in Slots, ~sem'[x]
      PROVE  (Holds(x[1]) /\ Slot(x[1]) = x)' \/ OnItsWay(x)'
  <2>1. ~sem[x]
    BY <1>3 DEF Callback, Compare, WriteBuffer, SignalCompletion, Wake, Release, WakeAll,
           Answer, Disconnect, Reconnect, TInv, TypeOK, SlotTypes, CallbackTypes
  <2>2. CASE Holds(x[1]) /\ Slot(x[1]) = x
    BY <1>1, <2>2 DEF Holds, Slot
  <2>3. CASE OnItsWay(x)
    <3>1. ASSUME NEW a \in asked, Answer(a) PROVE OnItsWay(x)'
      BY <1>1, <2>3, <3>1 DEF Answer, OnItsWay, Doing
    <3>2. CASE Compare
      BY <1>1, <2>3, <3>2 DEF Compare, OnItsWay, TInv, TypeOK, CallbackTypes
    <3>3. CASE WriteBuffer
      BY <1>1, <2>3, <3>3 DEF WriteBuffer, OnItsWay, After, TInv, TypeOK, CallbackTypes
    <3>4. CASE SignalCompletion
      BY <1>1, <1>3, <2>3, <3>4 DEF SignalCompletion, OnItsWay, TInv, TypeOK, SlotTypes
    <3>5. CASE Wake \/ Release \/ WakeAll
      BY <1>1, <2>3, <3>5 DEF Wake, Release, WakeAll, OnItsWay
    <3>6. ASSUME NEW c \in Channels, Disconnect(c) \/ Reconnect(c) PROVE OnItsWay(x)'
      BY <1>1, <2>3, <3>6 DEF Disconnect, Reconnect, OnItsWay
    <3> QED BY <3>1, <3>2, <3>3, <3>4, <3>5, <3>6 DEF Callback
  <2> QED BY <2>1, <2>2, <2>3 DEF SInv, SemaphoreKept
<1> QED BY <1>2, <1>3 DEF SInv, SemaphoreKept

LEMMA KeptStep ==
  ASSUME Polled \subseteq {1}
  PROVE  TInv /\ SInv /\ [Next]_vars => SInv'
<1> SUFFICES ASSUME TInv, SInv, [Next]_vars PROVE SInv'
  OBVIOUS
<1>1. CASE UNCHANGED vars
  BY <1>1 DEF vars, SInv, SemaphoreKept, IssueAt, OnItsWay, Holds, Slot
<1>2. ASSUME NEW s \in SS, Calls(s) \/ StateSet(s) PROVE SInv'
  BY <1>2, KeptSilent, KeptTake, KeptClear, KeptCheck, KeptAlloc, KeptIssue, KeptIssueFails,
     KeptWaitOK, KeptFinish, KeptPollTakes, KeptPollFinish DEF StateSet
<1> QED BY <1>1, <1>2, KeptCallback DEF Next

\* If pvPutComplete is asked about one element at a time, no semaphore is ever
\* lost: an empty one is held by a call, or the answer that fills it is coming.
THEOREM NoSemaphoreLost ==
  ASSUME Polled \subseteq {1}
  PROVE  Spec => []SemaphoreKept
<1>1. Init => SInv
  BY DEF Init, SInv, SemaphoreKept, IssueAt
<1>2. SInv => SemaphoreKept
  BY DEF SInv
<1> QED BY <1>1, <1>2, TypeInit, TypeStep, KeptStep, PTL DEF Spec

----------------------------------------------------------------------------
\* The request a state set is about to issue or waits for is its own.
Own(x) == pc[x[1]] \in {"issue", "wait", "finish"} /\ Slot(x[1]) = x

\* Calls of pvGet and pvPut are SYNC or ASYNC, and past its clearing an ASYNC one
\* finds nothing.
Found(s) ==
  /\ pc[s] \in {"take", "clear", "check", "alloc", "issue"} => op[s].how \in {"sync", "async"}
  /\ pc[s] \in {"check", "alloc"} /\ op[s].how = "async" => reqOf[Slot(s)] = NoReq

Fresh ==
  /\ \A x \in Slots : reqOf[x] # NoReq => left[x] \/ Own(x)
  /\ \A s \in SS : Found(s)

\* A state set that works on one slot disturbs no other.
LEMMA FreshAt ==
  ASSUME TInv, Fresh, NEW s \in SS, Others(s), NEW y \in Slots, y[1] = s,
         pc[s] \in {"issue", "wait", "finish"} => Slot(s) = y,
         \A x \in Slots \ {y} : reqOf'[x] = reqOf[x] /\ left'[x] = left[x],
         reqOf'[y] # NoReq => left'[y] \/ Own(y)',
         Found(s)'
  PROVE  Fresh'
<1>1. ASSUME NEW t \in SS, t # s PROVE Found(t)'
  <2>1. pc'[t] = pc[t] /\ op'[t] = op[t] /\ Slot(t)' = Slot(t) /\ Found(t)
    BY <1>1, SlotKept DEF Others, Fresh
  <2>2. CASE pc[t] \in {"check", "alloc"}
    <3>1. Slot(t) \in Slots \ {y}
      BY <1>1, <2>2, SlotIsSlot, SlotKept DEF Working
    <3> QED BY <2>1, <3>1 DEF Found
  <2>3. CASE pc[t] \notin {"check", "alloc"}
    BY <2>1, <2>3 DEF Found
  <2> QED BY <2>2, <2>3
<1>2. ASSUME NEW x \in Slots, x # y, reqOf'[x] # NoReq PROVE left'[x] \/ Own(x)'
  <2>1. left[x] \/ Own(x)
    BY <1>2 DEF Fresh
  <2>2. CASE x[1] = s
    BY <1>2, <2>1, <2>2 DEF Own
  <2>3. CASE x[1] # s
    <3>1. x[1] \in SS
      BY DEF Slots
    <3>2. Own(x) => Own(x)'
      BY <2>3, <3>1, SlotKept DEF Own, Others
    <3> QED BY <1>2, <2>1, <3>2
  <2> QED BY <2>2, <2>3
<1> QED BY <1>1, <1>2 DEF Fresh

\* A state set that touches no slot.
LEMMA FreshQuiet ==
  ASSUME TInv, Fresh, NEW s \in SS, Others(s), reqOf' = reqOf, left' = left,
         pc[s] \in {"issue", "wait", "finish"} =>
           pc'[s] \in {"issue", "wait", "finish"} /\ Slot(s)' = Slot(s),
         Found(s)'
  PROVE  Fresh'
<1>1. ASSUME NEW t \in SS, t # s PROVE Found(t)'
  BY <1>1, SlotKept DEF Others, Fresh, Found
<1>2. ASSUME NEW x \in Slots, reqOf'[x] # NoReq PROVE left'[x] \/ Own(x)'
  <2>1. left[x] \/ Own(x)
    BY <1>2 DEF Fresh
  <2>2. x[1] \in SS
    BY DEF Slots
  <2>3. Own(x) => Own(x)'
    BY <2>2, SlotKept DEF Own, Others
  <2> QED BY <2>1, <2>3
<1> QED BY <1>1, <1>2 DEF Fresh

LEMMA FreshCalls ==
  ASSUME TInv, Fresh, NEW s \in SS, Calls(s) PROVE Fresh'
<1>1. PICK k \in Kinds, c \in Channels :
        \/ \E how \in {"sync", "async"} : Call(s, k, c, how)
        \/ \E len \in IF k = "put" THEN Polled ELSE {1} :
             Poll(s, k, c, len) \/ EnterWhen(s, k, c, len)
  BY DEF Calls
<1>2. reqOf' = reqOf /\ left' = left /\ pc[s] = "idle" /\ Others(s)
  BY <1>1 DEF Call, Poll, EnterWhen, Goto, Others, TInv, TypeOK, CallTypes
<1>3. CASE \E how \in {"sync", "async"} : Call(s, k, c, how)
  <2>1. PICK how \in {"sync", "async"} : Call(s, k, c, how)
    BY <1>3
  <2>2. pc'[s] = "take" /\ op'[s].how = how
    BY <2>1 DEF Call, Goto, Op, TInv, TypeOK, CallTypes
  <2> QED BY <1>2, <2>2, FreshQuiet DEF Found
<1>4. CASE ~\E how \in {"sync", "async"} : Call(s, k, c, how)
  <2>1. pc'[s] \in {"poll", "when"}
    BY <1>1, <1>4 DEF Poll, EnterWhen, Goto, TInv, TypeOK, CallTypes
  <2> QED BY <1>2, <2>1, FreshQuiet DEF Found
<1> QED BY <1>3, <1>4

\* The steps of a state set on the slot of its call.
LEMMA FreshSlot ==
  ASSUME TInv, Fresh, NEW s \in SS, Others(s),
         Clear(s) \/ Alloc(s) \/ Issue(s) \/ IssueFails(s) \/ Finish(s) \/ PollFinish(s)
  PROVE  Fresh'
<1> DEFINE z == IF PollFinish(s) THEN ReqSlot(s) ELSE Slot(s)
<1>1. PICK y \in Slots : y = z
  BY SlotIsSlot DEF Clear, Alloc, Issue, IssueFails, Finish, PollFinish, Working
<1>2. y[1] = s
  BY <1>1 DEF Slot, ReqSlot
<1>3. CASE PollFinish(s)
  <2>1. /\ \A x \in Slots \ {y} : reqOf'[x] = reqOf[x] /\ left'[x] = left[x]
        /\ reqOf'[y] = NoReq /\ pc[s] = "pollFinish" /\ pc'[s] = "poll"
    BY <1>1, <1>3 DEF PollFinish, Goto, TInv, TypeOK, SlotTypes, CallTypes
  <2> QED BY <1>2, <2>1, FreshAt DEF Found
<1>4. CASE ~PollFinish(s)
  <2>1. y = Slot(s)
    BY <1>1, <1>4
  <2>2. \A x \in Slots \ {y} : reqOf'[x] = reqOf[x] /\ left'[x] = left[x]
    BY <1>4, <2>1 DEF Clear, Alloc, Issue, IssueFails, Finish, TInv, TypeOK, SlotTypes
  <2>3. CASE Clear(s)
    <3>1. Moves(s, "check", op[s])
      BY <2>3 DEF Clear, Goto, Moves
    <3>2. pc'[s] = "check" /\ op'[s] = op[s] /\ pc[s] = "clear"
      BY <2>3, <3>1, MovesOthers DEF Clear
    <3>3. reqOf'[y] = NoReq /\ Slot(s)' = y
      BY <2>1, <2>3, <3>2 DEF Clear, Slot, TInv, TypeOK, SlotTypes
    <3>4. Found(s)'
      BY <3>2, <3>3 DEF Fresh, Found
    <3> QED BY <1>2, <2>2, <3>2, <3>3, <3>4, FreshAt
  <2>4. CASE Alloc(s)
    <3>1. PICK rq \in pool : op' = [op EXCEPT ![s].rq = rq]
      BY <2>4 DEF Alloc
    <3>2. op[s] \in Ops /\ pc[s] = "alloc"
      BY <2>4, OpFits DEF Alloc, TInv, TypeOK
    <3>3. op'[s].kind = op[s].kind /\ op'[s].ch = op[s].ch /\ op'[s].n = op[s].n
          /\ op'[s].how = op[s].how
      BY <3>1, <3>2 DEF Ops, TInv, TypeOK, CallTypes
    <3>4. pc'[s] = "issue" /\ Slot(s)' = y
      BY <2>1, <2>4, <3>3 DEF Alloc, Goto, Slot, TInv, TypeOK, CallTypes
    <3>5. Own(y)'
      BY <1>2, <3>4 DEF Own
    <3>6. Found(s)'
      BY <3>2, <3>3, <3>4 DEF Fresh, Found
    <3> QED BY <1>2, <2>2, <3>2, <3>5, <3>6, FreshAt
  <2>5. CASE Issue(s)
    <3>1. pc[s] = "issue" /\ op[s].how \in {"sync", "async"}
      BY <2>5 DEF Issue, Fresh, Found
    <3>2. left'[y] = (op[s].how = "async") /\ reqOf' = reqOf
      BY <2>1, <2>5 DEF Issue, TInv, TypeOK, SlotTypes
    <3>3. CASE op[s].how = "sync"
      <4>1. pc'[s] = "wait" /\ op' = op
        BY <2>5, <3>3 DEF Issue, Goto, TInv, TypeOK, CallTypes
      <4>2. Own(y)' /\ Found(s)'
        BY <1>2, <2>1, <4>1 DEF Own, Slot, Found
      <4> QED BY <1>2, <2>1, <2>2, <4>2, FreshAt
    <3>4. CASE op[s].how = "async"
      <4>1. pc'[s] = "idle"
        BY <2>5, <3>4 DEF Issue, Goto, Return, TInv, TypeOK, CallTypes
      <4>2. left'[y] /\ Found(s)'
        BY <3>2, <3>4, <4>1 DEF Found
      <4> QED BY <1>2, <2>1, <2>2, <4>2, FreshAt
    <3> QED BY <3>1, <3>3, <3>4
  <2>6. CASE IssueFails(s) \/ Finish(s)
    <3>1. reqOf'[y] = NoReq /\ pc'[s] = "idle"
      BY <2>1, <2>6 DEF IssueFails, Finish, Return, Goto, TInv, TypeOK, SlotTypes, CallTypes
    <3>2. Found(s)'
      BY <3>1 DEF Found
    <3> QED BY <1>2, <2>1, <2>2, <3>1, <3>2, FreshAt
  <2> QED BY <1>4, <2>3, <2>4, <2>5, <2>6
<1> QED BY <1>3, <1>4

LEMMA FreshStep == TInv /\ Fresh /\ [Next]_vars => Fresh'
<1> SUFFICES ASSUME TInv, Fresh, [Next]_vars PROVE Fresh'
  OBVIOUS
<1>1. CASE UNCHANGED vars
  BY <1>1 DEF vars, Fresh, Found, Own, Slot
<1>2. ASSUME NEW s \in SS, Calls(s) PROVE Fresh'
  BY <1>2, FreshCalls
<1>3. ASSUME NEW s \in SS, StateSet(s) PROVE Fresh'
  <2>1. Others(s)
    BY <1>3 DEF StateSet, Take, TakeFails, Clear, Check, Alloc, Issue, IssueFails, WaitOK,
       WaitTimesOut, Finish, WhenWakes, PollNothingPending, PollTakes, PollPending,
       PollFinish, PollReturns, Goto, Return, Others, TInv, TypeOK, CallTypes
  <2>2. CASE Clear(s) \/ Alloc(s) \/ Issue(s) \/ IssueFails(s) \/ Finish(s) \/ PollFinish(s)
    BY <2>1, <2>2, FreshSlot
  <2>3. CASE Take(s)
    <3>1. Moves(s, IF op[s].how = "async" THEN "clear" ELSE "check", op[s])
      BY <2>3 DEF Take, Goto, Moves
    <3>2. pc'[s] = (IF op[s].how = "async" THEN "clear" ELSE "check") /\ op'[s] = op[s]
      BY <3>1, MovesOthers
    <3>3. pc[s] = "take" /\ reqOf' = reqOf /\ left' = left
      BY <2>3 DEF Take
    <3>4. Found(s)'
      BY <3>2, <3>3 DEF Fresh, Found
    <3> QED BY <2>1, <3>3, <3>4, FreshQuiet
  <2>4. CASE Check(s)
    <3>1. Moves(s, "idle", NoOp) \/ Moves(s, "alloc", op[s])
      BY <2>4 DEF Check, Goto, Return, Moves
    <3>2. pc'[s] = "idle" \/ (pc'[s] = "alloc" /\ op'[s] = op[s])
      BY <3>1, MovesOthers
    <3>3. reqOf' = reqOf /\ left' = left /\ pc[s] = "check"
      BY <2>4 DEF Check
    <3>4. Found(s)'
      BY <2>1, <3>2, <3>3, SlotKept DEF Fresh, Found, Slot
    <3> QED BY <2>1, <3>3, <3>4, FreshQuiet
  <2>5. CASE WaitOK(s) \/ WaitTimesOut(s)
    <3>1. pc[s] = "wait" /\ pc'[s] = "finish" /\ reqOf' = reqOf /\ left' = left
      BY <2>5 DEF WaitOK, WaitTimesOut, Goto, TInv, TypeOK, CallTypes
    <3>2. op[s] \in Ops
      BY OpFits DEF TInv, TypeOK
    <3>3. Slot(s)' = Slot(s)
      BY <2>5, <3>2 DEF WaitOK, WaitTimesOut, Slot, Ops, TInv, TypeOK, CallTypes
    <3>4. Found(s)'
      BY <3>1 DEF Found
    <3> QED BY <2>1, <3>1, <3>3, <3>4, FreshQuiet
  <2>6. CASE TakeFails(s) \/ WhenWakes(s) \/ PollNothingPending(s) \/ PollTakes(s)
               \/ PollPending(s) \/ PollReturns(s)
    <3>1. /\ pc[s] \notin {"issue", "wait", "finish"} /\ reqOf' = reqOf /\ left' = left
          /\ pc'[s] \in {"idle", "poll", "pollFinish", "when"}
      BY <2>6 DEF TakeFails, WhenWakes, PollNothingPending, PollTakes, PollPending,
         PollReturns, PollsElement, Returns, Goto, Return, TInv, TypeOK, CallTypes
    <3>2. Found(s)'
      BY <3>1 DEF Found
    <3> QED BY <2>1, <3>1, <3>2, FreshQuiet
  <2> QED BY <1>3, <2>2, <2>3, <2>4, <2>5, <2>6 DEF StateSet
<1>4. CASE Callback \/ (\E a \in asked : Answer(a))
             \/ (\E c \in Channels : Disconnect(c) \/ Reconnect(c))
  <2>1. pc' = pc /\ op' = op /\ reqOf' = reqOf /\ left' = left
    BY <1>4 DEF Callback, Compare, WriteBuffer, SignalCompletion, Wake, Release, WakeAll,
           Answer, Disconnect, Reconnect, ssVars
  <2> QED BY <2>1 DEF Fresh, Found, Own, Slot
<1> QED BY <1>1, <1>2, <1>3, <1>4 DEF Next

\* Whoever takes the semaphore for a pvGet or pvPut finds no request, unless it is
\* a SYNC call over an ASYNC one nobody asked about: nothing else in the program
\* makes the assertion of the code fail, and an ASYNC call never does.
THEOREM NothingElseFound == Spec => []OnlyLeftFound
<1>1. Init => Fresh
  BY DEF Init, Fresh, Found
<1>2. TInv /\ Fresh => OnlyLeftFound
  <2> SUFFICES ASSUME TInv, Fresh, NEW s \in SS, pc[s] = "alloc", reqOf[Slot(s)] # NoReq
               PROVE  op[s].how = "sync" /\ left[Slot(s)]
    BY DEF OnlyLeftFound
  <2>1. Slot(s) \in Slots /\ Slot(s)[1] = s
    BY SlotIsSlot, SlotKept DEF Working
  <2> QED BY <2>1 DEF Fresh, Found, Own
<1> QED BY <1>1, <1>2, TypeInit, TypeStep, FreshStep, PTL DEF Spec

----------------------------------------------------------------------------
\* A request that must be answered keeps its semaphore empty and its pointer set,
\* and the answer has not been written yet.
Pending(x) ==
  ~Complete(x) => /\ ~sem[x] /\ reqOf[x] # NoReq
                  /\ ~(ca.at = "signal" /\ ca.slot = x)

\* A request about to be issued can be confused with no older one.
Taken(s) == pc[s] \in {"clear", "check", "alloc", "issue"}
Early(s) ==
  Taken(s) => /\ ~open[Slot(s)]
              /\ excused[Slot(s)] \/ (~sem[Slot(s)] /\ ~Late(Slot(s)))

\* Who has got the semaphore back, or has given up, waits for nothing.
Done(s) == pc[s] \in {"finish", "pollFinish"} => Complete(Slot(s))

\* What a poll has looked at and found done is complete.
Seen(s) ==
  pc[s] \in {"poll", "pollFinish"} /\ op[s].done =>
    \A m \in 0..op[s].n - 1 : Complete(<<s, op[s].kind, op[s].ch + m>>)

CInv ==
  /\ SInv
  /\ \A x \in Slots : Pending(x)
  /\ \A s \in SS : Early(s) /\ Done(s) /\ Seen(s)

\* The elements a poll has looked at are slots of its state set.
LEMMA SeenSlots ==
  ASSUME TInv, NEW s \in SS, pc[s] \in {"poll", "pollFinish"}, NEW m \in 0..op[s].n - 1
  PROVE  <<s, op[s].kind, op[s].ch + m>> \in Slots
<1>1. op[s].kind \in Kinds
  BY DEF TInv, InPlace, Place
<1>2. op[s].ch + m \in Channels
  BY OpFits, Numbers DEF TInv, TypeOK
<1> QED BY <1>1, <1>2 DEF Slots

\* Whatever a state set does to its own slots is nothing to the others.
LEMMA TrueOthers ==
  ASSUME TInv, CInv, NEW s \in SS, Others(s), ca' = ca, NEW t \in SS, t # s,
         \A x \in Slots : x[1] # s => /\ sem'[x] = sem[x]
                                      /\ open'[x] = open[x] /\ excused'[x] = excused[x],
         \A a \in asked' : a \in asked \/ a.slot[1] = s
  PROVE  Early(t)' /\ Done(t)' /\ Seen(t)'
<1>1. pc'[t] = pc[t] /\ op'[t] = op[t] /\ Slot(t)' = Slot(t) /\ Slot(t)[1] = t
  BY SlotKept DEF Others
<1>2. \A x \in Slots : x[1] = t => /\ sem'[x] = sem[x] /\ open'[x] = open[x]
                                   /\ excused'[x] = excused[x]
                                   /\ (Late(x)' => Late(x))
  BY DEF Late
<1>3. Early(t)'
  <2>1. SUFFICES ASSUME Taken(t) PROVE Early(t)'
    BY <1>1 DEF Early, Taken
  <2>2. Slot(t) \in Slots
    BY <2>1, SlotIsSlot DEF Taken, Working
  <2>3. PICK y \in Slots : y = Slot(t)
    BY <2>2
  <2>4. ~open[y] /\ (excused[y] \/ (~sem[y] /\ ~Late(y)))
    BY <2>1, <2>3 DEF CInv, Early
  <2>5. ~open'[y] /\ (excused'[y] \/ (~sem'[y] /\ ~Late(y)'))
    BY <1>1, <1>2, <2>3, <2>4
  <2>6. Late(Slot(t))' <=> Late(y)'
    BY <1>1, <2>3 DEF Late
  <2> QED BY <1>1, <2>3, <2>5, <2>6 DEF Early
<1>4. Done(t)'
  <2>1. SUFFICES ASSUME pc[t] \in {"finish", "pollFinish"} PROVE Complete(Slot(t))'
    BY <1>1 DEF Done
  <2>2. Slot(t) \in Slots
    BY <2>1, SlotIsSlot DEF Working
  <2> QED BY <1>1, <1>2, <2>1, <2>2 DEF CInv, Done, Complete
<1>5. Seen(t)'
  <2>1. SUFFICES ASSUME pc[t] \in {"poll", "pollFinish"}, op[t].done,
                        NEW m \in 0..op[t].n - 1
                 PROVE  Complete(<<t, op[t].kind, op[t].ch + m>>)'
    BY <1>1 DEF Seen, Complete
  <2>2. PICK y \in Slots : y = <<t, op[t].kind, op[t].ch + m>>
    BY <2>1, SeenSlots
  <2>3. y[1] = t
    BY <2>2
  <2>4. Complete(y)
    BY <2>1, <2>2 DEF CInv, Seen
  <2>5. open'[y] = open[y] /\ excused'[y] = excused[y]
    BY <1>2, <2>3
  <2> QED BY <1>1, <2>2, <2>4, <2>5 DEF Complete
<1> QED BY <1>3, <1>4, <1>5

\* A state set that works on one slot keeps the truth about it.
LEMMA TrueAt ==
  ASSUME TInv, CInv, SInv', NEW s \in SS, Others(s), NEW y \in Slots, y = Slot(s), ca' = ca,
         \A x \in Slots \ {y} : /\ sem'[x] = sem[x] /\ reqOf'[x] = reqOf[x]
                                /\ open'[x] = open[x] /\ excused'[x] = excused[x],
         \A a \in asked' : a \in asked \/ a.slot = y,
         Pending(y)', Early(s)', Done(s)', Seen(s)'
  PROVE  CInv'
<1>1. y[1] = s
  BY SlotKept
<1>2. \A t \in SS : Early(t)' /\ Done(t)' /\ Seen(t)'
  BY <1>1, TrueOthers
<1>3. ASSUME NEW x \in Slots, x # y PROVE Pending(x)'
  BY <1>3 DEF CInv, Pending, Complete
<1> QED BY <1>2, <1>3 DEF CInv

\* A state set that changes no slot.
LEMMA TrueQuiet ==
  ASSUME TInv, CInv, SInv', NEW s \in SS, Others(s), pc'[s] \in {"idle", "take", "poll", "when"},
         UNCHANGED <<sem, reqOf, open, excused, asked, ca>>, Seen(s)'
  PROVE  CInv'
<1>1. \A t \in SS \ {s} : Early(t)' /\ Done(t)' /\ Seen(t)'
  BY TrueOthers
<1>2. Early(s)' /\ Done(s)'
  BY DEF Early, Taken, Done
<1>3. ASSUME NEW x \in Slots PROVE Pending(x)'
  BY DEF CInv, Pending, Complete
<1> QED BY <1>1, <1>2, <1>3 DEF CInv

LEMMA TrueTake ==
  ASSUME TInv, CInv, SInv', NEW s \in SS, Take(s) PROVE CInv'
<1>1. PICK y \in Slots : y = Slot(s)
  BY SlotIsSlot DEF Take, Working
<1>2. Moves(s, IF op[s].how = "async" THEN "clear" ELSE "check", op[s])
  BY DEF Take, Moves, Goto, Return
<1>3. /\ Others(s) /\ pc'[s] = (IF op[s].how = "async" THEN "clear" ELSE "check") /\ op'[s] = op[s]
      /\ ca' = ca /\ (\A a \in asked' : a \in asked \/ a.slot = y)
  BY <1>2, MovesOthers DEF Take, caVars
<1>4. \A x \in Slots \ {y} : /\ sem'[x] = sem[x] /\ reqOf'[x] = reqOf[x]
                               /\ open'[x] = open[x] /\ excused'[x] = excused[x]
  BY <1>1 DEF Take, TInv, TypeOK, SlotTypes
<1>l. /\ Slot(s)' = y /\ ~open'[y] /\ ~sem'[y] /\ (excused'[y] <=> Late(y))
      /\ (Late(y)' <=> Late(y))
  BY <1>1, <1>3, SlotKept DEF Take, Late, caVars, TInv, TypeOK, SlotTypes
<1>5. Pending(y)'
  BY <1>l DEF Pending, Complete
<1>6. Early(s)' /\ Done(s)'
  BY <1>1, <1>3, <1>l DEF Early, Done, Late
<1>7. Seen(s)'
  BY <1>3 DEF Seen
<1> QED BY <1>1, <1>3, <1>4, <1>5, <1>6, <1>7, TrueAt

LEMMA TrueClear ==
  ASSUME TInv, CInv, SInv', NEW s \in SS, Clear(s) PROVE CInv'
<1>1. PICK y \in Slots : y = Slot(s)
  BY SlotIsSlot DEF Clear, Working
<1>2. Moves(s, "check", op[s])
  BY DEF Clear, Moves, Goto, Return
<1>3. /\ Others(s) /\ pc'[s] = "check" /\ op'[s] = op[s]
      /\ ca' = ca /\ (\A a \in asked' : a \in asked \/ a.slot = y)
  BY <1>2, MovesOthers DEF Clear, caVars
<1>4. \A x \in Slots \ {y} : /\ sem'[x] = sem[x] /\ reqOf'[x] = reqOf[x]
                               /\ open'[x] = open[x] /\ excused'[x] = excused[x]
  BY <1>1 DEF Clear, TInv, TypeOK, SlotTypes
<1>l. /\ Slot(s)' = y /\ ~open'[y] /\ (excused'[y] \/ (~sem'[y] /\ ~Late(y)))
      /\ (Late(y)' <=> Late(y))
  BY <1>1, <1>3, SlotKept DEF Clear, Late, caVars, CInv, Early, Taken
<1>5. Pending(y)'
  BY <1>l DEF Pending, Complete
<1>6. Early(s)' /\ Done(s)'
  BY <1>1, <1>3, <1>l DEF Early, Done, Late
<1>7. Seen(s)'
  BY <1>3 DEF Seen
<1> QED BY <1>1, <1>3, <1>4, <1>5, <1>6, <1>7, TrueAt

LEMMA TrueIssueFails ==
  ASSUME TInv, CInv, SInv', NEW s \in SS, IssueFails(s) PROVE CInv'
<1>1. PICK y \in Slots : y = Slot(s)
  BY SlotIsSlot DEF IssueFails, Working
<1>2. Moves(s, "idle", NoOp)
  BY DEF IssueFails, Moves, Goto, Return
<1>3. /\ Others(s) /\ pc'[s] = "idle" /\ op'[s] = NoOp
      /\ ca' = ca /\ (\A a \in asked' : a \in asked \/ a.slot = y)
  BY <1>2, MovesOthers DEF IssueFails, caVars
<1>4. \A x \in Slots \ {y} : /\ sem'[x] = sem[x] /\ reqOf'[x] = reqOf[x]
                               /\ open'[x] = open[x] /\ excused'[x] = excused[x]
  BY <1>1 DEF IssueFails, TInv, TypeOK, SlotTypes
<1>5. Pending(y)'
  BY <1>1 DEF IssueFails, CInv, Early, Taken, Pending, Complete
<1>6. Early(s)' /\ Done(s)'
  BY <1>3 DEF Early, Taken, Done
<1>7. Seen(s)'
  BY <1>3 DEF Seen
<1> QED BY <1>1, <1>3, <1>4, <1>5, <1>6, <1>7, TrueAt

LEMMA TrueWaitOK ==
  ASSUME TInv, CInv, SInv', NEW s \in SS, WaitOK(s) PROVE CInv'
<1>1. PICK y \in Slots : y = Slot(s)
  BY SlotIsSlot DEF WaitOK, Working
<1>2. Moves(s, "finish", [op[s] EXCEPT !.done = TRUE])
  BY DEF WaitOK, Moves, Goto, Return
<1>3. /\ Others(s) /\ pc'[s] = "finish" /\ op'[s] = [op[s] EXCEPT !.done = TRUE]
      /\ ca' = ca /\ (\A a \in asked' : a \in asked \/ a.slot = y)
  BY <1>2, MovesOthers DEF WaitOK, caVars
<1>4. \A x \in Slots \ {y} : /\ sem'[x] = sem[x] /\ reqOf'[x] = reqOf[x]
                               /\ open'[x] = open[x] /\ excused'[x] = excused[x]
  BY <1>1 DEF WaitOK, TInv, TypeOK, SlotTypes
<1>l. Slot(s)' = y
  <2>1. op'[s].kind = op[s].kind /\ op'[s].ch = op[s].ch /\ op'[s].n = op[s].n
    BY <1>3, OpFits DEF TInv, TypeOK, Ops
  <2> QED BY <1>1, <2>1 DEF Slot
<1>m. ~open'[y] \/ excused'[y]
  BY <1>1 DEF WaitOK, CInv, Pending, Complete
<1>5. Pending(y)'
  BY <1>m DEF Pending, Complete
<1>6. Early(s)' /\ Done(s)'
  BY <1>3, <1>l, <1>m DEF Early, Taken, Done, Complete
<1>7. Seen(s)'
  BY <1>3 DEF Seen
<1> QED BY <1>1, <1>3, <1>4, <1>5, <1>6, <1>7, TrueAt

LEMMA TrueWaitTimesOut ==
  ASSUME TInv, CInv, SInv', NEW s \in SS, WaitTimesOut(s) PROVE CInv'
<1>1. PICK y \in Slots : y = Slot(s)
  BY SlotIsSlot DEF WaitTimesOut, Working
<1>2. Moves(s, "finish", op[s])
  BY DEF WaitTimesOut, Moves, Goto, Return
<1>3. /\ Others(s) /\ pc'[s] = "finish" /\ op'[s] = op[s]
      /\ ca' = ca /\ (\A a \in asked' : a \in asked \/ a.slot = y)
  BY <1>2, MovesOthers DEF WaitTimesOut, caVars
<1>4. \A x \in Slots \ {y} : /\ sem'[x] = sem[x] /\ reqOf'[x] = reqOf[x]
                               /\ open'[x] = open[x] /\ excused'[x] = excused[x]
  BY <1>1 DEF WaitTimesOut, TInv, TypeOK, SlotTypes
<1>l. Slot(s)' = y /\ ~open'[y]
  BY <1>1, <1>3, SlotKept DEF WaitTimesOut, TInv, TypeOK, SlotTypes
<1>5. Pending(y)'
  BY <1>l DEF Pending, Complete
<1>6. Early(s)' /\ Done(s)'
  BY <1>3, <1>l DEF Early, Taken, Done, Complete
<1>7. Seen(s)'
  BY <1>3 DEF Seen
<1> QED BY <1>1, <1>3, <1>4, <1>5, <1>6, <1>7, TrueAt

LEMMA TrueFinish ==
  ASSUME TInv, CInv, SInv', NEW s \in SS, Finish(s) PROVE CInv'
<1>1. PICK y \in Slots : y = Slot(s)
  BY SlotIsSlot DEF Finish, Working
<1>2. Moves(s, "idle", NoOp)
  BY DEF Finish, Moves, Goto, Return
<1>3. /\ Others(s) /\ pc'[s] = "idle" /\ op'[s] = NoOp
      /\ ca' = ca /\ (\A a \in asked' : a \in asked \/ a.slot = y)
  BY <1>2, MovesOthers DEF Finish, caVars
<1>4. \A x \in Slots \ {y} : /\ sem'[x] = sem[x] /\ reqOf'[x] = reqOf[x]
                               /\ open'[x] = open[x] /\ excused'[x] = excused[x]
  BY <1>1 DEF Finish, TInv, TypeOK, SlotTypes
<1>5. Pending(y)'
  BY <1>1 DEF Finish, CInv, Done, Pending, Complete
<1>6. Early(s)' /\ Done(s)'
  BY <1>3 DEF Early, Taken, Done
<1>7. Seen(s)'
  BY <1>3 DEF Seen
<1> QED BY <1>1, <1>3, <1>4, <1>5, <1>6, <1>7, TrueAt

LEMMA TruePollTakes ==
  ASSUME TInv, CInv, SInv', NEW s \in SS, PollTakes(s) PROVE CInv'
<1>1. PICK y \in Slots : y = Slot(s)
  BY SlotIsSlot DEF PollTakes, Working
<1>2. Moves(s, "pollFinish", op[s])
  BY DEF PollTakes, Moves, Goto, Return
<1>3. /\ Others(s) /\ pc'[s] = "pollFinish" /\ op'[s] = op[s]
      /\ ca' = ca /\ (\A a \in asked' : a \in asked \/ a.slot = y)
  BY <1>2, MovesOthers DEF PollTakes, caVars
<1>4. \A x \in Slots \ {y} : /\ sem'[x] = sem[x] /\ reqOf'[x] = reqOf[x]
                               /\ open'[x] = open[x] /\ excused'[x] = excused[x]
  BY <1>1 DEF PollTakes, TInv, TypeOK, SlotTypes
<1>l. Slot(s)' = y
  BY <1>1, <1>3, SlotKept
<1>m. ~open'[y] \/ excused'[y]
  BY <1>1 DEF PollTakes, CInv, Pending, Complete
<1>5. Pending(y)'
  BY <1>m DEF Pending, Complete
<1>6. Early(s)' /\ Done(s)'
  BY <1>3, <1>l, <1>m DEF Early, Taken, Done, Complete
<1>7. Seen(s)'
  BY <1>3 DEF PollTakes, PollsElement, Seen, CInv, Complete
<1> QED BY <1>1, <1>3, <1>4, <1>5, <1>6, <1>7, TrueAt

\* A poll of one element looks at the element whose request it reads.
LEMMA OneElement ==
  ASSUME Polled \subseteq {1}, TInv, NEW s \in SS, pc[s] = "pollFinish" \/ PollsElement(s)
  PROVE  /\ Slot(s) = ReqSlot(s) /\ op[s].ch + 0 = op[s].ch
         /\ \A done \in BOOLEAN :
               LET o == At(op[s], op[s].n + 1, done)
               IN  o.n = 1 /\ o.kind = op[s].kind /\ o.ch = op[s].ch /\ o.done = done
<1>1. op[s].n = 0 /\ op[s].n + 1 = 1
  BY OpFits DEF PollsElement, TInv, TypeOK, InPlace, Place
<1>2. op[s].ch + 0 = op[s].ch
  BY OpFits, Numbers DEF TInv, TypeOK
<1>3. op[s] \in Ops
  BY OpFits DEF TInv, TypeOK
<1> QED BY <1>1, <1>2, <1>3 DEF Slot, ReqSlot, At, Ops

LEMMA TruePollFinish ==
  ASSUME Polled \subseteq {1}, TInv, CInv, SInv', NEW s \in SS, PollFinish(s) PROVE CInv'
<1>1. PICK y \in Slots : y = Slot(s)
  BY SlotIsSlot DEF PollFinish, Working
<1>2. Moves(s, "poll", At(op[s], op[s].n + 1, op[s].done))
  BY DEF PollFinish, Moves, Goto, Return
<1>3. /\ Others(s) /\ pc'[s] = "poll"
      /\ op'[s] = At(op[s], op[s].n + 1, op[s].done)
      /\ ca' = ca /\ (\A a \in asked' : a \in asked \/ a.slot = y)
  BY <1>2, MovesOthers DEF PollFinish, caVars
<1>r. /\ y = ReqSlot(s) /\ op'[s].n = 1
      /\ op'[s].kind = op[s].kind /\ op'[s].ch = op[s].ch /\ op[s].ch + 0 = op[s].ch
  <2>1. op[s].done \in BOOLEAN
    BY OpFits DEF TInv, TypeOK, Ops
  <2> QED BY <1>1, <1>3, <2>1, OneElement DEF PollFinish
<1>4. \A x \in Slots \ {y} : /\ sem'[x] = sem[x] /\ reqOf'[x] = reqOf[x]
                               /\ open'[x] = open[x] /\ excused'[x] = excused[x]
  BY <1>1, <1>r DEF PollFinish, TInv, TypeOK, SlotTypes
<1>m. ~open'[y] \/ excused'[y]
  BY <1>1 DEF PollFinish, CInv, Done, Complete
<1>5. Pending(y)'
  BY <1>m DEF Pending, Complete
<1>6. Early(s)' /\ Done(s)'
  BY <1>3 DEF Early, Taken, Done
<1>7. Seen(s)'
  <2>1. SUFFICES ASSUME NEW m \in 0..op'[s].n - 1
                 PROVE  Complete(<<s, op[s].kind, op[s].ch + m>>)'
    BY <1>r DEF Seen, Complete
  <2>2. m = 0
    BY <1>r
  <2> QED BY <1>m, <1>r, <2>2 DEF ReqSlot, Complete
<1> QED BY <1>1, <1>3, <1>4, <1>5, <1>6, <1>7, TrueAt

LEMMA TrueCheck == ASSUME TInv, CInv, SInv', NEW s \in SS, Check(s) PROVE CInv'
<1>1. PICK y \in Slots : y = Slot(s)
  BY SlotIsSlot DEF Check, Working
<1>2. ca' = ca /\ asked' = asked
  BY DEF Check, caVars
<1>3. \A x \in Slots \ {y} : /\ sem'[x] = sem[x] /\ reqOf'[x] = reqOf[x]
                               /\ open'[x] = open[x] /\ excused'[x] = excused[x]
  BY <1>1 DEF Check, TInv, TypeOK, SlotTypes
<1>4. ~open'[y] /\ (excused'[y] \/ (~sem[y] /\ ~Late(y))) /\ (Late(y)' <=> Late(y))
  BY <1>1, <1>2 DEF Check, CInv, Early, Taken, Late
<1>5. Pending(y)'
  BY <1>4 DEF Pending, Complete
<1>6. CASE op[s].kind = "get" /\ ~connected[op[s].ch]
  <2>1. Moves(s, "idle", NoOp)
    BY <1>6 DEF Check, Moves, Goto, Return
  <2>2. Others(s) /\ pc'[s] = "idle"
    BY <2>1, MovesOthers
  <2>3. Early(s)' /\ Done(s)' /\ Seen(s)'
    BY <2>2 DEF Early, Taken, Done, Seen
  <2> QED BY <1>1, <1>2, <1>3, <1>5, <2>2, <2>3, TrueAt
<1>7. CASE ~(op[s].kind = "get" /\ ~connected[op[s].ch])
  <2>1. Moves(s, "alloc", op[s]) /\ sem' = sem
    BY <1>7 DEF Check, Moves, Goto, Return
  <2>2. Others(s) /\ pc'[s] = "alloc" /\ Slot(s)' = y
    BY <1>1, <2>1, MovesOthers, SlotKept
  <2>3. Early(s)' /\ Done(s)' /\ Seen(s)'
    BY <1>4, <2>1, <2>2 DEF Early, Done, Seen, Late
  <2> QED BY <1>1, <1>2, <1>3, <1>5, <2>2, <2>3, TrueAt
<1> QED BY <1>6, <1>7

LEMMA TrueAlloc == ASSUME TInv, CInv, SInv', NEW s \in SS, Alloc(s) PROVE CInv'
<1>1. PICK y \in Slots : y = Slot(s)
  BY SlotIsSlot DEF Alloc, Working
<1>2. PICK rq \in pool : /\ reqOf' = [reqOf EXCEPT ![Slot(s)] = rq]
                         /\ op' = [op EXCEPT ![s].rq = rq]
  BY DEF Alloc
<1>3. Moves(s, "issue", [op[s] EXCEPT !.rq = rq])
  BY <1>2 DEF Alloc, Moves, Goto
<1>4. Others(s) /\ pc'[s] = "issue" /\ op'[s] = [op[s] EXCEPT !.rq = rq]
  BY <1>3, MovesOthers
<1>5. op'[s].kind = op[s].kind /\ op'[s].ch = op[s].ch /\ op'[s].n = op[s].n
  BY <1>4, OpFits DEF TInv, TypeOK, Ops
<1>6. Slot(s)' = y
  BY <1>1, <1>5 DEF Slot
<1>7. \A x \in Slots \ {y} : /\ sem'[x] = sem[x] /\ reqOf'[x] = reqOf[x]
                               /\ open'[x] = open[x] /\ excused'[x] = excused[x]
  BY <1>1, <1>2 DEF Alloc, TInv, TypeOK, SlotTypes
<1>8. ca' = ca /\ asked' = asked
  BY DEF Alloc, caVars
<1>9. ~open'[y] /\ (excused'[y] \/ (~sem'[y] /\ ~Late(y))) /\ (Late(y)' <=> Late(y))
  BY <1>1, <1>8 DEF Alloc, CInv, Early, Taken, Late
<1>10. Pending(y)' /\ Early(s)' /\ Done(s)' /\ Seen(s)'
  BY <1>4, <1>6, <1>9 DEF Pending, Complete, Early, Done, Seen, Late
<1> QED BY <1>1, <1>4, <1>7, <1>8, <1>10, TrueAt

LEMMA TrueIssue == ASSUME TInv, CInv, SInv', NEW s \in SS, Issue(s) PROVE CInv'
<1>1. PICK y \in Slots : y = Slot(s)
  BY SlotIsSlot DEF Issue, Working
<1>2. Moves(s, "wait", op[s]) \/ Moves(s, "idle", NoOp)
  BY DEF Issue, Moves, Goto, Return
<1>3. Others(s) /\ pc'[s] \in {"wait", "idle"}
  BY <1>2, MovesOthers
<1>4. ca' = ca /\ sem' = sem /\ reqOf' = reqOf /\ excused' = excused
  BY DEF Issue
<1>5. \A a \in asked' : a \in asked \/ a.slot = y
  BY <1>1 DEF Issue
<1>6. \A x \in Slots \ {y} : open'[x] = open[x]
  BY <1>1 DEF Issue, TInv, TypeOK, SlotTypes
<1>7. reqOf[y] # NoReq
  <2>1. reqOf[y] = op[s].rq /\ op[s].rq \in Requests
    BY <1>1 DEF Issue, CInv, SInv, IssueAt, TInv, InPlace, Place
  <2> QED BY <2>1, SeqPvRequestAssumption
<1>8. excused[y] \/ (~sem[y] /\ ~Late(y))
  BY <1>1 DEF Issue, CInv, Early, Taken
<1>9. Pending(y)'
  BY <1>4, <1>7, <1>8 DEF Pending, Complete, Late
<1>10. Early(s)' /\ Done(s)' /\ Seen(s)'
  BY <1>3 DEF Early, Taken, Done, Seen
<1> QED BY <1>1, <1>3, <1>4, <1>5, <1>6, <1>9, <1>10, TrueAt

LEMMA TruePollNothingPending ==
  ASSUME Polled \subseteq {1}, TInv, CInv, SInv', NEW s \in SS, PollNothingPending(s)
  PROVE  CInv'
<1>1. PICK y \in Slots : y = Slot(s)
  BY SlotIsSlot DEF PollNothingPending
<1>2. Moves(s, "poll", At(op[s], op[s].n + 1, op[s].done))
  BY DEF PollNothingPending, PollsElement, Moves, TInv, TypeOK, CallTypes
<1>3. Others(s) /\ pc'[s] = "poll" /\ op'[s] = At(op[s], op[s].n + 1, op[s].done)
  BY <1>2, MovesOthers
<1>4. op[s].done \in BOOLEAN
  BY OpFits DEF TInv, TypeOK, Ops
<1>5. /\ y = ReqSlot(s) /\ op'[s].n = 1 /\ op'[s].kind = op[s].kind
      /\ op'[s].ch = op[s].ch /\ op[s].ch + 0 = op[s].ch
  BY <1>1, <1>3, <1>4, OneElement DEF PollNothingPending
<1>6. Complete(y)
  BY <1>5 DEF PollNothingPending, CInv, Pending
<1>7. Seen(s)'
  <2>1. SUFFICES ASSUME NEW m \in 0..op'[s].n - 1
                 PROVE  Complete(<<s, op[s].kind, op[s].ch + m>>)'
    BY <1>5 DEF Seen, Complete
  <2>2. m = 0
    BY <1>5
  <2> QED BY <1>5, <1>6, <2>2 DEF ReqSlot, Complete, PollNothingPending
<1> QED BY <1>3, <1>7, TrueQuiet DEF PollNothingPending, caVars

LEMMA TruePollPending == ASSUME TInv, CInv, SInv', NEW s \in SS, PollPending(s) PROVE CInv'
<1>1. Moves(s, "poll", At(op[s], op[s].n + 1, FALSE))
  BY DEF PollPending, PollsElement, Moves, TInv, TypeOK, CallTypes
<1>2. Others(s) /\ pc'[s] = "poll" /\ op'[s] = At(op[s], op[s].n + 1, FALSE)
  BY <1>1, MovesOthers
<1>3. ~op'[s].done
  BY <1>2, OpFits DEF TInv, TypeOK, Ops, At
<1> QED BY <1>2, <1>3, TrueQuiet DEF PollPending, caVars, Seen

LEMMA TrueWhenWakes == ASSUME TInv, CInv, SInv', NEW s \in SS, WhenWakes(s) PROVE CInv'
<1>1. Moves(s, "poll", At(op[s], 0, TRUE))
  BY DEF WhenWakes, Goto, Moves
<1>2. Others(s) /\ pc'[s] = "poll" /\ op'[s] = At(op[s], 0, TRUE)
  BY <1>1, MovesOthers
<1>3. op'[s].n = 0
  BY <1>2, OpFits DEF TInv, TypeOK, Ops, At
<1>4. Seen(s)'
  BY <1>3 DEF Seen
<1> QED BY <1>2, <1>4, TrueQuiet DEF WhenWakes, caVars

LEMMA TrueReturns ==
  ASSUME TInv, CInv, SInv', NEW s \in SS, TakeFails(s) \/ PollReturns(s) PROVE CInv'
<1>1. Others(s) /\ pc'[s] \in {"idle", "when"}
  <2>1. CASE TakeFails(s) \/ Moves(s, "idle", NoOp)
    <3>1. Moves(s, "idle", NoOp)
      BY <2>1 DEF TakeFails, Return, Goto, Moves
    <3> QED BY <3>1, MovesOthers
  <2>2. CASE Moves(s, "when", op[s])
    BY <2>2, MovesOthers
  <2> QED BY <2>1, <2>2 DEF PollReturns, Return, Goto, Moves
<1> QED BY <1>1, TrueQuiet DEF TakeFails, PollReturns, caVars, Seen

LEMMA TrueCalls == ASSUME TInv, CInv, SInv', NEW s \in SS, Calls(s) PROVE CInv'
<1>1. UNCHANGED <<sem, reqOf, open, excused, asked, ca>>
  BY ZenonT(60) DEF Calls, Call, Poll, EnterWhen, caVars
<1>2. PICK k \in Kinds, c \in Channels :
        \/ \E how \in {"sync", "async"} : Call(s, k, c, how)
        \/ \E len \in IF k = "put" THEN Polled ELSE {1} :
             Poll(s, k, c, len) \/ EnterWhen(s, k, c, len)
  BY DEF Calls
<1>3. Others(s) /\ pc'[s] \in {"take", "poll", "when"} /\ op'[s].n = 0
  <2>1. PICK p \in {"take", "poll", "when"} : \E o : Moves(s, p, o) /\ o.n = 0
    <3>1. ASSUME NEW how \in {"sync", "async"}, Call(s, k, c, how)
          PROVE  Moves(s, "take", Op(k, c, 0, how, FALSE))
      BY <3>1 DEF Call, Goto, Moves
    <3>2. ASSUME NEW len, Poll(s, k, c, len) PROVE Moves(s, "poll", Op(k, c, len, "poll", TRUE))
      BY <3>2 DEF Poll, Goto, Moves
    <3>3. ASSUME NEW len, EnterWhen(s, k, c, len)
          PROVE  Moves(s, "when", Op(k, c, len, "when", TRUE))
      BY <3>3 DEF EnterWhen, Goto, Moves
    <3>4. \A len, how, d : Op(k, c, len, how, d).n = 0
      BY DEF Op
    <3> QED BY <1>2, <3>1, <3>2, <3>3, <3>4, ZenonT(60)
  <2>2. PICK o : Moves(s, p, o) /\ o.n = 0
    BY <2>1
  <2> QED BY <2>2, MovesOthers
<1>4. Seen(s)'
  BY <1>3 DEF Seen
<1> QED BY <1>1, <1>3, <1>4, TrueQuiet

\* The callback completes requests, and excuses those whose connection is lost.
LEMMA TrueCallback ==
  ASSUME TInv, CInv, SInv',
         \/ Callback
         \/ \E a \in asked : Answer(a)
         \/ \E c \in Channels : Disconnect(c) \/ Reconnect(c)
  PROVE  CInv'
<1>1. pc' = pc /\ op' = op /\ reqOf' = reqOf
  BY DEF Callback, Compare, WriteBuffer, SignalCompletion, Wake, Release, WakeAll,
         Answer, Disconnect, Reconnect, ssVars
<1>2. \A s \in SS : Slot(s)' = Slot(s)
  BY <1>1, SlotKept
<1>3. ASSUME NEW x \in Slots PROVE Complete(x) => Complete(x)'
  BY DEF Callback, Compare, WriteBuffer, SignalCompletion, Wake, Release, WakeAll,
         Answer, Disconnect, Reconnect, Complete, TInv, TypeOK, SlotTypes
<1>4. ASSUME NEW x \in Slots PROVE Late(x)' => Late(x)
  <2>1. ASSUME NEW a \in asked, Answer(a) PROVE Late(x)' => Late(x)
    BY <2>1 DEF Answer, Doing, Late
  <2>2. CASE Compare \/ WriteBuffer \/ SignalCompletion
    BY <2>2 DEF Compare, WriteBuffer, SignalCompletion, After, Idle, Doing, Late,
                TInv, TypeOK, CallbackTypes
  <2>3. CASE Wake \/ Release \/ WakeAll
    BY <2>3 DEF Wake, Release, WakeAll, After, Idle, Doing, Late, TInv, TypeOK, CallbackTypes
  <2>4. ASSUME NEW c \in Channels, Disconnect(c) \/ Reconnect(c) PROVE Late(x)' => Late(x)
    BY <2>4 DEF Disconnect, Reconnect, Doing, Late
  <2> QED BY <2>1, <2>2, <2>3, <2>4 DEF Callback
<1>5. ASSUME NEW x \in Slots, ~excused'[x]
      PROVE  ~excused[x] /\ (~open[x] => ~open'[x])
             /\ (sem'[x] => sem[x] \/ (ca.at = "signal" /\ ca.slot = x))
  BY <1>5 DEF Callback, Compare, WriteBuffer, SignalCompletion, Wake, Release, WakeAll,
         Answer, Disconnect, Reconnect, TInv, TypeOK, SlotTypes
<1>6. ASSUME NEW x \in Slots PROVE ~open[x] => ~open'[x]
  BY DEF Callback, Compare, WriteBuffer, SignalCompletion, Wake, Release, WakeAll,
         Answer, Disconnect, Reconnect, TInv, TypeOK, SlotTypes
<1>7. ASSUME NEW x \in Slots PROVE Pending(x)'
  <2>1. SUFFICES ASSUME ~Complete(x)' PROVE Pending(x)'
    BY DEF Pending
  <2>2. ~excused'[x] /\ ~Complete(x)
    BY <1>3, <2>1 DEF Complete
  <2>3. ~sem[x] /\ reqOf[x] # NoReq /\ ~(ca.at = "signal" /\ ca.slot = x)
    BY <2>2 DEF CInv, Pending
  <2>4. ~(ca'.at = "signal" /\ ca'.slot = x)
    <3>1. CASE WriteBuffer
      BY <2>1, <3>1 DEF WriteBuffer, Complete, TInv, TypeOK, SlotTypes, CallbackTypes
    <3>2. CASE ~WriteBuffer
      BY <2>3, <3>2 DEF Callback, Compare, SignalCompletion, Wake, Release, WakeAll,
         Answer, Disconnect, Reconnect, After, Idle, Doing, TInv, TypeOK, CallbackTypes
    <3> QED BY <3>1, <3>2
  <2> QED BY <1>1, <1>5, <2>2, <2>3, <2>4 DEF Pending
<1>8. ASSUME NEW s \in SS PROVE Early(s)'
  <2>1. SUFFICES ASSUME Taken(s) PROVE Early(s)'
    BY <1>1 DEF Early, Taken
  <2>2. PICK y \in Slots : y = Slot(s)
    BY <2>1, SlotIsSlot DEF Taken, Working
  <2>3. ~open[y] /\ (excused[y] \/ (~sem[y] /\ ~Late(y)))
    BY <2>1, <2>2 DEF CInv, Early
  <2>4. ~open'[y]
    BY <1>6, <2>3
  <2>5. excused'[y] \/ (~sem'[y] /\ ~Late(y)')
    <3>1. SUFFICES ASSUME ~excused'[y] PROVE ~sem'[y] /\ ~Late(y)'
      OBVIOUS
    <3>2. ~sem[y] /\ ~Late(y)
      BY <1>5, <2>3, <3>1
    <3> QED BY <1>4, <1>5, <3>1, <3>2 DEF Late
  <2>6. Slot(s)' = y /\ (Late(Slot(s))' <=> Late(y)')
    BY <1>2, <2>2 DEF Late
  <2> QED BY <2>4, <2>5, <2>6 DEF Early
<1>9. ASSUME NEW s \in SS PROVE Done(s)'
  <2>1. SUFFICES ASSUME pc[s] \in {"finish", "pollFinish"} PROVE Complete(Slot(s))'
    BY <1>1 DEF Done
  <2>2. Slot(s) \in Slots
    BY <2>1, SlotIsSlot DEF Working
  <2>3. PICK y \in Slots : y = Slot(s)
    BY <2>2
  <2>4. Complete(y)'
    BY <1>3, <2>1, <2>3 DEF CInv, Done
  <2> QED BY <1>2, <2>3, <2>4 DEF Complete
<1>10. ASSUME NEW s \in SS PROVE Seen(s)'
  <2>1. SUFFICES ASSUME pc[s] \in {"poll", "pollFinish"}, op[s].done,
                        NEW m \in 0..op[s].n - 1
                 PROVE  Complete(<<s, op[s].kind, op[s].ch + m>>)'
    BY <1>1 DEF Seen, Complete
  <2>2. PICK y \in Slots : y = <<s, op[s].kind, op[s].ch + m>>
    BY <2>1, SeenSlots
  <2>3. Complete(y)'
    BY <1>3, <2>1, <2>2 DEF CInv, Seen
  <2> QED BY <1>1, <2>2, <2>3 DEF Complete
<1> QED BY <1>7, <1>8, <1>9, <1>10 DEF CInv

LEMMA TrueStep ==
  ASSUME Polled \subseteq {1}
  PROVE  TInv /\ CInv /\ [Next]_vars => CInv'
<1> SUFFICES ASSUME TInv, CInv, [Next]_vars PROVE CInv'
  OBVIOUS
<1>1. SInv'
  BY KeptStep DEF CInv
<1>2. CASE UNCHANGED vars
  BY <1>1, <1>2 DEF vars, CInv, Pending, Early, Done, Seen, Complete, Taken, Slot, Late
<1>3. ASSUME NEW s \in SS, Calls(s) \/ StateSet(s) PROVE CInv'
  BY <1>1, <1>3, TrueCalls, TrueReturns, TrueTake, TrueClear, TrueCheck, TrueAlloc, TrueIssue,
     TrueIssueFails, TrueWaitOK, TrueWaitTimesOut, TrueFinish, TruePollNothingPending,
     TruePollTakes, TruePollFinish, TruePollPending, TrueWhenWakes DEF StateSet
<1> QED BY <1>1, <1>2, <1>3, TrueCallback DEF Next

\* If pvPutComplete is asked about one element at a time, no call says that a
\* request is complete whose answer has not come, unless an older answer was late
\* or the connection was lost.
THEOREM CompletionTrue ==
  ASSUME Polled \subseteq {1}
  PROVE  Spec => []CompleteMeansAnswered
<1>1. Init => CInv
  <2>1. SUFFICES ASSUME Init PROVE CInv
    OBVIOUS
  <2>2. SInv
    BY <2>1 DEF Init, SInv, SemaphoreKept, IssueAt
  <2>3. \A x \in Slots : Pending(x)
    BY <2>1 DEF Init, Pending, Complete
  <2>4. ASSUME NEW s \in SS PROVE Early(s) /\ Done(s) /\ Seen(s)
    <3>1. pc[s] = "idle"
      BY <2>1 DEF Init
    <3> QED BY <3>1 DEF Early, Taken, Done, Seen
  <2> QED BY <2>2, <2>3, <2>4 DEF CInv
<1>2. TInv /\ CInv => CompleteMeansAnswered
  <2> SUFFICES ASSUME CInv PROVE CompleteMeansAnswered
    OBVIOUS
  <2>1. ASSUME NEW s \in SS, pc[s] = "finish", op[s].done PROVE Complete(Slot(s))
    BY <2>1 DEF CInv, Done
  <2>2. ASSUME NEW s \in SS, Returns(s), op[s].done, NEW n \in 0..op[s].len - 1
        PROVE  Complete(<<s, op[s].kind, op[s].ch + n>>)
    <3>1. pc[s] = "poll" /\ n \in 0..op[s].n - 1 /\ Seen(s)
      BY <2>2 DEF CInv, Returns
    <3>2. \A m \in 0..op[s].n - 1 : Complete(<<s, op[s].kind, op[s].ch + m>>)
      BY <2>2, <3>1 DEF Seen
    <3> QED BY <3>1, <3>2
  <2> QED BY <2>1, <2>2, Zenon DEF CompleteMeansAnswered
<1> QED BY <1>1, <1>2, TypeInit, TypeStep, TrueStep, PTL DEF Spec
=============================================================================
