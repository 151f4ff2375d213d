------------------------- MODULE PCS_Loader_proofs -------------------------
(***************************************************************************)
(* Proofs about PCS_Loader, for any files, any number of threads and any   *)
(* bailouts: types, that no request gets past the mutex before the symbol  *)
(* table is complete, and that the table does not change under a reader;   *)
(* then that every request has loaded all RINIT files when its RINIT is    *)
(* over, what the symbol table maps to what, that no symbol is left out of *)
(* it, and under which conditions no file is loaded twice but by a script  *)
(* that forces it, and no RINIT fails.                                     *)
(***************************************************************************)
EXTENDS PCS_Loader, SequenceTheorems, TLAPS

FrameType == [file : File, pc : {"compile", "exec", "wait"}, rest : Seq(ClassKey)]
Pc == {"off", "lock", "parser", "register", "keys", "unlock", "loop", "run", "failed", "aborted",
       "exit"}
Request ==
    [pc : Pc, i : Nat, keys : Seq(Key), stack : Seq(FrameType),
     status : {"SUCCESS", "FAILURE"}, defined : SUBSET Key, noext : BOOLEAN]

\* The index is one of a sequence that starts at 1, and that of a file as long as
\* the keys of a file are registered.
IndexOK(r) ==
    /\ r.i >= 1
    /\ r.pc = "keys" => r.i <= Len(FileList)

\* Where a request holds the mutex, and where it fills the table
Parsing  == {"register", "keys"}
Filling  == {"parser", "register", "keys"}
Critical == Filling \cup {"unlock"}

MutexHeld == \A t \in Thread : req[t].pc \in Critical /\ ZTS => mutex = t

\* The table is complete behind the mutex, and not yet while a request fills it.
CompleteWhenDone ==
    \A t \in Thread :
      /\ Ready(t) => loader_init_done
      /\ req[t].pc = "unlock" /\ req[t].status = "SUCCESS" => loader_init_done
      /\ req[t].pc \in Filling => ~loader_init_done

LoaderInv ==
    /\ LoaderTypeOK
    /\ \A t \in Thread : IndexOK(req[t])
    /\ MutexHeld
    /\ CompleteWhenDone

LEMMA TypeOfRequests ==
    LoaderTypeOK <=>
      /\ load_mode \in [File -> 0..3]
      /\ DOMAIN symbols \subseteq Key /\ \A k \in DOMAIN symbols : symbols[k] \in File
      /\ loader_init_done \in BOOLEAN
      /\ mutex \in Thread \cup {Null}
      /\ req \in [Thread -> Request]
BY DEF LoaderTypeOK, Request, Pc, FrameType

\* What a step of PCS_Loader_loadNode may do to a request r, which becomes q
LoadOutcome(r, q) ==
    /\ q \in Request /\ IndexOK(q)
    /\ \/ q.pc = r.pc /\ q.status = r.status
       \/ q.pc \in {"failed", "aborted", "exit"}
       \/ r.pc = "parser" /\ q.pc = "unlock" /\ q.status = "FAILURE"

LEMMA ReturnedOutcome ==
    ASSUME NEW r \in Request, IndexOK(r), NEW stack \in Seq(FrameType),
           NEW status \in {"SUCCESS", "FAILURE"}
    PROVE  LoadOutcome(r, Returned(r, stack, status))
<1> DEFINE back == [r EXCEPT !.stack = stack]
<1>1. /\ back \in Request /\ back.pc = r.pc /\ back.i = r.i /\ back.status = r.status
  BY DEF Request
<1>2. CASE stack # <<>> \/ r.pc \notin {"parser", "loop"}
  <2>1. Returned(r, stack, status) = back
    BY <1>2 DEF Returned
  <2> HIDE DEF back
  <2> QED BY <1>1, <2>1 DEF LoadOutcome, IndexOK
<1>3. CASE stack = <<>> /\ r.pc \in {"parser", "loop"} /\ status = "SUCCESS"
  <2> DEFINE q == [back EXCEPT !.i = @ + 1]
  <2>1. Returned(r, stack, status) = q
    BY <1>3 DEF Returned
  <2>2. r.i \in Nat
    BY DEF Request
  <2> HIDE DEF back
  <2>3. r.i + 1 \in Nat /\ r.i + 1 >= 1
    BY <2>2
  <2>4. q \in Request /\ q.pc = r.pc /\ q.i = r.i + 1 /\ q.status = r.status
    BY <1>1, <2>3 DEF Request
  <2> HIDE DEF q
  <2> QED BY <1>3, <2>1, <2>3, <2>4 DEF LoadOutcome, IndexOK
<1>4. CASE stack = <<>> /\ r.pc \in {"parser", "loop"} /\ status = "FAILURE"
  <2> DEFINE q == [back EXCEPT !.pc = IF r.pc = "parser" THEN "unlock" ELSE "exit",
                               !.status = status]
  <2>1. Returned(r, stack, status) = q
    BY <1>4 DEF Returned
  <2> HIDE DEF back
  <2>2. /\ q \in Request /\ q.pc = (IF r.pc = "parser" THEN "unlock" ELSE "exit")
        /\ q.status = "FAILURE" /\ q.i = r.i
    BY <1>1, <1>4 DEF Request, Pc
  <2> HIDE DEF q
  <2> QED BY <1>4, <2>1, <2>2 DEF LoadOutcome, IndexOK
<1> QED BY <1>2, <1>3, <1>4

LEMMA BailedOutOutcome ==
    ASSUME NEW r \in Request, IndexOK(r)
    PROVE  LoadOutcome(r, BailedOut(r))
<1> DEFINE stack == IF r.stack # <<>> /\ r.stack[1].pc = "compile"
                    THEN Tail(r.stack) ELSE r.stack
<1>1. stack \in Seq(FrameType)
  BY DEF Request
<1>2. CASE stack = <<>>
  <2> DEFINE pc == IF r.pc = "run" THEN "aborted" ELSE "failed"
             q == [r EXCEPT !.pc = pc, !.stack = <<>>, !.keys = <<>>]
  <2>1. BailedOut(r) = q
    BY <1>2 DEF BailedOut
  <2>2. <<>> \in Seq(FrameType) /\ <<>> \in Seq(Key) /\ pc \in {"failed", "aborted"}
    OBVIOUS
  <2> HIDE DEF pc
  <2>3. q \in Request /\ q.pc \in {"failed", "aborted"} /\ q.i = r.i
    BY <2>2 DEF Request, Pc
  <2> HIDE DEF q
  <2> QED BY <2>1, <2>3 DEF LoadOutcome, IndexOK
<1>3. CASE stack # <<>>
  <2>1. BailedOut(r) = Returned(r, Tail(stack), "FAILURE")
    BY <1>3 DEF BailedOut
  <2>2. Tail(stack) \in Seq(FrameType)
    BY <1>1, <1>3
  <2> HIDE DEF stack
  <2> QED BY <2>1, <2>2, ReturnedOutcome
<1> QED BY <1>2, <1>3

\* The innermost file goes on
LEMMA OnTopOutcome ==
    ASSUME NEW r \in Request, r.stack # <<>>,
           NEW pc \in {"compile", "exec", "wait"}, NEW rest \in Seq(ClassKey)
    PROVE  /\ OnTop(r, pc, rest) \in Request
           /\ OnTop(r, pc, rest).pc = r.pc /\ OnTop(r, pc, rest).i = r.i
           /\ OnTop(r, pc, rest).status = r.status
           /\ OnTop(r, pc, rest).defined = r.defined
<1> DEFINE e == [file |-> r.stack[1].file, pc |-> pc, rest |-> rest]
           stack == <<e>> \o Tail(r.stack)
<1>1. r.stack \in Seq(FrameType)
  BY DEF Request
<1>2. r.stack[1] \in FrameType /\ Tail(r.stack) \in Seq(FrameType)
  BY <1>1
<1>3. e \in FrameType
  BY <1>2 DEF FrameType
<1>4. OnTop(r, pc, rest) = [r EXCEPT !.stack = stack]
  BY DEF OnTop
<1> HIDE DEF e
<1>5. stack \in Seq(FrameType)
  BY <1>2, <1>3
<1> HIDE DEF stack
<1> QED BY <1>4, <1>5 DEF Request

\* A file that begins
LEMMA PushedOutcome ==
    ASSUME NEW r \in Request, IndexOK(r), NEW f \in File
    PROVE  LoadOutcome(r, Pushed(r, f))
<1> DEFINE stack == <<Frame(f)>> \o r.stack
           q == [r EXCEPT !.stack = stack]
<1>1. Frame(f) \in FrameType
  BY DEF Frame, FrameType
<1>2. r.stack \in Seq(FrameType)
  BY DEF Request
<1>3. stack \in Seq(FrameType)
  BY <1>1, <1>2
<1>4. Pushed(r, f) = q
  BY DEF Pushed
<1> HIDE DEF stack
<1>5. q \in Request /\ q.pc = r.pc /\ q.i = r.i /\ q.status = r.status
  BY <1>3 DEF Request
<1> HIDE DEF q
<1> QED BY <1>4, <1>5 DEF LoadOutcome, IndexOK

LEMMA LoadStepOutcome ==
    ASSUME LoaderInv, NEW t \in Thread, LoadStep(t)
    PROVE  /\ UNCHANGED <<load_mode, symbols, loader_init_done, mutex>>
           /\ \E q : LoadOutcome(req[t], q) /\ req' = [req EXCEPT ![t] = q]
<1> DEFINE r == req[t]
           top == r.stack[1]
<1>1. UNCHANGED <<load_mode, symbols, loader_init_done, mutex>>
  BY DEF LoadStep, Compile, FatalError, BailOut, UseDefined, UseAutoload, UseUnknown, ExecDone
<1>2. /\ req \in [Thread -> Request] /\ r \in Request /\ IndexOK(r)
      /\ r.stack \in Seq(FrameType) /\ r.defined \in SUBSET Key
  BY TypeOfRequests DEF LoaderInv, Request
<1>3. r.stack # <<>>
  <2>1. \E pc \in {"compile", "exec", "wait"} : At(t, pc)
    BY DEF LoadStep, Compile, FatalError, BailOut, UseDefined, UseAutoload, UseUnknown, ExecDone
  <2> QED BY <2>1 DEF At, Stack
<1>4. top \in FrameType /\ top.file \in File /\ top.rest \in Seq(ClassKey)
  <2>1. top \in FrameType
    BY <1>2, <1>3
  <2> QED BY <2>1 DEF FrameType
<1>5. CASE Compile(t)
  <2> DEFINE s == Script[top.file]
             x == OnTop(r, "exec", s.uses)
             defined == r.defined \cup s.declares
             q == [x EXCEPT !.defined = defined, !.noext = TRUE]
  <2>1. s.uses \in Seq(ClassKey) /\ s.declares \in SUBSET Key
    BY <1>4, LoaderAssumption
  <2>2. defined \in SUBSET Key
    BY <1>2, <2>1
  <2>3. /\ x \in Request /\ x.pc = r.pc /\ x.i = r.i /\ x.status = r.status
        /\ x.defined = r.defined
    BY <1>2, <1>3, <2>1, OnTopOutcome
  <2>4. req' = [req EXCEPT ![t] = [x EXCEPT !.defined = x.defined \cup s.declares,
                                           !.noext = TRUE]]
    BY <1>5 DEF Compile, Top, Stack
  <2> HIDE DEF x
  <2>5. req' = [req EXCEPT ![t] = q]
    BY <2>3, <2>4
  <2> HIDE DEF defined
  <2>6. q \in Request /\ q.pc = x.pc /\ q.i = x.i /\ q.status = x.status
    BY <2>2, <2>3 DEF Request
  <2> HIDE DEF q
  <2>7. LoadOutcome(r, q)
    BY <1>2, <2>3, <2>6 DEF LoadOutcome, IndexOK
  <2> QED BY <1>1, <2>5, <2>7
<1>6. CASE FatalError(t) \/ BailOut(t)
  <2>1. req' = [req EXCEPT ![t] = BailedOut(r)]
    BY <1>6 DEF FatalError, BailOut
  <2> QED BY <1>1, <1>2, <1>3, <2>1, BailedOutOutcome
<1>7. CASE UseDefined(t)
  <2> DEFINE q == OnTop(r, "exec", Tail(top.rest))
  <2>1. top.rest # <<>> /\ req' = [req EXCEPT ![t] = q]
    BY <1>7 DEF UseDefined, Continue, Top, Stack
  <2>2. Tail(top.rest) \in Seq(ClassKey)
    BY <1>4, <2>1
  <2>3. q \in Request /\ q.pc = r.pc /\ q.i = r.i /\ q.status = r.status
    BY <1>2, <1>3, <2>2, OnTopOutcome
  <2> HIDE DEF q
  <2>4. LoadOutcome(r, q)
    BY <1>2, <2>3 DEF LoadOutcome, IndexOK
  <2> QED BY <1>1, <2>1, <2>4
<1>8. CASE UseAutoload(t)
  <2> DEFINE q == OnTop(r, "wait", top.rest)
             f == symbols[Class(t)]
  <2>1. f \in File /\ req' = [req EXCEPT ![t] = Pushed(q, f)]
    BY <1>8 DEF UseAutoload, LoaderInv, LoaderTypeOK, Top, Stack
  <2>2. q \in Request /\ q.pc = r.pc /\ q.i = r.i /\ q.status = r.status
    BY <1>2, <1>3, <1>4, OnTopOutcome
  <2> HIDE DEF q, f
  <2>3. IndexOK(q)
    BY <1>2, <2>2 DEF IndexOK
  <2>4. LoadOutcome(q, Pushed(q, f))
    BY <2>1, <2>2, <2>3, PushedOutcome
  <2>5. LoadOutcome(r, Pushed(q, f))
    BY <2>2, <2>4 DEF LoadOutcome
  <2> QED BY <1>1, <2>1, <2>5
<1>9. ASSUME NEW stack \in Seq(FrameType),
             req' = [req EXCEPT ![t] = Returned([r EXCEPT !.noext = FALSE], stack, "SUCCESS")]
      PROVE  \E q : LoadOutcome(r, q) /\ req' = [req EXCEPT ![t] = q]
  <2> DEFINE x == [r EXCEPT !.noext = FALSE]
  <2>1. x \in Request /\ x.pc = r.pc /\ x.i = r.i /\ x.status = r.status
    BY <1>2 DEF Request
  <2> HIDE DEF x
  <2>2. IndexOK(x)
    BY <1>2, <2>1 DEF IndexOK
  <2>3. LoadOutcome(x, Returned(x, stack, "SUCCESS"))
    BY <2>1, <2>2, ReturnedOutcome
  <2>4. LoadOutcome(r, Returned(x, stack, "SUCCESS"))
    BY <2>1, <2>3 DEF LoadOutcome
  <2> QED BY <1>9, <2>4 DEF x
<1>10. CASE UseUnknown(t)
  <2>1. <<>> \in Seq(FrameType)
    OBVIOUS
  <2>2. req' = [req EXCEPT ![t] = Returned([r EXCEPT !.noext = FALSE], <<>>, "SUCCESS")]
    BY <1>10 DEF UseUnknown, Thrown
  <2> QED BY <1>1, <1>9, <2>1, <2>2
<1>11. CASE ExecDone(t)
  <2>1. Tail(r.stack) \in Seq(FrameType)
    BY <1>2, <1>3
  <2>2. req' = [req EXCEPT ![t] = Returned([r EXCEPT !.noext = FALSE], Tail(r.stack), "SUCCESS")]
    BY <1>11 DEF ExecDone, Stack
  <2> QED BY <1>1, <1>9, <2>1, <2>2
<1> QED BY <1>5, <1>6, <1>7, <1>8, <1>10, <1>11 DEF LoadStep

-----------------------------------------------------------------------------
\* Only one request at a time fills the table or is about to release the mutex.
LEMMA Alone ==
    ASSUME LoaderInv, NEW t \in Thread, NEW u \in Thread,
           req[t].pc \in Critical, req[u].pc \in Critical
    PROVE  t = u
BY LoaderAssumption DEF LoaderInv, MutexHeld

TableType ==
    /\ load_mode \in [File -> 0..3]
    /\ DOMAIN symbols \subseteq Key
    /\ \A k \in DOMAIN symbols : symbols[k] \in File

\* A step of the request of t, which becomes q
LEMMA RequestStep ==
    ASSUME LoaderInv, NEW t \in Thread, NEW q \in Request, IndexOK(q),
           req' = [req EXCEPT ![t] = q],
           TableType', loader_init_done' \in BOOLEAN, mutex' \in Thread \cup {Null},
           q.pc \in Critical /\ ZTS => mutex' = t,
           mutex' = mutex \/ \A u \in Thread \ {t} : ~(req[u].pc \in Critical /\ ZTS),
           q.pc \in {"loop", "run"} => loader_init_done',
           q.pc = "unlock" /\ q.status = "SUCCESS" => loader_init_done',
           q.pc \in Filling => ~loader_init_done',
           \/ loader_init_done' = loader_init_done
           \/ loader_init_done' /\ req[t].pc \in Filling
    PROVE  LoaderInv'
<1>1. req \in [Thread -> Request] /\ \A u \in Thread : IndexOK(req[u])
  BY TypeOfRequests DEF LoaderInv
<1>2. req' \in [Thread -> Request] /\ req'[t] = q /\ \A u \in Thread \ {t} : req'[u] = req[u]
  BY <1>1
<1>3. LoaderTypeOK'
  BY <1>2, TypeOfRequests DEF LoaderTypeOK, TableType, Request, Pc, FrameType
<1>4. \A u \in Thread : IndexOK(req[u])'
  <2>1. ASSUME NEW u \in Thread PROVE IndexOK(req[u])'
    <3>1. CASE u = t
      BY <1>2, <3>1 DEF IndexOK
    <3>2. CASE u # t
      BY <1>1, <1>2, <3>2 DEF IndexOK
    <3> QED BY <3>1, <3>2
  <2> QED BY <2>1
<1>5. MutexHeld'
  BY <1>2 DEF LoaderInv, MutexHeld
<1>6. CompleteWhenDone'
  <2> SUFFICES ASSUME NEW u \in Thread
               PROVE  /\ req'[u].pc \in {"loop", "run"} => loader_init_done'
                      /\ req'[u].pc = "unlock" /\ req'[u].status = "SUCCESS" => loader_init_done'
                      /\ req'[u].pc \in Filling => ~loader_init_done'
    BY DEF CompleteWhenDone, Ready
  <2>1. CASE u = t
    BY <1>2, <2>1
  <2>2. CASE u # t
    <3>1. /\ req'[u] = req[u]
          /\ req[u].pc \in {"loop", "run"} => loader_init_done
          /\ req[u].pc = "unlock" /\ req[u].status = "SUCCESS" => loader_init_done
          /\ req[u].pc \in Filling => ~loader_init_done
      BY <1>2, <2>2 DEF LoaderInv, CompleteWhenDone, Ready
    <3>2. CASE loader_init_done' = loader_init_done
      BY <3>1, <3>2
    <3>3. CASE loader_init_done' /\ req[t].pc \in Filling
      <4>1. req[u].pc \notin Critical
        BY <2>2, <3>3, Alone DEF Critical
      <4> QED BY <3>1, <3>3, <4>1 DEF Critical
    <3> QED BY <3>2, <3>3
  <2> QED BY <2>1, <2>2
<1> QED BY <1>3, <1>4, <1>5, <1>6 DEF LoaderInv

\* Steps that leave the table, the flag and the mutex alone
LEMMA QuietStep ==
    ASSUME LoaderInv, NEW t \in Thread, NEW q \in Request, IndexOK(q),
           req' = [req EXCEPT ![t] = q],
           UNCHANGED <<load_mode, symbols, loader_init_done, mutex>>,
           q.pc \in Critical => req[t].pc \in Critical,
           q.pc \in {"loop", "run"} => req[t].pc \in {"loop", "run"},
           q.pc = "unlock" /\ q.status = "SUCCESS" =>
             req[t].pc = "unlock" /\ req[t].status = "SUCCESS",
           q.pc \in Filling => req[t].pc \in Filling
    PROVE  LoaderInv'
<1>1. TableType' /\ loader_init_done' \in BOOLEAN /\ mutex' \in Thread \cup {Null}
  BY DEF LoaderInv, LoaderTypeOK, TableType
<1>2. q.pc \in Critical /\ ZTS => mutex' = t
  BY DEF LoaderInv, MutexHeld
<1>3. /\ q.pc \in {"loop", "run"} => loader_init_done'
      /\ q.pc = "unlock" /\ q.status = "SUCCESS" => loader_init_done'
      /\ q.pc \in Filling => ~loader_init_done'
  BY DEF LoaderInv, CompleteWhenDone, Ready
<1> QED BY <1>1, <1>2, <1>3, RequestStep

LEMMA LoadStepKeepsInv ==
    ASSUME LoaderInv, NEW t \in Thread, LoadStep(t)
    PROVE  LoaderInv'
<1>1. UNCHANGED <<load_mode, symbols, loader_init_done, mutex>>
  BY LoadStepOutcome
<1>2. PICK q : LoadOutcome(req[t], q) /\ req' = [req EXCEPT ![t] = q]
  BY LoadStepOutcome
<1>3. /\ q \in Request /\ IndexOK(q)
      /\ q.pc \in Critical => req[t].pc \in Critical
      /\ q.pc \in {"loop", "run"} => req[t].pc \in {"loop", "run"}
      /\ q.pc = "unlock" /\ q.status = "SUCCESS" =>
           req[t].pc = "unlock" /\ req[t].status = "SUCCESS"
      /\ q.pc \in Filling => req[t].pc \in Filling
  BY <1>2 DEF LoadOutcome, Critical, Filling
<1> QED BY <1>1, <1>2, <1>3, QuietStep

LEMMA NoRequestType ==
    /\ NoRequest \in Request
    /\ [NoRequest EXCEPT !.pc = "lock"] \in Request
    /\ NoRequest.pc = "off" /\ NoRequest.i = 1
    /\ [NoRequest EXCEPT !.pc = "lock"].pc = "lock"
    /\ [NoRequest EXCEPT !.pc = "lock"].i = 1
<1>1. <<>> \in Seq(Key) /\ <<>> \in Seq(FrameType)
  OBVIOUS
<1>2. NoRequest \in Request /\ NoRequest.pc = "off" /\ NoRequest.i = 1
  BY <1>1 DEF NoRequest, Request, Pc
<1> HIDE DEF NoRequest
<1>3. /\ [NoRequest EXCEPT !.pc = "lock"] \in Request
      /\ [NoRequest EXCEPT !.pc = "lock"].pc = "lock"
      /\ [NoRequest EXCEPT !.pc = "lock"].i = 1
  BY <1>2 DEF Request, Pc
<1> QED BY <1>2, <1>3

LEMMA LoaderInvInit == Init => LoaderInv
<1> SUFFICES ASSUME Init PROVE LoaderInv
  OBVIOUS
<1>1. NoRequest \in Request /\ NoRequest.pc = "off" /\ NoRequest.i = 1
  BY NoRequestType
<1>2. req \in [Thread -> Request] /\ \A t \in Thread : req[t].pc = "off" /\ req[t].i = 1
  BY <1>1 DEF Init
<1>3. LoaderTypeOK
  <2>1. DOMAIN symbols = {}
    BY DEF Init
  <2>2. load_mode \in [File -> 0..3]
    BY DEF Init
  <2>3. loader_init_done \in BOOLEAN
    BY DEF Init
  <2>4. mutex \in Thread \cup {Null}
    BY DEF Init
  <2> QED BY <1>2, <2>1, <2>2, <2>3, <2>4, TypeOfRequests
<1>4. \A t \in Thread : IndexOK(req[t])
  BY <1>2 DEF IndexOK
<1>5. MutexHeld /\ CompleteWhenDone
  BY <1>2 DEF MutexHeld, CompleteWhenDone, Critical, Filling, Ready
<1> QED BY <1>3, <1>4, <1>5 DEF LoaderInv

-----------------------------------------------------------------------------
\* One step at a time

LEMMA BeginEndKeepsInv ==
    ASSUME LoaderInv, NEW t \in Thread, BeginRequest(t) \/ EndRequest(t)
    PROVE  LoaderInv'
<1>1. PICK q \in {NoRequest, [NoRequest EXCEPT !.pc = "lock"]} :
        /\ req' = [req EXCEPT ![t] = q]
        /\ UNCHANGED <<load_mode, symbols, loader_init_done, mutex>>
  BY DEF BeginRequest, EndRequest
<1>2. q \in Request /\ q.pc \in {"off", "lock"} /\ q.i = 1
  BY NoRequestType
<1>3. IndexOK(q)
  BY <1>2 DEF IndexOK
<1> QED BY <1>1, <1>2, <1>3, QuietStep DEF Critical, Filling

\* What Goto makes of a request
LEMMA GotoType ==
    ASSUME LoaderInv, NEW t \in Thread, NEW pc \in Pc, NEW i \in Nat, Goto(t, pc, i)
    PROVE  \E q \in Request : /\ req' = [req EXCEPT ![t] = q]
                             /\ q.pc = pc /\ q.i = i /\ q.status = req[t].status
<1> DEFINE q == [req[t] EXCEPT !.pc = pc, !.i = i]
<1>1. req[t] \in Request
  BY TypeOfRequests DEF LoaderInv
<1>2. q \in Request /\ q.pc = pc /\ q.i = i /\ q.status = req[t].status
  BY <1>1 DEF Request
<1>3. req' = [req EXCEPT ![t] = q]
  BY DEF Goto
<1> QED BY <1>2, <1>3

LEMMA LockKeepsInv ==
    ASSUME LoaderInv, NEW t \in Thread, LockSymbols(t)
    PROVE  LoaderInv'
<1> DEFINE pc == IF loader_init_done THEN "unlock" ELSE "parser"
<1>1. /\ mutex = Null /\ mutex' = (IF ZTS THEN t ELSE Null) /\ Goto(t, pc, 1)
      /\ UNCHANGED <<load_mode, symbols, loader_init_done>>
  BY DEF LockSymbols
<1>2. pc \in Pc /\ 1 \in Nat
  BY DEF Pc
<1>3. PICK q \in Request : /\ req' = [req EXCEPT ![t] = q]
                           /\ q.pc = pc /\ q.i = 1 /\ q.status = req[t].status
  BY <1>1, <1>2, GotoType
<1>4. IndexOK(q)
  BY <1>3 DEF IndexOK
<1>5. TableType' /\ loader_init_done' \in BOOLEAN /\ mutex' \in Thread \cup {Null}
  BY <1>1 DEF LoaderInv, LoaderTypeOK, TableType
<1>6. \A u \in Thread \ {t} : ~(req[u].pc \in Critical /\ ZTS)
  BY <1>1, LoaderAssumption DEF LoaderInv, MutexHeld
<1>7. /\ q.pc \in Critical /\ ZTS => mutex' = t
      /\ q.pc \in {"loop", "run"} => loader_init_done'
      /\ q.pc = "unlock" => loader_init_done'
      /\ q.pc \in Filling => ~loader_init_done'
      /\ loader_init_done' = loader_init_done
  BY <1>1, <1>3 DEF Filling
<1> QED BY <1>3, <1>4, <1>5, <1>6, <1>7, RequestStep

LEMMA UnlockKeepsInv ==
    ASSUME LoaderInv, NEW t \in Thread, UnlockSymbols(t)
    PROVE  LoaderInv'
<1> DEFINE pc == IF req[t].status = "SUCCESS" THEN "loop" ELSE "exit"
<1>1. /\ req[t].pc = "unlock" /\ mutex' = Null /\ Goto(t, pc, 1)
      /\ UNCHANGED <<load_mode, symbols, loader_init_done>>
  BY DEF UnlockSymbols
<1>2. pc \in Pc /\ 1 \in Nat
  BY DEF Pc
<1>3. PICK q \in Request : /\ req' = [req EXCEPT ![t] = q]
                           /\ q.pc = pc /\ q.i = 1 /\ q.status = req[t].status
  BY <1>1, <1>2, GotoType
<1>4. IndexOK(q)
  BY <1>3 DEF IndexOK
<1>5. TableType' /\ loader_init_done' \in BOOLEAN /\ mutex' \in Thread \cup {Null}
  BY <1>1 DEF LoaderInv, LoaderTypeOK, TableType
<1>6. \A u \in Thread \ {t} : ~(req[u].pc \in Critical /\ ZTS)
  <2>1. req[t].pc \in Critical
    BY <1>1 DEF Critical
  <2> QED BY <2>1, Alone
<1>7. q.pc = "loop" => loader_init_done'
  BY <1>1, <1>3 DEF LoaderInv, CompleteWhenDone
<1>8. q.pc \in {"loop", "exit"} /\ loader_init_done' = loader_init_done
  BY <1>1, <1>3
<1> QED BY <1>3, <1>4, <1>5, <1>6, <1>7, <1>8, RequestStep DEF Critical, Filling

LEMMA InitDoneKeepsInv ==
    ASSUME LoaderInv, NEW t \in Thread, InitDone(t)
    PROVE  LoaderInv'
<1>1. /\ req[t].pc = "register" /\ loader_init_done' = TRUE /\ Goto(t, "unlock", 1)
      /\ UNCHANGED <<load_mode, symbols, mutex>>
  BY DEF InitDone
<1>2. "unlock" \in Pc /\ 1 \in Nat
  BY DEF Pc
<1>3. PICK q \in Request : /\ req' = [req EXCEPT ![t] = q]
                           /\ q.pc = "unlock" /\ q.i = 1 /\ q.status = req[t].status
  BY <1>1, <1>2, GotoType
<1>4. IndexOK(q)
  BY <1>3 DEF IndexOK
<1>5. TableType' /\ loader_init_done' \in BOOLEAN /\ mutex' \in Thread \cup {Null}
  BY <1>1 DEF LoaderInv, LoaderTypeOK, TableType
<1>6. req[t].pc \in Filling /\ (ZTS => mutex' = t)
  BY <1>1 DEF LoaderInv, MutexHeld, Critical, Filling
<1> QED BY <1>1, <1>3, <1>4, <1>5, <1>6, RequestStep DEF Filling

\* A step of the request that fills the table
LEMMA FillStep ==
    ASSUME LoaderInv, NEW t \in Thread, NEW q \in Request, IndexOK(q),
           req' = [req EXCEPT ![t] = q], req[t].pc \in Filling,
           TableType', UNCHANGED <<loader_init_done, mutex>>,
           q.pc \in Filling \cup {"failed", "aborted", "exit"}
    PROVE  LoaderInv'
<1>1. loader_init_done' \in BOOLEAN /\ mutex' \in Thread \cup {Null}
  BY DEF LoaderInv, LoaderTypeOK
<1>2. q.pc \in Critical /\ ZTS => mutex' = t
  BY DEF LoaderInv, MutexHeld, Critical
<1>3. q.pc \in Filling => ~loader_init_done'
  BY DEF LoaderInv, CompleteWhenDone
<1>4. q.pc \notin {"loop", "run", "unlock"}
  BY DEF Filling
<1> QED BY <1>1, <1>2, <1>3, <1>4, RequestStep

\* The file a request registers
LEMMA RegisteringFile ==
    ASSUME LoaderInv, NEW t \in Thread, req[t].i <= Len(FileList)
    PROVE  /\ req[t].i \in Nat /\ req[t].i + 1 \in Nat /\ req[t].i + 1 >= 1
           /\ Registering(t) \in File
           /\ Script[Registering(t)].flags \in 0..3
           /\ Script[Registering(t)].keys \in Seq(Key)
<1>1. req[t] \in Request /\ IndexOK(req[t])
  BY TypeOfRequests DEF LoaderInv
<1>2. req[t].i \in Nat /\ req[t].i >= 1
  BY <1>1 DEF Request, IndexOK
<1>3. Registering(t) \in File
  BY <1>2, LoaderAssumption DEF Registering
<1> QED BY <1>2, <1>3, LoaderAssumption

\* The mode of one file is set
LEMMA ModeType ==
    ASSUME LoaderInv, NEW f \in File, NEW m \in 0..3,
           load_mode' = [load_mode EXCEPT ![f] = m], UNCHANGED symbols
    PROVE  TableType'
<1>1. load_mode \in [File -> 0..3]
  BY DEF LoaderInv, LoaderTypeOK
<1>2. load_mode' \in [File -> 0..3]
  BY <1>1
<1>3. /\ DOMAIN symbols \subseteq Key
      /\ \A k \in DOMAIN symbols : symbols[k] \in File
  BY DEF LoaderInv, LoaderTypeOK
<1> QED BY <1>2, <1>3 DEF TableType

\* The next file is registered
LEMMA NextFileKeepsInv ==
    ASSUME LoaderInv, NEW t \in Thread, req[t].pc \in Filling, req[t].i <= Len(FileList),
           Goto(t, "register", req[t].i + 1),
           TableType', UNCHANGED <<loader_init_done, mutex>>
    PROVE  LoaderInv'
<1>1. req[t].i + 1 \in Nat /\ req[t].i + 1 >= 1 /\ "register" \in Pc
  BY RegisteringFile DEF Pc
<1>2. PICK q \in Request : /\ req' = [req EXCEPT ![t] = q]
                           /\ q.pc = "register" /\ q.i = req[t].i + 1
  BY <1>1, GotoType
<1>3. IndexOK(q)
  BY <1>1, <1>2 DEF IndexOK
<1> QED BY <1>2, <1>3, FillStep DEF Filling

LEMMA ErrorKeepsInv ==
    ASSUME LoaderInv, NEW t \in Thread, req[t].pc \in {"register", "keys"},
           req[t].i <= Len(FileList), ErrorInFile(t),
           TableType', UNCHANGED <<loader_init_done, mutex>>
    PROVE  LoaderInv'
<1>1. req[t].pc \in Filling
  BY DEF Filling
<1> DEFINE q == BailedOut(req[t])
<1>2. req[t] \in Request /\ IndexOK(req[t])
  BY TypeOfRequests DEF LoaderInv
<1>3. LoadOutcome(req[t], q)
  BY <1>2, BailedOutOutcome
<1>4. q \in Request /\ IndexOK(q) /\ req' = [req EXCEPT ![t] = q]
  BY <1>3 DEF LoadOutcome, ErrorInFile
<1>5. q.pc \in Filling \cup {"failed", "aborted", "exit"}
  BY <1>1, <1>3 DEF LoadOutcome, Filling
<1> HIDE DEF q
<1> QED BY <1>1, <1>4, <1>5, FillStep

LEMMA LoadParserKeepsInv ==
    ASSUME LoaderInv, NEW t \in Thread, LoadParser(t)
    PROVE  LoaderInv'
<1>1. req[t] \in Request /\ IndexOK(req[t]) /\ req[t].i \in Nat /\ req[t].i >= 1
  BY TypeOfRequests DEF LoaderInv, Request, IndexOK
<1>2. /\ req[t].pc = "parser" /\ req[t].pc \in Filling
      /\ UNCHANGED <<load_mode, symbols, loader_init_done, mutex>>
  BY DEF LoadParser, Filling
<1>3. TableType'
  BY <1>2 DEF LoaderInv, LoaderTypeOK, TableType
<1>4. CASE req[t].i <= Len(Parser)
  <2> DEFINE q == Pushed(req[t], Parser[req[t].i])
  <2>1. Parser[req[t].i] \in File
    BY <1>1, <1>4, LoaderAssumption
  <2>2. req' = [req EXCEPT ![t] = q]
    BY <1>4 DEF LoadParser
  <2>3. LoadOutcome(req[t], q)
    BY <1>1, <2>1, PushedOutcome
  <2>4. q \in Request /\ IndexOK(q) /\ q.pc \in {"parser", "failed", "aborted", "exit", "unlock"}
    BY <1>2, <2>3 DEF LoadOutcome
  <2>5. q.pc = req[t].pc
    BY <1>1 DEF Pushed, Request
  <2> HIDE DEF q
  <2> QED BY <1>2, <1>3, <2>2, <2>4, <2>5, FillStep
<1>5. CASE ~(req[t].i <= Len(Parser))
  <2>1. Goto(t, "register", 1) /\ "register" \in Pc /\ 1 \in Nat
    BY <1>5 DEF LoadParser, Pc
  <2>2. PICK q \in Request : /\ req' = [req EXCEPT ![t] = q]
                             /\ q.pc = "register" /\ q.i = 1
    BY <2>1, GotoType
  <2>3. IndexOK(q)
    BY <2>2 DEF IndexOK
  <2> QED BY <1>2, <1>3, <2>2, <2>3, FillStep DEF Filling
<1> QED BY <1>4, <1>5

LEMMA RegisterKeepsInv ==
    ASSUME LoaderInv, NEW t \in Thread,
           RegisterUnparsed(t) \/ RegisterParsed(t) \/ ParseError(t)
    PROVE  LoaderInv'
<1> DEFINE f == Registering(t)
<1>1. /\ req[t].pc = "register" /\ req[t].i <= Len(FileList)
      /\ UNCHANGED <<loader_init_done, mutex>> /\ UNCHANGED symbols
  BY DEF RegisterUnparsed, RegisterParsed, ParseError
<1>2. f \in File /\ Script[f].flags \in 0..3 /\ Script[f].keys \in Seq(Key)
  BY <1>1, RegisteringFile
<1>3. req[t].pc \in Filling
  BY <1>1 DEF Filling
<1>4. CASE RegisterUnparsed(t)
  <2> DEFINE m == IF Forced(f) THEN Script[f].flags ELSE NONE
  <2>1. load_mode' = [load_mode EXCEPT ![f] = m] /\ Goto(t, "register", req[t].i + 1)
    BY <1>4 DEF RegisterUnparsed
  <2>2. m \in 0..3
    BY <1>2 DEF NONE
  <2> HIDE DEF f, m
  <2>3. TableType'
    BY <1>1, <1>2, <2>1, <2>2, ModeType
  <2> QED BY <1>1, <1>3, <2>1, <2>3, NextFileKeepsInv
<1>5. CASE RegisterParsed(t)
  <2> DEFINE q == [req[t] EXCEPT !.pc = "keys", !.keys = Script[f].keys]
  <2>1. load_mode' = [load_mode EXCEPT ![f] = Script[f].flags] /\ req' = [req EXCEPT ![t] = q]
    BY <1>5 DEF RegisterParsed
  <2>2. req[t] \in Request /\ IndexOK(req[t])
    BY TypeOfRequests DEF LoaderInv
  <2> HIDE DEF f
  <2>3. TableType'
    BY <1>1, <1>2, <2>1, ModeType
  <2>4. q \in Request /\ q.pc = "keys" /\ q.i = req[t].i
    BY <1>2, <2>2 DEF Request, Pc
  <2> HIDE DEF q
  <2>5. IndexOK(q)
    BY <1>1, <2>2, <2>4 DEF IndexOK
  <2> QED BY <1>1, <1>3, <2>1, <2>3, <2>4, <2>5, FillStep DEF Filling
<1>6. CASE ParseError(t)
  <2>1. load_mode' = [load_mode EXCEPT ![f] = Script[f].flags] /\ ErrorInFile(t)
    BY <1>6 DEF ParseError
  <2> HIDE DEF f
  <2>2. TableType'
    BY <1>1, <1>2, <2>1, ModeType
  <2> QED BY <1>1, <2>1, <2>2, ErrorKeepsInv
<1> QED BY <1>4, <1>5, <1>6

LEMMA KeysKeepInv ==
    ASSUME LoaderInv, NEW t \in Thread,
           RegisterKey(t) \/ DuplicateKey(t) \/ FileRegistered(t)
    PROVE  LoaderInv'
<1> DEFINE f == Registering(t)
<1>1. req[t].pc = "keys" /\ UNCHANGED <<loader_init_done, mutex>>
  BY DEF RegisterKey, DuplicateKey, FileRegistered
<1>2. req[t] \in Request /\ IndexOK(req[t]) /\ req[t].i <= Len(FileList)
  BY <1>1, TypeOfRequests DEF LoaderInv, IndexOK
<1>3. f \in File /\ req[t].pc \in Filling
  BY <1>1, <1>2, RegisteringFile DEF Filling
<1>4. TableType
  BY DEF LoaderInv, LoaderTypeOK, TableType
<1>5. CASE RegisterKey(t)
  <2> DEFINE keys == req[t].keys
             k == Head(keys)
             q == [req[t] EXCEPT !.keys = Tail(keys)]
  <2>1. keys \in Seq(Key) /\ keys # <<>>
    BY <1>2, <1>5 DEF Request, RegisterKey
  <2>2. k \in Key /\ Tail(keys) \in Seq(Key)
    BY <2>1
  <2>3. symbols' = Put(symbols, k, f) /\ req' = [req EXCEPT ![t] = q] /\ load_mode' = load_mode
    BY <1>5 DEF RegisterKey
  <2> HIDE DEF f, k
  <2>4. TableType'
    BY <1>3, <1>4, <2>2, <2>3 DEF TableType, Put
  <2>5. q \in Request /\ q.pc = req[t].pc /\ q.i = req[t].i
    BY <1>2, <2>2 DEF Request
  <2> HIDE DEF q
  <2>6. IndexOK(q)
    BY <1>2, <2>5 DEF IndexOK
  <2> QED BY <1>1, <1>3, <2>3, <2>4, <2>5, <2>6, FillStep
<1>6. CASE DuplicateKey(t)
  <2>1. ErrorInFile(t) /\ UNCHANGED <<load_mode, symbols>>
    BY <1>6 DEF DuplicateKey
  <2>2. TableType'
    BY <1>4, <2>1 DEF TableType
  <2> QED BY <1>1, <1>2, <2>1, <2>2, ErrorKeepsInv
<1>7. CASE FileRegistered(t)
  <2> DEFINE m == IF load_mode[f] = 0 THEN ChosenMode(f) ELSE load_mode[f]
  <2>1. ChosenMode(f) \in 0..3
    BY DEF ChosenMode, NONE, RINIT, AUTOLOAD
  <2>2. m \in 0..3
    BY <1>3, <1>4, <2>1 DEF TableType
  <2>3. /\ load_mode' = [load_mode EXCEPT ![f] = m] /\ UNCHANGED symbols
        /\ Goto(t, "register", req[t].i + 1)
    BY <1>7 DEF FileRegistered
  <2> HIDE DEF f, m
  <2>4. TableType'
    BY <1>3, <2>2, <2>3, ModeType
  <2> QED BY <1>1, <1>2, <1>3, <2>3, <2>4, NextFileKeepsInv
<1> QED BY <1>5, <1>6, <1>7

\* A file that begins, in the RINIT loop or in the script
LEMMA PushKeepsInv ==
    ASSUME LoaderInv, NEW t \in Thread, NEW f \in File,
           req' = [req EXCEPT ![t] = Pushed(req[t], f)],
           UNCHANGED <<load_mode, symbols, loader_init_done, mutex>>
    PROVE  LoaderInv'
<1> DEFINE q == Pushed(req[t], f)
<1>1. req[t] \in Request /\ IndexOK(req[t])
  BY TypeOfRequests DEF LoaderInv
<1>2. LoadOutcome(req[t], q)
  BY <1>1, PushedOutcome
<1>3. q.pc = req[t].pc /\ q.status = req[t].status
  BY <1>1 DEF Pushed, Request
<1>4. q \in Request /\ IndexOK(q) /\ req' = [req EXCEPT ![t] = q]
  BY <1>2 DEF LoadOutcome
<1> HIDE DEF q
<1> QED BY <1>3, <1>4, QuietStep

LEMMA LoadRinitKeepsInv ==
    ASSUME LoaderInv, NEW t \in Thread, LoadRinit(t)
    PROVE  LoaderInv'
<1>1. req[t] \in Request /\ req[t].i \in Nat /\ req[t].i >= 1
  BY TypeOfRequests DEF LoaderInv, Request, IndexOK
<1>2. req[t].pc = "loop" /\ UNCHANGED <<load_mode, symbols, loader_init_done, mutex>>
  BY DEF LoadRinit
<1>3. CASE req[t].i <= Len(FileList) /\ load_mode[FileList[req[t].i]] = RINIT
  <2>1. req' = [req EXCEPT ![t] = Pushed(req[t], FileList[req[t].i])]
    BY <1>3 DEF LoadRinit
  <2>2. FileList[req[t].i] \in File
    BY <1>1, <1>3, LoaderAssumption
  <2> QED BY <1>2, <2>1, <2>2, PushKeepsInv
<1>4. CASE ~(req[t].i <= Len(FileList) /\ load_mode[FileList[req[t].i]] = RINIT)
  <2>1. PICK pc \in {"loop", "run"}, i \in {1, req[t].i + 1} : Goto(t, pc, i)
    BY <1>4 DEF LoadRinit
  <2>2. pc \in Pc /\ i \in Nat /\ i >= 1
    BY <1>1, <2>1 DEF Pc
  <2>3. PICK q \in Request : /\ req' = [req EXCEPT ![t] = q]
                             /\ q.pc = pc /\ q.i = i
    BY <2>1, <2>2, GotoType
  <2>4. IndexOK(q)
    BY <2>1, <2>2, <2>3 DEF IndexOK
  <2> QED BY <1>2, <2>1, <2>3, <2>4, QuietStep DEF Critical, Filling
<1> QED BY <1>3, <1>4

LEMMA ScriptKeepsInv ==
    ASSUME LoaderInv, NEW t \in Thread,
           \/ \E k \in Wanted, autoload \in BOOLEAN : LoadSymbol(t, k, autoload)
           \/ \E f \in Loadable : PCS_loadScript(t, f)
    PROVE  LoaderInv'
<1>1. UNCHANGED <<load_mode, symbols, loader_init_done, mutex>>
  BY DEF LoadSymbol, PCS_loadScript
<1>2. PICK f \in File : req' = [req EXCEPT ![t] = Pushed(req[t], f)]
  BY LoaderAssumption DEF LoadSymbol, PCS_loadScript, MustLoad, LoaderInv, LoaderTypeOK
<1> QED BY <1>1, <1>2, PushKeepsInv

LEMMA LoaderInvNext == LoaderInv /\ [Next]_vars => LoaderInv'
<1> SUFFICES ASSUME LoaderInv, [Next]_vars PROVE LoaderInv'
  OBVIOUS
<1>1. CASE UNCHANGED vars
  <2>1. /\ UNCHANGED load_mode /\ UNCHANGED symbols /\ UNCHANGED loader_init_done
        /\ UNCHANGED mutex /\ UNCHANGED req
    BY <1>1 DEF vars
  <2>2. LoaderTypeOK'
    BY <2>1 DEF LoaderInv, LoaderTypeOK
  <2>3. (\A t \in Thread : IndexOK(req[t]))'
    BY <2>1 DEF LoaderInv, IndexOK
  <2>4. MutexHeld' /\ CompleteWhenDone'
    BY <2>1 DEF LoaderInv, MutexHeld, CompleteWhenDone, Ready
  <2> QED BY <2>2, <2>3, <2>4 DEF LoaderInv
<1>2. ASSUME NEW t \in Thread, RinitStep(t)
      PROVE  LoaderInv'
  BY <1>2, LoadParserKeepsInv, RegisterKeepsInv, KeysKeepInv, InitDoneKeepsInv,
     UnlockKeepsInv, LoadRinitKeepsInv, LoadStepKeepsInv DEF RinitStep
<1>3. ASSUME NEW t \in Thread,
             \/ BeginRequest(t) \/ LockSymbols(t) \/ EndRequest(t) \/ LoadStep(t)
             \/ \E k \in Wanted, autoload \in BOOLEAN : LoadSymbol(t, k, autoload)
             \/ \E f \in Loadable : PCS_loadScript(t, f)
      PROVE  LoaderInv'
  BY <1>3, BeginEndKeepsInv, LockKeepsInv, LoadStepKeepsInv, ScriptKeepsInv
<1> QED BY <1>1, <1>2, <1>3 DEF Next

-----------------------------------------------------------------------------
THEOREM LoaderInvariant == Spec => []LoaderInv
<1> QED BY LoaderInvInit, LoaderInvNext, PTL DEF Spec

\* The index of a request, its keys and its stack of files are what the loader
\* expects, and the table maps symbols to files, through any bailout.
THEOREM LoaderTypes == Spec => []LoaderTypeOK
<1>1. LoaderInv => LoaderTypeOK
  BY DEF LoaderInv
<1> QED BY <1>1, LoaderInvariant, PTL

\* No request gets past the mutex before the symbol table is complete, also
\* after an initialisation that failed or bailed out.
THEOREM TableIsComplete == Spec => []ReadyAfterInit
<1>1. LoaderInv => ReadyAfterInit
  BY DEF LoaderInv, CompleteWhenDone, ReadyAfterInit
<1> QED BY <1>1, LoaderInvariant, PTL

\* The steps that write to the table are those of a request that fills it.
LEMMA TableWriter ==
    ASSUME [Next]_vars, LoaderInv
    PROVE  UNCHANGED table \/ \E t \in Thread : req[t].pc \in Filling
<1>1. ASSUME NEW t \in Thread, LoadStep(t) PROVE UNCHANGED table
  BY <1>1, LoadStepOutcome DEF table
<1>2. ASSUME NEW t \in Thread, RinitStep(t)
      PROVE  UNCHANGED table \/ req[t].pc \in Filling
  BY <1>1, <1>2
     DEF RinitStep, LoadParser, RegisterUnparsed, RegisterParsed, ParseError, RegisterKey,
         DuplicateKey, FileRegistered, InitDone, UnlockSymbols, LoadRinit, Filling, table
<1>3. ASSUME NEW t \in Thread,
             \/ BeginRequest(t) \/ LockSymbols(t) \/ EndRequest(t)
             \/ \E k \in Wanted, autoload \in BOOLEAN : LoadSymbol(t, k, autoload)
             \/ \E f \in Loadable : PCS_loadScript(t, f)
      PROVE  UNCHANGED table
  BY <1>3 DEF BeginRequest, LockSymbols, EndRequest, LoadSymbol, PCS_loadScript, table
<1> QED BY <1>1, <1>2, <1>3 DEF Next, vars, table

\* Requests read the symbol table and the load modes without the mutex: no
\* thread writes to them while any request can do so.
THEOREM NoWriteUnderReader == Spec => TableFrozen
<1>1. LoaderInv /\ [Next]_vars => [(\E t \in Thread : Ready(t)) => UNCHANGED table]_vars
  BY TableWriter DEF LoaderInv, CompleteWhenDone
<1> QED BY <1>1, LoaderInvariant, PTL DEF Spec, TableFrozen

-----------------------------------------------------------------------------
\* What a request has loaded

Declares(f) == Script[f].declares
AllWait(s)  == \A m \in 1..Len(s) : s[m].pc = "wait"
Bottom(s)   == s[Len(s)].file

\* A file of the stack s that is not being compiled has declared its symbols.
\* All but the innermost one wait.
Frames(s, defined) ==
    \A m \in 1..Len(s) :
      /\ m > 1 => s[m].pc = "wait"
      /\ s[m].pc # "compile" => Declares(s[m].file) \subseteq defined

\* Those of the first n files that are loaded at RINIT are loaded.
RinitUpTo(n, mode, defined) ==
    \A j \in 1..Len(FileList) :
      j <= n /\ mode[FileList[j]] = RINIT => Declares(FileList[j]) \subseteq defined

\* A request that runs the loop is loading the file of its index, if any, and
\* has loaded those before; one that has ended the loop has loaded all.
RinitOK(r, mode) ==
    /\ Frames(r.stack, r.defined)
    /\ r.pc \in {"lock", "register", "keys", "unlock"} => r.stack = <<>>
    /\ r.pc = "loop" =>
         /\ RinitUpTo(r.i - 1, mode, r.defined)
         /\ r.stack # <<>> => r.i <= Len(FileList) /\ Bottom(r.stack) = FileList[r.i]
    /\ r.pc = "run" => RinitUpTo(Len(FileList), mode, r.defined)

RinitInv == \A t \in Thread : RinitOK(req[t], load_mode)

LEMMA TailFrames ==
    ASSUME NEW d, NEW s \in Seq(FrameType), s # <<>>, Frames(s, d)
    PROVE  /\ Tail(s) \in Seq(FrameType) /\ Frames(Tail(s), d) /\ AllWait(Tail(s))
           /\ Tail(s) # <<>> => Bottom(Tail(s)) = Bottom(s)
           /\ Tail(s) = <<>> => Len(s) = 1
<1>1. Tail(s) \in Seq(FrameType) /\ Len(Tail(s)) = Len(s) - 1 /\ Len(s) \in Nat /\ Len(s) >= 1
  OBVIOUS
<1>2. \A m \in 1..Len(Tail(s)) : Tail(s)[m] = s[m + 1]
  OBVIOUS
<1>3. \A m \in 1..Len(Tail(s)) : m + 1 \in 1..Len(s) /\ m + 1 > 1
  BY <1>1
<1>4. Frames(Tail(s), d) /\ AllWait(Tail(s))
  <2> SUFFICES ASSUME NEW m \in 1..Len(Tail(s))
               PROVE  /\ Tail(s)[m].pc = "wait"
                      /\ Declares(Tail(s)[m].file) \subseteq d
    BY DEF Frames, AllWait
  <2>1. /\ s[m + 1].pc = "wait"
        /\ s[m + 1].pc # "compile" => Declares(s[m + 1].file) \subseteq d
    BY <1>3 DEF Frames
  <2> QED BY <1>2, <2>1
<1>5. Tail(s) # <<>> => Bottom(Tail(s)) = Bottom(s)
  BY <1>1, <1>2 DEF Bottom
<1>6. Tail(s) = <<>> => Len(s) = 1
  <2> DEFINE n == Len(Tail(s))
  <2>1. n = Len(s) - 1 /\ Len(s) \in Nat /\ (Tail(s) = <<>> => n = 0)
    BY <1>1, EmptySeq
  <2> HIDE DEF n
  <2>2. n = 0 => Len(s) = 1
    BY <2>1
  <2> QED BY <2>1, <2>2
<1> QED BY <1>1, <1>4, <1>5, <1>6

\* A file on top of others that wait
LEMMA ConsFrames ==
    ASSUME NEW d, NEW d2, d \subseteq d2, NEW s \in Seq(FrameType), NEW e \in FrameType,
           Frames(s, d), AllWait(s), e.pc # "compile" => Declares(e.file) \subseteq d2
    PROVE  /\ <<e>> \o s \in Seq(FrameType) /\ <<e>> \o s # <<>>
           /\ Frames(<<e>> \o s, d2)
           /\ e.pc = "wait" => AllWait(<<e>> \o s)
           /\ Bottom(<<e>> \o s) = IF s = <<>> THEN e.file ELSE Bottom(s)
<1> DEFINE c == <<e>> \o s
<1>1. c \in Seq(FrameType) /\ Len(c) = Len(s) + 1 /\ Len(s) \in Nat
  OBVIOUS
<1>2. c[1] = e /\ \A m \in 1..Len(s) : c[m + 1] = s[m]
  OBVIOUS
<1>3. \A m \in 1..Len(c) : m = 1 \/ (m - 1 \in 1..Len(s) /\ c[m] = s[m - 1])
  <2> TAKE m \in 1..Len(c)
  <2>1. CASE m # 1
    <3>1. m - 1 \in 1..Len(s) /\ (m - 1) + 1 = m
      BY <1>1, <2>1
    <3> HIDE DEF c
    <3> QED BY <1>2, <3>1
  <2> QED BY <2>1
<1> HIDE DEF c
<1>4. Frames(c, d2)
  <2> SUFFICES ASSUME NEW m \in 1..Len(c)
               PROVE  /\ m > 1 => c[m].pc = "wait"
                      /\ c[m].pc # "compile" => Declares(c[m].file) \subseteq d2
    BY DEF Frames
  <2>1. CASE m = 1
    BY <1>2, <2>1
  <2>2. CASE m # 1
    <3>1. m - 1 \in 1..Len(s) /\ c[m] = s[m - 1]
      BY <1>3, <2>2
    <3>2. s[m - 1].pc = "wait" /\ Declares(s[m - 1].file) \subseteq d
      BY <3>1 DEF Frames, AllWait
    <3> QED BY <3>1, <3>2
  <2> QED BY <2>1, <2>2
<1>5. e.pc = "wait" => AllWait(c)
  BY <1>2, <1>3 DEF AllWait
<1>6. Bottom(c) = IF s = <<>> THEN e.file ELSE Bottom(s)
  <2>1. CASE s = <<>>
    BY <1>1, <1>2, <2>1 DEF Bottom
  <2>2. CASE s # <<>>
    <3>1. Len(s) \in 1..Len(s)
      BY <2>2
    <3> QED BY <1>1, <1>2, <2>2, <3>1 DEF Bottom
  <2> QED BY <2>1, <2>2
<1>7. c # <<>>
  BY <1>1
<1> QED BY <1>1, <1>4, <1>5, <1>6, <1>7 DEF c

LEMMA ReturnedParts ==
    ASSUME NEW r \in Request, NEW stack \in Seq(FrameType), NEW status \in {"SUCCESS", "FAILURE"}
    PROVE  /\ Returned(r, stack, status).stack = stack
           /\ Returned(r, stack, status).defined = r.defined
           /\ stack # <<>> \/ r.pc \notin {"parser", "loop"} =>
                /\ Returned(r, stack, status).pc = r.pc
                /\ Returned(r, stack, status).i = r.i
           /\ stack = <<>> /\ r.pc \in {"parser", "loop"} /\ status = "SUCCESS" =>
                /\ Returned(r, stack, status).pc = r.pc
                /\ Returned(r, stack, status).i = r.i + 1
           /\ stack = <<>> /\ r.pc \in {"parser", "loop"} /\ status = "FAILURE" =>
                Returned(r, stack, status).pc \in {"unlock", "exit"}
<1> DEFINE back == [r EXCEPT !.stack = stack]
<1>1. /\ back \in Request /\ back.pc = r.pc /\ back.i = r.i /\ back.status = r.status
      /\ back.stack = stack /\ back.defined = r.defined
  BY DEF Request
<1>2. CASE stack # <<>> \/ r.pc \notin {"parser", "loop"}
  <2>1. Returned(r, stack, status) = back
    BY <1>2 DEF Returned
  <2> HIDE DEF back
  <2> QED BY <1>1, <1>2, <2>1
<1>3. CASE stack = <<>> /\ r.pc \in {"parser", "loop"} /\ status = "SUCCESS"
  <2> DEFINE q == [back EXCEPT !.i = @ + 1]
  <2>1. Returned(r, stack, status) = q
    BY <1>3 DEF Returned
  <2> HIDE DEF back
  <2>2. /\ q.stack = back.stack /\ q.defined = back.defined /\ q.pc = back.pc
        /\ q.i = back.i + 1
    BY <1>1 DEF Request
  <2> HIDE DEF q
  <2> QED BY <1>1, <1>3, <2>1, <2>2
<1>4. CASE stack = <<>> /\ r.pc \in {"parser", "loop"} /\ status = "FAILURE"
  <2> DEFINE q == [back EXCEPT !.pc = IF r.pc = "parser" THEN "unlock" ELSE "exit",
                               !.status = status]
  <2>1. Returned(r, stack, status) = q
    BY <1>4 DEF Returned
  <2> HIDE DEF back
  <2>2. /\ q.stack = back.stack /\ q.defined = back.defined
        /\ q.pc = (IF r.pc = "parser" THEN "unlock" ELSE "exit")
    BY <1>1 DEF Request
  <2> HIDE DEF q
  <2> QED BY <1>1, <1>4, <2>1, <2>2
<1> QED BY <1>2, <1>3, <1>4

\* The ways in which a step of PCS_Loader_loadNode changes a request r to q
LEMMA LoadedOK ==
    ASSUME NEW mode, NEW r \in Request, IndexOK(r), RinitOK(r, mode), r.stack # <<>>,
           NEW q, Frames(q.stack, q.defined), r.defined \subseteq q.defined,
           \/ /\ q.stack # <<>> /\ Bottom(q.stack) = Bottom(r.stack)
              /\ q.pc = r.pc /\ q.i = r.i
           \/ q.stack = <<>> /\ q.pc \in {"failed", "aborted", "exit", "unlock"}
           \/ q.stack = <<>> /\ q.pc = r.pc /\ r.pc # "loop"
           \/ /\ q.stack = <<>> /\ q.pc = "loop" /\ r.pc = "loop" /\ q.i = r.i + 1
              /\ Declares(Bottom(r.stack)) \subseteq q.defined
    PROVE  RinitOK(q, mode)
<1>1. q.pc \in {"lock", "register", "keys", "unlock"} => q.stack = <<>>
  BY DEF RinitOK
<1>2. ASSUME NEW n, RinitUpTo(n, mode, r.defined)
      PROVE  RinitUpTo(n, mode, q.defined)
  BY <1>2 DEF RinitUpTo
<1>3. q.pc = "run" => RinitUpTo(Len(FileList), mode, q.defined)
  BY <1>2 DEF RinitOK
<1>4. CASE q.pc = "loop"
  <2>1. /\ r.pc = "loop" /\ RinitUpTo(r.i - 1, mode, q.defined)
        /\ r.i <= Len(FileList) /\ Bottom(r.stack) = FileList[r.i]
    BY <1>2, <1>4 DEF RinitOK
  <2>2. CASE q.stack # <<>>
    BY <1>1, <1>3, <1>4, <2>1, <2>2 DEF RinitOK
  <2>3. CASE q.stack = <<>>
    <3>1. q.i = r.i + 1 /\ Declares(FileList[r.i]) \subseteq q.defined
      BY <1>4, <2>1, <2>3
    <3>2. r.i \in Nat
      BY DEF Request
    <3>3. RinitUpTo(q.i - 1, mode, q.defined)
      <4> SUFFICES ASSUME NEW j \in 1..Len(FileList), j <= q.i - 1, mode[FileList[j]] = RINIT
                   PROVE  Declares(FileList[j]) \subseteq q.defined
        BY DEF RinitUpTo
      <4>1. j = r.i \/ j <= r.i - 1
        BY <3>1, <3>2
      <4> QED BY <2>1, <3>1, <4>1 DEF RinitUpTo
    <3> QED BY <1>1, <1>4, <2>3, <3>3 DEF RinitOK
  <2> QED BY <2>2, <2>3
<1> QED BY <1>1, <1>3, <1>4 DEF RinitOK

\* The innermost file of a request goes on, or waits.
LEMMA OnTopParts ==
    ASSUME NEW r \in Request, r.stack # <<>>,
           NEW pc \in {"compile", "exec", "wait"}, NEW rest \in Seq(ClassKey)
    PROVE  \E e \in FrameType :
             /\ e.file = r.stack[1].file /\ e.pc = pc
             /\ OnTop(r, pc, rest).stack = <<e>> \o Tail(r.stack)
<1> DEFINE e == [file |-> r.stack[1].file, pc |-> pc, rest |-> rest]
           stack == <<e>> \o Tail(r.stack)
<1>1. r.stack \in Seq(FrameType)
  BY DEF Request
<1>2. r.stack[1] \in FrameType
  BY <1>1
<1>3. e \in FrameType /\ e.file = r.stack[1].file /\ e.pc = pc
  BY <1>2 DEF FrameType
<1>4. OnTop(r, pc, rest) = [r EXCEPT !.stack = stack]
  BY DEF OnTop
<1> HIDE DEF stack
<1>5. OnTop(r, pc, rest).stack = stack
  BY <1>4 DEF Request
<1> QED BY <1>3, <1>5 DEF stack

\* The file at the bottom of a stack whose innermost file is not being compiled
LEMMA BottomDeclared ==
    ASSUME NEW d, NEW s \in Seq(FrameType), s # <<>>, Frames(s, d), s[1].pc # "compile"
    PROVE  Declares(Bottom(s)) \subseteq d
<1>1. Len(s) \in 1..Len(s) /\ Len(s) \in Nat /\ Len(s) >= 1
  OBVIOUS
<1>2. CASE Len(s) = 1
  BY <1>1, <1>2 DEF Frames, Bottom
<1>3. CASE Len(s) # 1
  <2> DEFINE n == Len(s)
  <2>1. n > 1
    <3>1. n \in Nat /\ n >= 1 /\ n # 1
      BY <1>1, <1>3
    <3> HIDE DEF n
    <3> QED BY <3>1
  <2>2. s[Len(s)].pc = "wait"
    BY <1>1, <2>1 DEF Frames
  <2> QED BY <1>1, <2>2 DEF Frames, Bottom
<1> QED BY <1>2, <1>3

\* PCS_Loader_loadNode returns, and the files of stack are left.
LEMMA ReturnOK ==
    ASSUME NEW mode, NEW r \in Request, IndexOK(r), RinitOK(r, mode), r.stack # <<>>,
           NEW stack \in Seq(FrameType), NEW status \in {"SUCCESS", "FAILURE"},
           Frames(stack, r.defined),
           stack # <<>> => Bottom(stack) = Bottom(r.stack),
           stack = <<>> /\ status = "SUCCESS" => r.stack[1].pc # "compile"
    PROVE  RinitOK(Returned(r, stack, status), mode)
<1> DEFINE q == Returned(r, stack, status)
<1>1. /\ q.stack = stack /\ q.defined = r.defined
      /\ stack # <<>> \/ r.pc \notin {"parser", "loop"} => q.pc = r.pc /\ q.i = r.i
      /\ stack = <<>> /\ r.pc \in {"parser", "loop"} /\ status = "SUCCESS" =>
           q.pc = r.pc /\ q.i = r.i + 1
      /\ stack = <<>> /\ r.pc \in {"parser", "loop"} /\ status = "FAILURE" =>
           q.pc \in {"unlock", "exit"}
  BY ReturnedParts
<1>2. stack = <<>> /\ status = "SUCCESS" => Declares(Bottom(r.stack)) \subseteq q.defined
  <2>1. r.stack \in Seq(FrameType) /\ Frames(r.stack, r.defined)
    BY DEF Request, RinitOK
  <2> HIDE DEF q
  <2> QED BY <1>1, <2>1, BottomDeclared
<1> HIDE DEF q
<1>3. Frames(q.stack, q.defined) /\ r.defined \subseteq q.defined
  BY <1>1
<1>4. \/ q.stack # <<>> /\ Bottom(q.stack) = Bottom(r.stack) /\ q.pc = r.pc /\ q.i = r.i
      \/ q.stack = <<>> /\ q.pc \in {"failed", "aborted", "exit", "unlock"}
      \/ q.stack = <<>> /\ q.pc = r.pc /\ r.pc # "loop"
      \/ /\ q.stack = <<>> /\ q.pc = "loop" /\ r.pc = "loop" /\ q.i = r.i + 1
         /\ Declares(Bottom(r.stack)) \subseteq q.defined
  BY <1>1, <1>2
<1> QED BY <1>3, <1>4, LoadedOK DEF q

LEMMA BailOutOK ==
    ASSUME NEW mode, NEW r \in Request, IndexOK(r), RinitOK(r, mode), r.stack # <<>>
    PROVE  RinitOK(BailedOut(r), mode)
<1> DEFINE stack == IF r.stack # <<>> /\ r.stack[1].pc = "compile"
                    THEN Tail(r.stack) ELSE r.stack
<1>1. /\ r.stack \in Seq(FrameType) /\ Frames(r.stack, r.defined)
      /\ Tail(r.stack) \in Seq(FrameType) /\ Frames(Tail(r.stack), r.defined)
      /\ Tail(r.stack) # <<>> => Bottom(Tail(r.stack)) = Bottom(r.stack)
  BY TailFrames DEF Request, RinitOK
<1>2. /\ stack \in Seq(FrameType) /\ Frames(stack, r.defined)
      /\ stack # <<>> => Bottom(stack) = Bottom(r.stack)
  BY <1>1
<1>3. CASE stack = <<>>
  <2> DEFINE pc == IF r.pc = "run" THEN "aborted" ELSE "failed"
             q == [r EXCEPT !.pc = pc, !.stack = <<>>, !.keys = <<>>]
  <2>1. BailedOut(r) = q
    BY <1>3 DEF BailedOut
  <2>2. q.pc \in {"failed", "aborted"} /\ q.stack = <<>>
    BY DEF Request
  <2> HIDE DEF q
  <2>3. Frames(q.stack, q.defined)
    BY <2>2 DEF Frames
  <2> QED BY <2>1, <2>2, <2>3 DEF RinitOK
<1>4. CASE stack # <<>>
  <2>1. BailedOut(r) = Returned(r, Tail(stack), "FAILURE")
    BY <1>4 DEF BailedOut
  <2> HIDE DEF stack
  <2>2. /\ Tail(stack) \in Seq(FrameType) /\ Frames(Tail(stack), r.defined)
        /\ Tail(stack) # <<>> => Bottom(Tail(stack)) = Bottom(r.stack)
    BY <1>2, <1>4, TailFrames
  <2> QED BY <2>1, <2>2, ReturnOK
<1> QED BY <1>3, <1>4

LEMMA LoadStepOK ==
    ASSUME LoaderInv, NEW t \in Thread, RinitOK(req[t], load_mode), LoadStep(t)
    PROVE  RinitOK(req'[t], load_mode)
<1> DEFINE r == req[t]
           top == r.stack[1]
<1>1. /\ req \in [Thread -> Request] /\ r \in Request /\ IndexOK(r)
      /\ r.stack \in Seq(FrameType) /\ r.defined \in SUBSET Key
  BY TypeOfRequests DEF LoaderInv, Request
<1>2. r.stack # <<>>
  <2>1. \E pc \in {"compile", "exec", "wait"} : At(t, pc)
    BY DEF LoadStep, Compile, FatalError, BailOut, UseDefined, UseAutoload, UseUnknown, ExecDone
  <2> QED BY <2>1 DEF At, Stack
<1>3. top \in FrameType /\ top.file \in File /\ top.rest \in Seq(ClassKey)
  <2>1. top \in FrameType
    BY <1>1, <1>2
  <2> QED BY <2>1 DEF FrameType
<1>4. /\ Tail(r.stack) \in Seq(FrameType) /\ Frames(Tail(r.stack), r.defined)
      /\ AllWait(Tail(r.stack))
      /\ Tail(r.stack) # <<>> => Bottom(Tail(r.stack)) = Bottom(r.stack)
      /\ Tail(r.stack) = <<>> => Len(r.stack) = 1
  BY <1>1, <1>2, TailFrames DEF RinitOK
<1>5. Tail(r.stack) = <<>> => Bottom(r.stack) = top.file
  BY <1>4 DEF Bottom
<1>6. top.pc # "compile" => Declares(top.file) \subseteq r.defined
  <2>1. 1 \in 1..Len(r.stack)
    BY <1>1, <1>2
  <2> QED BY <2>1 DEF RinitOK, Frames
\* The innermost file goes on in some way
<1>7. ASSUME NEW q, NEW e \in FrameType, e.file = top.file,
             q.stack = <<e>> \o Tail(r.stack), q.pc = r.pc, q.i = r.i,
             r.defined \subseteq q.defined,
             e.pc # "compile" => Declares(top.file) \subseteq q.defined
      PROVE  RinitOK(q, load_mode)
  <2> DEFINE s == <<e>> \o Tail(r.stack)
  <2>1. e.pc # "compile" => Declares(e.file) \subseteq q.defined
    BY <1>7
  <2>2. /\ s # <<>> /\ Frames(s, q.defined)
        /\ Bottom(s) = IF Tail(r.stack) = <<>> THEN e.file ELSE Bottom(Tail(r.stack))
    <3> DEFINE u == Tail(r.stack)
    <3>1. u \in Seq(FrameType) /\ Frames(u, r.defined) /\ AllWait(u)
      BY <1>4
    <3>2. r.defined \subseteq q.defined
      BY <1>7
    <3> HIDE DEF r, u
    <3> QED BY <2>1, <3>1, <3>2, ConsFrames DEF u
  <2>3. Bottom(s) = Bottom(r.stack)
    BY <1>4, <1>5, <1>7, <2>2
  <2> HIDE DEF s
  <2>4. q.stack = s
    BY <1>7 DEF s
  <2> QED BY <1>1, <1>2, <1>7, <2>2, <2>3, <2>4, LoadedOK
<1>8. CASE Compile(t)
  <2> DEFINE x == OnTop(r, "exec", Script[top.file].uses)
             q == [x EXCEPT !.defined = x.defined \cup Declares(top.file), !.noext = TRUE]
  <2>1. Script[top.file].uses \in Seq(ClassKey)
    BY <1>3, LoaderAssumption
  <2>2. /\ x \in Request /\ x.pc = r.pc /\ x.i = r.i /\ x.defined = r.defined
    BY <1>1, <1>2, <2>1, OnTopOutcome
  <2>3. PICK e \in FrameType : /\ e.file = top.file /\ e.pc = "exec"
                               /\ x.stack = <<e>> \o Tail(r.stack)
    BY <1>1, <1>2, <2>1, OnTopParts
  <2>4. req' = [req EXCEPT ![t] = q]
    BY <1>8 DEF Compile, Top, Stack, Declares
  <2> HIDE DEF x
  <2>5. /\ q.stack = x.stack /\ q.pc = x.pc /\ q.i = x.i
        /\ q.defined = x.defined \cup Declares(top.file)
    BY <2>2 DEF Request
  <2> HIDE DEF q
  <2>6. RinitOK(q, load_mode)
    BY <1>7, <2>2, <2>3, <2>5
  <2> QED BY <1>1, <2>4, <2>6
<1>9. CASE FatalError(t) \/ BailOut(t)
  <2>1. req' = [req EXCEPT ![t] = BailedOut(r)]
    BY <1>9 DEF FatalError, BailOut
  <2>2. RinitOK(BailedOut(r), load_mode)
    BY <1>1, <1>2, BailOutOK
  <2> QED BY <1>1, <2>1, <2>2
<1>10. CASE UseDefined(t)
  <2> DEFINE q == OnTop(r, "exec", Tail(top.rest))
  <2>1. /\ top.rest # <<>> /\ req' = [req EXCEPT ![t] = q] /\ top.pc # "compile"
    BY <1>10 DEF UseDefined, Continue, At, Top, Stack
  <2>2. Tail(top.rest) \in Seq(ClassKey)
    BY <1>3, <2>1
  <2>3. q.pc = r.pc /\ q.i = r.i /\ q.defined = r.defined
    BY <1>1, <1>2, <2>2, OnTopOutcome
  <2>4. PICK e \in FrameType : /\ e.file = top.file /\ e.pc = "exec"
                               /\ q.stack = <<e>> \o Tail(r.stack)
    BY <1>1, <1>2, <2>2, OnTopParts
  <2> HIDE DEF q
  <2>5. RinitOK(q, load_mode)
    BY <1>6, <1>7, <2>1, <2>3, <2>4
  <2> QED BY <1>1, <2>1, <2>5
<1>11. CASE UseAutoload(t)
  <2> DEFINE x == OnTop(r, "wait", top.rest)
             f == symbols[Class(t)]
             q == Pushed(x, f)
  <2>1. f \in File /\ req' = [req EXCEPT ![t] = q] /\ top.pc # "compile"
    BY <1>11 DEF UseAutoload, LoaderInv, LoaderTypeOK, At, Top, Stack
  <2>2. x \in Request /\ x.pc = r.pc /\ x.i = r.i /\ x.defined = r.defined
    BY <1>1, <1>2, <1>3, OnTopOutcome
  <2>3. PICK e \in FrameType : /\ e.file = top.file /\ e.pc = "wait"
                               /\ x.stack = <<e>> \o Tail(r.stack)
    BY <1>1, <1>2, <1>3, OnTopParts
  <2>4. Frame(f) \in FrameType /\ Frame(f).pc = "compile"
    BY <2>1 DEF Frame, FrameType
  <2> HIDE DEF x, f
  <2>5. /\ q.stack = <<Frame(f)>> \o x.stack /\ q.pc = x.pc /\ q.i = x.i
        /\ q.defined = x.defined
    BY <2>2 DEF Pushed, Request
  <2> HIDE DEF q
  <2>6. /\ x.stack \in Seq(FrameType) /\ x.stack # <<>>
        /\ Frames(x.stack, r.defined) /\ AllWait(x.stack)
        /\ Bottom(x.stack) = Bottom(r.stack)
    <3> DEFINE u == Tail(r.stack)
    <3>1. u \in Seq(FrameType) /\ Frames(u, r.defined) /\ AllWait(u)
      BY <1>4
    <3>2. Declares(e.file) \subseteq r.defined /\ e.pc = "wait"
      BY <1>6, <2>1, <2>3
    <3>3. /\ <<e>> \o u \in Seq(FrameType) /\ <<e>> \o u # <<>>
          /\ Frames(<<e>> \o u, r.defined) /\ AllWait(<<e>> \o u)
          /\ Bottom(<<e>> \o u) = IF u = <<>> THEN e.file ELSE Bottom(u)
      <4> DEFINE d == r.defined
      <4>1. /\ Frames(u, d) /\ d \subseteq d /\ Declares(e.file) \subseteq d
        BY <3>1, <3>2
      <4> HIDE DEF u, d
      <4>2. /\ <<e>> \o u \in Seq(FrameType) /\ <<e>> \o u # <<>>
            /\ Frames(<<e>> \o u, d)
        BY <3>1, <3>2, <4>1, ConsFrames
      <4>3. /\ AllWait(<<e>> \o u)
            /\ Bottom(<<e>> \o u) = IF u = <<>> THEN e.file ELSE Bottom(u)
        BY <3>1, <3>2, <4>1, ConsFrames
      <4> QED BY <4>2, <4>3 DEF d
    <3>4. Bottom(<<e>> \o u) = Bottom(r.stack)
      BY <1>4, <1>5, <2>3, <3>3
    <3> QED BY <2>3, <3>3, <3>4
  <2>7. /\ q.stack # <<>> /\ Frames(q.stack, r.defined) /\ Bottom(q.stack) = Bottom(x.stack)
    BY <2>4, <2>5, <2>6, ConsFrames
  <2>8. RinitOK(q, load_mode)
    BY <1>1, <1>2, <2>2, <2>5, <2>6, <2>7, LoadedOK
  <2> QED BY <1>1, <2>1, <2>8
<1>12. ASSUME NEW stack \in Seq(FrameType), top.pc # "compile",
              Frames(stack, r.defined), stack # <<>> => Bottom(stack) = Bottom(r.stack),
              req' = [req EXCEPT ![t] = Returned([r EXCEPT !.noext = FALSE], stack, "SUCCESS")]
       PROVE  RinitOK(req'[t], load_mode)
  <2> DEFINE x == [r EXCEPT !.noext = FALSE]
  <2>1. /\ x \in Request /\ x.pc = r.pc /\ x.i = r.i /\ x.stack = r.stack
        /\ x.defined = r.defined
    BY <1>1 DEF Request
  <2> HIDE DEF x
  <2>2. IndexOK(x) /\ RinitOK(x, load_mode)
    BY <1>1, <2>1 DEF IndexOK, RinitOK
  <2>3. RinitOK(Returned(x, stack, "SUCCESS"), load_mode)
    BY <1>2, <1>12, <2>1, <2>2, ReturnOK
  <2> QED BY <1>1, <1>12, <2>3 DEF x
<1>13. CASE UseUnknown(t)
  <2>1. <<>> \in Seq(FrameType) /\ Frames(<<>>, r.defined)
    BY DEF Frames
  <2>2. /\ req' = [req EXCEPT ![t] = Returned([r EXCEPT !.noext = FALSE], <<>>, "SUCCESS")]
        /\ top.pc # "compile"
    BY <1>13 DEF UseUnknown, Thrown, At, Top, Stack
  <2> QED BY <1>12, <2>1, <2>2
<1>14. CASE ExecDone(t)
  <2>1. /\ req' = [req EXCEPT ![t] = Returned([r EXCEPT !.noext = FALSE], Tail(r.stack), "SUCCESS")]
        /\ top.pc # "compile"
    BY <1>14 DEF ExecDone, At, Top, Stack
  <2> QED BY <1>4, <1>12, <2>1
<1> QED BY <1>8, <1>9, <1>10, <1>11, <1>13, <1>14 DEF LoadStep

\* A request that has no file under way and is not in the loop or its script
LEMMA IdleOK ==
    ASSUME NEW mode, NEW q, q.stack = <<>>, q.pc \notin {"loop", "run"}
    PROVE  RinitOK(q, mode)
BY DEF RinitOK, Frames

LEMMA PushOK ==
    ASSUME NEW mode, NEW r \in Request, RinitOK(r, mode), r.stack = <<>>,
           NEW f \in File, r.pc \in {"parser", "loop", "run"},
           r.pc = "loop" => r.i <= Len(FileList) /\ f = FileList[r.i]
    PROVE  RinitOK(Pushed(r, f), mode)
<1> DEFINE q == Pushed(r, f)
<1>1. /\ q.stack = <<Frame(f)>> /\ q.pc = r.pc /\ q.i = r.i /\ q.defined = r.defined
  BY DEF Pushed, Request
<1>2. Frame(f).pc = "compile" /\ Frame(f).file = f
  BY DEF Frame
<1>3. Len(<<Frame(f)>>) = 1 /\ <<Frame(f)>>[1] = Frame(f)
  OBVIOUS
<1> HIDE DEF q
<1>4. Frames(q.stack, q.defined) /\ Bottom(q.stack) = f
  BY <1>1, <1>2, <1>3 DEF Frames, Bottom
<1> QED BY <1>1, <1>4 DEF q, RinitOK

LEMMA GotoParts ==
    ASSUME LoaderInv, NEW t \in Thread, NEW pc, NEW i, Goto(t, pc, i)
    PROVE  /\ req'[t].pc = pc /\ req'[t].i = i
           /\ req'[t].stack = req[t].stack /\ req'[t].defined = req[t].defined
<1>1. req \in [Thread -> Request] /\ req[t] \in Request
  BY TypeOfRequests DEF LoaderInv
<1> QED BY <1>1 DEF Goto, Request

LEMMA ErrorIdle ==
    ASSUME LoaderInv, NEW t \in Thread, req[t].stack = <<>>, req[t].pc \in Parsing,
           ErrorInFile(t)
    PROVE  /\ req' = [req EXCEPT ![t] = [req[t] EXCEPT !.pc = "failed", !.stack = <<>>,
                                                     !.keys = <<>>]]
           /\ req'[t].stack = <<>> /\ req'[t].pc = "failed" /\ req'[t].keys = <<>>
           /\ req'[t].i = req[t].i /\ req'[t].defined = req[t].defined
           /\ req'[t].status = req[t].status
<1> DEFINE q == [req[t] EXCEPT !.pc = "failed", !.stack = <<>>, !.keys = <<>>]
<1>1. req \in [Thread -> Request] /\ req[t] \in Request
  BY TypeOfRequests DEF LoaderInv
<1>2. BailedOut(req[t]) = q
  BY DEF BailedOut, Parsing
<1>3. /\ q.stack = <<>> /\ q.pc = "failed" /\ q.keys = <<>> /\ q.i = req[t].i
      /\ q.defined = req[t].defined /\ q.status = req[t].status
  BY <1>1 DEF Request
<1> HIDE DEF q
<1>4. req' = [req EXCEPT ![t] = q] /\ req'[t] = q
  BY <1>1, <1>2 DEF ErrorInFile
<1> QED BY <1>3, <1>4 DEF q

LEMMA RegisterOK ==
    ASSUME LoaderInv, NEW t \in Thread, RinitOK(req[t], load_mode),
           \/ RegisterUnparsed(t) \/ RegisterParsed(t) \/ ParseError(t)
           \/ RegisterKey(t) \/ DuplicateKey(t) \/ FileRegistered(t) \/ InitDone(t)
           \/ LockSymbols(t)
    PROVE  RinitOK(req'[t], load_mode')
<1>1. req \in [Thread -> Request] /\ req[t] \in Request
  BY TypeOfRequests DEF LoaderInv
<1>2. req[t].pc \in {"lock", "register", "keys"}
  BY DEF RegisterUnparsed, RegisterParsed, ParseError, RegisterKey, DuplicateKey,
         FileRegistered, InitDone, LockSymbols
<1>3. req[t].stack = <<>>
  BY <1>2 DEF RinitOK
<1>4. CASE ParseError(t) \/ DuplicateKey(t)
  <2>1. ErrorInFile(t) /\ req[t].pc \in Parsing
    BY <1>4 DEF ParseError, DuplicateKey, Parsing
  <2> QED BY <1>3, <2>1, ErrorIdle, IdleOK
<1>5. CASE RegisterUnparsed(t) \/ FileRegistered(t) \/ InitDone(t) \/ LockSymbols(t)
  <2>1. \E pc \in {"register", "unlock", "parser"} : \E i : Goto(t, pc, i)
    BY <1>5 DEF RegisterUnparsed, FileRegistered, InitDone, LockSymbols
  <2>2. req'[t].stack = <<>> /\ req'[t].pc \in {"register", "unlock", "parser"}
    BY <1>3, <2>1, GotoParts
  <2> QED BY <2>2, IdleOK
<1>6. CASE RegisterParsed(t)
  <2>1. req'[t].stack = <<>> /\ req'[t].pc = "keys"
    BY <1>1, <1>3, <1>6 DEF RegisterParsed, Request
  <2> QED BY <2>1, IdleOK
<1>7. CASE RegisterKey(t)
  <2>1. req'[t].stack = <<>> /\ req'[t].pc = req[t].pc
    BY <1>1, <1>3, <1>7 DEF RegisterKey, Request
  <2> QED BY <1>2, <2>1, IdleOK
<1> QED BY <1>4, <1>5, <1>6, <1>7

LEMMA LoopOK ==
    ASSUME LoaderInv, NEW t \in Thread, RinitOK(req[t], load_mode),
           LoadParser(t) \/ UnlockSymbols(t) \/ LoadRinit(t)
    PROVE  RinitOK(req'[t], load_mode)
<1> DEFINE r == req[t]
<1>1. /\ req \in [Thread -> Request] /\ r \in Request /\ IndexOK(r)
      /\ r.i \in Nat /\ r.i >= 1
  BY TypeOfRequests DEF LoaderInv, Request, IndexOK
<1>2. r.stack = <<>>
  BY DEF LoadParser, UnlockSymbols, LoadRinit, RinitOK, Stack
<1>3. ASSUME NEW f \in File, req' = [req EXCEPT ![t] = Pushed(r, f)],
             r.pc \in {"parser", "loop"},
             r.pc = "loop" => r.i <= Len(FileList) /\ f = FileList[r.i]
      PROVE  RinitOK(req'[t], load_mode)
  BY <1>1, <1>2, <1>3, PushOK
<1>4. CASE LoadParser(t)
  <2>1. CASE r.i <= Len(Parser)
    <3>1. Parser[r.i] \in File
      BY <1>1, <2>1, LoaderAssumption
    <3> QED BY <1>3, <1>4, <2>1, <3>1 DEF LoadParser
  <2>2. CASE ~(r.i <= Len(Parser))
    <3>1. Goto(t, "register", 1)
      BY <1>4, <2>2 DEF LoadParser
    <3>2. req'[t].stack = <<>> /\ req'[t].pc = "register"
      BY <1>2, <3>1, GotoParts
    <3> QED BY <3>2, IdleOK
  <2> QED BY <2>1, <2>2
<1>5. CASE UnlockSymbols(t)
  <2>1. PICK pc \in {"loop", "exit"} : Goto(t, pc, 1)
    BY <1>5 DEF UnlockSymbols
  <2>2. req'[t].stack = <<>> /\ req'[t].pc = pc /\ req'[t].i = 1
    BY <1>2, <2>1, GotoParts
  <2>3. RinitUpTo(req'[t].i - 1, load_mode, req'[t].defined)
    BY <2>2 DEF RinitUpTo
  <2>4. Frames(req'[t].stack, req'[t].defined)
    BY <2>2 DEF Frames
  <2> QED BY <2>1, <2>2, <2>3, <2>4 DEF RinitOK
<1>6. CASE LoadRinit(t)
  <2>1. r.pc = "loop" /\ RinitUpTo(r.i - 1, load_mode, r.defined)
    BY <1>6 DEF LoadRinit, RinitOK
  <2>2. CASE r.i <= Len(FileList) /\ load_mode[FileList[r.i]] = RINIT
    <3>1. FileList[r.i] \in File
      BY <1>1, <2>2, LoaderAssumption
    <3>2. req' = [req EXCEPT ![t] = Pushed(r, FileList[r.i])]
      BY <1>6, <2>2 DEF LoadRinit
    <3> QED BY <1>3, <2>1, <2>2, <3>1, <3>2
  <2>3. CASE r.i <= Len(FileList) /\ load_mode[FileList[r.i]] # RINIT
    <3>1. Goto(t, "loop", r.i + 1)
      BY <1>6, <2>3 DEF LoadRinit
    <3>2. /\ req'[t].stack = <<>> /\ req'[t].pc = "loop" /\ req'[t].i = r.i + 1
          /\ req'[t].defined = r.defined
      BY <1>2, <3>1, GotoParts
    <3>3. RinitUpTo(req'[t].i - 1, load_mode, req'[t].defined)
      <4> SUFFICES ASSUME NEW j \in 1..Len(FileList), j <= req'[t].i - 1,
                          load_mode[FileList[j]] = RINIT
                   PROVE  Declares(FileList[j]) \subseteq req'[t].defined
        BY DEF RinitUpTo
      <4>1. j = r.i \/ j <= r.i - 1
        BY <1>1, <3>2
      <4>2. j # r.i
        BY <2>3
      <4> QED BY <2>1, <3>2, <4>1, <4>2 DEF RinitUpTo
    <3>4. Frames(req'[t].stack, req'[t].defined)
      BY <3>2 DEF Frames
    <3> QED BY <3>2, <3>3, <3>4 DEF RinitOK
  <2>4. CASE ~(r.i <= Len(FileList))
    <3>1. Goto(t, "run", 1)
      BY <1>6, <2>4 DEF LoadRinit
    <3>2. /\ req'[t].stack = <<>> /\ req'[t].pc = "run" /\ req'[t].defined = r.defined
      BY <1>2, <3>1, GotoParts
    <3>3. RinitUpTo(Len(FileList), load_mode, req'[t].defined)
      <4>1. \A j \in 1..Len(FileList) : j <= r.i - 1
        BY <1>1, <2>4, LoaderAssumption
      <4> QED BY <2>1, <3>2, <4>1 DEF RinitUpTo
    <3>4. Frames(req'[t].stack, req'[t].defined)
      BY <3>2 DEF Frames
    <3> QED BY <3>2, <3>3, <3>4 DEF RinitOK
  <2> QED BY <2>2, <2>3, <2>4
<1> QED BY <1>4, <1>5, <1>6

\* The symbol table changes only before the requests that read it.
LEMMA OtherOK ==
    ASSUME LoaderInv, [Next]_vars, NEW u \in Thread, RinitOK(req[u], load_mode)
    PROVE  RinitOK(req[u], load_mode')
<1>1. CASE req[u].pc \in {"loop", "run"}
  <2>1. \A t \in Thread : req[t].pc \notin Filling
    BY <1>1 DEF LoaderInv, CompleteWhenDone, Ready
  <2>2. load_mode' = load_mode
    BY <2>1, TableWriter DEF table
  <2> QED BY <2>2
<1>2. CASE req[u].pc \notin {"loop", "run"}
  BY <1>2 DEF RinitOK
<1> QED BY <1>1, <1>2

LEMMA RinitInvInit == Init => RinitInv
<1> SUFFICES ASSUME Init, NEW t \in Thread PROVE RinitOK(req[t], load_mode)
  BY DEF RinitInv
<1>1. req[t].stack = <<>> /\ req[t].pc = "off"
  BY DEF Init, NoRequest
<1> QED BY <1>1, IdleOK

LEMMA RinitInvNext == LoaderInv /\ RinitInv /\ [Next]_vars => RinitInv'
<1> SUFFICES ASSUME LoaderInv, RinitInv, [Next]_vars PROVE RinitInv'
  OBVIOUS
<1>1. CASE UNCHANGED vars
  BY <1>1 DEF RinitInv, vars
<1>2. ASSUME NEW t \in Thread,
             \/ BeginRequest(t) \/ LockSymbols(t) \/ RinitStep(t) \/ LoadStep(t)
             \/ \E k \in Wanted, autoload \in BOOLEAN : LoadSymbol(t, k, autoload)
             \/ \E f \in Loadable : PCS_loadScript(t, f)
             \/ EndRequest(t)
      PROVE  RinitInv'
  <2>1. req \in [Thread -> Request] /\ req[t] \in Request /\ RinitOK(req[t], load_mode)
    BY TypeOfRequests DEF LoaderInv, RinitInv
  <2>2. \E q : req' = [req EXCEPT ![t] = q]
    BY <1>2, LoadStepOutcome
       DEF BeginRequest, LockSymbols, EndRequest, RinitStep, LoadParser, RegisterUnparsed,
           RegisterParsed, ParseError, ErrorInFile, RegisterKey, DuplicateKey,
           FileRegistered, InitDone, UnlockSymbols, LoadRinit, LoadSymbol,
           PCS_loadScript, Goto
  <2>3. \A u \in Thread \ {t} : req'[u] = req[u]
    BY <2>1, <2>2
  <2>4. RinitOK(req'[t], load_mode')
    <3>1. CASE LoadStep(t)
      <4>1. load_mode' = load_mode
        BY <3>1, LoadStepOutcome
      <4>2. RinitOK(req'[t], load_mode)
        BY <2>1, <3>1, LoadStepOK
      <4> QED BY <4>1, <4>2
    <3>2. CASE LoadParser(t) \/ UnlockSymbols(t) \/ LoadRinit(t)
      <4>1. load_mode' = load_mode
        BY <3>2 DEF LoadParser, UnlockSymbols, LoadRinit
      <4>2. RinitOK(req'[t], load_mode)
        BY <2>1, <3>2, LoopOK
      <4> QED BY <4>1, <4>2
    <3>3. CASE BeginRequest(t) \/ EndRequest(t)
      <4>1. req'[t].stack = <<>> /\ req'[t].pc \in {"off", "lock"}
        BY <2>1, <3>3 DEF BeginRequest, EndRequest, NoRequest
      <4> QED BY <4>1, IdleOK
    <3>4. CASE \/ \E k \in Wanted, autoload \in BOOLEAN : LoadSymbol(t, k, autoload)
               \/ \E f \in Loadable : PCS_loadScript(t, f)
      <4>1. /\ load_mode' = load_mode /\ Running(t)
            /\ \E f \in File : req' = [req EXCEPT ![t] = Pushed(req[t], f)]
        BY <3>4, LoaderAssumption
           DEF LoadSymbol, PCS_loadScript, MustLoad, LoaderInv, LoaderTypeOK
      <4>2. req[t].stack = <<>> /\ req[t].pc = "run"
        BY <4>1 DEF Running, Stack
      <4> QED BY <2>1, <4>1, <4>2, PushOK
    <3> QED BY <1>2, <2>1, <3>1, <3>2, <3>3, <3>4, RegisterOK DEF RinitStep
  <2> SUFFICES ASSUME NEW u \in Thread PROVE RinitOK(req'[u], load_mode')
    BY DEF RinitInv
  <2>5. CASE u # t
    BY <2>3, <2>5, OtherOK DEF RinitInv
  <2> QED BY <2>4, <2>5
<1> QED BY <1>1, <1>2 DEF Next

\* "Load script at every RINIT" (client.h:54): when the RINIT of a request is
\* over, all RINIT files have been loaded in this request, through bailouts,
\* exceptions and nested autoloads.
THEOREM RinitFilesAreLoaded == Spec => []RinitLoaded
<1>1. RinitInv => RinitLoaded
  <2> SUFFICES ASSUME RinitInv, NEW t \in Thread, req[t].pc = "run",
                      NEW f \in Elems(FileList), load_mode[f] = RINIT
               PROVE  Script[f].declares \subseteq req[t].defined
    BY DEF RinitLoaded
  <2>1. PICK j \in 1..Len(FileList) : f = FileList[j]
    BY DEF Elems
  <2>2. RinitUpTo(Len(FileList), load_mode, req[t].defined)
    BY DEF RinitInv, RinitOK
  <2>3. j <= Len(FileList)
    BY LoaderAssumption
  <2> QED BY <2>1, <2>2, <2>3 DEF RinitUpTo, Declares
<1> QED BY <1>1, LoaderInvariant, RinitInvInit, RinitInvNext, PTL DEF Spec

-----------------------------------------------------------------------------
\* The symbol table

KeysOf(j) == Script[FileList[j]].keys

\* Whether the m-th key of the j-th file comes before what an initialisation does
\* next, which is the i-th file, n keys of it done
Done(j, m, i, n) == Parsed(FileList[j]) /\ (j < i \/ (j = i /\ m <= n))

\* No file before the i-th was refused; of the keys that are done every one is in
\* the table, whose symbols are those of the set S, and no two are the same.
Progress(S, i, n) ==
    /\ \A j \in 1..Len(FileList) :
         j < i /\ Parsed(FileList[j]) => Script[FileList[j]].parse = "array"
    /\ \A j \in 1..Len(FileList) : \A m \in 1..Len(KeysOf(j)) :
         Done(j, m, i, n) => KeysOf(j)[m] \in S
    /\ \A j, l \in 1..Len(FileList) :
         \A m \in 1..Len(KeysOf(j)), o \in 1..Len(KeysOf(l)) :
           Done(j, m, i, n) /\ Done(l, o, i, n) /\ KeysOf(j)[m] = KeysOf(l)[o]
             => j = l /\ m = o

\* What remains of the keys of the i-th file
Remaining(i, n, keys) ==
    /\ Len(keys) = Len(KeysOf(i)) - n
    /\ \A m \in 1..Len(keys) : keys[m] = KeysOf(i)[n + m]

\* What a request that registers files has registered
Registered(r, S) ==
    /\ r.pc = "register" => Progress(S, r.i, 0)
    /\ r.pc = "keys" =>
         /\ Parsed(FileList[r.i]) /\ Script[FileList[r.i]].parse = "array"
         /\ \E n \in 0..Len(KeysOf(r.i)) :
              Remaining(r.i, n, r.keys) /\ Progress(S, r.i, n)

TableInv ==
    /\ FirstWins
    /\ \A t \in Thread : Registered(req[t], DOMAIN symbols)
    /\ loader_init_done => Progress(DOMAIN symbols, Len(FileList) + 1, 0)

LEMMA TableInvInit == Init => TableInv
<1> SUFFICES ASSUME Init PROVE TableInv
  OBVIOUS
<1>1. DOMAIN symbols = {} /\ loader_init_done = FALSE /\ \A t \in Thread : req[t].pc = "off"
  BY DEF Init, NoRequest
<1>2. FirstWins
  BY <1>1 DEF FirstWins
<1> QED BY <1>1, <1>2 DEF TableInv, Registered

\* Files
LEMMA FileOf ==
    ASSUME NEW j \in 1..Len(FileList)
    PROVE  /\ FileList[j] \in File /\ FileList[j] \in Elems(FileList)
           /\ KeysOf(j) \in Seq(Key) /\ Len(KeysOf(j)) \in Nat
           /\ \A m \in 1..Len(KeysOf(j)) : KeysOf(j)[m] \in Elems(KeysOf(j))
<1>1. FileList[j] \in File
  BY LoaderAssumption
<1>2. KeysOf(j) \in Seq(Key)
  BY <1>1, LoaderAssumption DEF KeysOf
<1> QED BY <1>1, <1>2 DEF Elems

\* The table may grow, and what is done may be counted differently.
LEMMA ProgressFrom ==
    ASSUME NEW S, NEW i, NEW n, Progress(S, i, n), NEW S2, S \subseteq S2, NEW i2, NEW n2,
           \A j \in 1..Len(FileList) : j < i2 /\ Parsed(FileList[j]) =>
             j < i \/ Script[FileList[j]].parse = "array",
           \A j \in 1..Len(FileList) : \A m \in 1..Len(KeysOf(j)) :
             Done(j, m, i2, n2) => Done(j, m, i, n)
    PROVE  Progress(S2, i2, n2)
BY DEF Progress

LEMMA RegisteredGrows ==
    ASSUME NEW r, NEW S, Registered(r, S), NEW S2, S \subseteq S2
    PROVE  Registered(r, S2)
<1>1. ASSUME NEW i, NEW n, Progress(S, i, n) PROVE Progress(S2, i, n)
  BY <1>1, ProgressFrom
<1> QED BY <1>1 DEF Registered

\* A step of the request of t, which becomes q
LEMMA TableStep ==
    ASSUME LoaderInv, TableInv, NEW t \in Thread, NEW q, req' = [req EXCEPT ![t] = q],
           DOMAIN symbols \subseteq DOMAIN symbols', FirstWins',
           Registered(q, DOMAIN symbols'),
           loader_init_done' =>
             loader_init_done \/ Progress(DOMAIN symbols', Len(FileList) + 1, 0)
    PROVE  TableInv'
<1>1. req'[t] = q /\ \A u \in Thread \ {t} : req'[u] = req[u]
  BY TypeOfRequests DEF LoaderInv
<1>2. \A u \in Thread : Registered(req'[u], DOMAIN symbols')
  <2> TAKE u \in Thread
  <2>1. CASE u = t
    BY <1>1, <2>1
  <2>2. CASE u # t
    BY <1>1, <2>2, RegisteredGrows DEF TableInv
  <2> QED BY <2>1, <2>2
<1>3. loader_init_done' => Progress(DOMAIN symbols', Len(FileList) + 1, 0)
  BY ProgressFrom DEF TableInv
<1> QED BY <1>2, <1>3 DEF TableInv, Registered, Progress, Done, Remaining

\* The table stays the same.
LEMMA SameTable ==
    ASSUME LoaderInv, TableInv, NEW t \in Thread, NEW q, req' = [req EXCEPT ![t] = q],
           UNCHANGED <<symbols, loader_init_done>>, Registered(q, DOMAIN symbols)
    PROVE  TableInv'
<1>1. FirstWins' /\ DOMAIN symbols' = DOMAIN symbols
  BY DEF TableInv, FirstWins, Declaring
<1> QED BY <1>1, TableStep

\* The request does not register files.
LEMMA NotParsing ==
    ASSUME NEW q, NEW S, q.pc \notin Parsing
    PROVE  Registered(q, S)
BY DEF Registered, Parsing

LEMMA LoadStepTable ==
    ASSUME LoaderInv, RinitInv, TableInv, NEW t \in Thread, LoadStep(t)
    PROVE  TableInv'
<1> DEFINE r == req[t]
<1>1. UNCHANGED <<load_mode, symbols, loader_init_done, mutex>>
  BY LoadStepOutcome
<1>2. PICK q : LoadOutcome(r, q) /\ req' = [req EXCEPT ![t] = q]
  BY LoadStepOutcome
<1>3. r.pc \notin Parsing
  <2>1. \E pc \in {"compile", "exec", "wait"} : At(t, pc)
    BY DEF LoadStep, Compile, FatalError, BailOut, UseDefined, UseAutoload, UseUnknown, ExecDone
  <2>2. r.stack # <<>>
    BY <2>1 DEF At, Stack
  <2> QED BY <2>2 DEF RinitInv, RinitOK, Parsing
<1>4. q.pc \notin Parsing
  BY <1>2, <1>3 DEF LoadOutcome, Parsing
<1> QED BY <1>1, <1>2, <1>4, SameTable, NotParsing

LEMMA GotoRequest ==
    ASSUME LoaderInv, NEW t \in Thread, NEW pc, NEW i, Goto(t, pc, i)
    PROVE  \E q : req' = [req EXCEPT ![t] = q] /\ q.pc = pc /\ q.i = i
<1> DEFINE q == [req[t] EXCEPT !.pc = pc, !.i = i]
<1>1. req[t] \in Request
  BY TypeOfRequests DEF LoaderInv
<1>2. q.pc = pc /\ q.i = i
  BY <1>1 DEF Request
<1>3. req' = [req EXCEPT ![t] = q]
  BY DEF Goto
<1> QED BY <1>2, <1>3

\* Steps of requests that do not register files
LEMMA OtherTable ==
    ASSUME LoaderInv, TableInv, NEW t \in Thread,
           \/ BeginRequest(t) \/ LockSymbols(t) \/ EndRequest(t)
           \/ LoadParser(t) \/ UnlockSymbols(t) \/ LoadRinit(t)
           \/ \E k \in Wanted, autoload \in BOOLEAN : LoadSymbol(t, k, autoload)
           \/ \E f \in Loadable : PCS_loadScript(t, f)
    PROVE  TableInv'
<1>1. UNCHANGED <<symbols, loader_init_done>> /\ req \in [Thread -> Request]
  BY TypeOfRequests
     DEF BeginRequest, LockSymbols, EndRequest, LoadParser, UnlockSymbols, LoadRinit,
         LoadSymbol, PCS_loadScript, LoaderInv
<1>2. ASSUME NEW q, req' = [req EXCEPT ![t] = q], q.pc \notin Parsing
      PROVE  TableInv'
  BY <1>1, <1>2, SameTable, NotParsing
<1>3. CASE BeginRequest(t) \/ EndRequest(t)
  <2>1. NoRequest.pc = "off" /\ [NoRequest EXCEPT !.pc = "lock"].pc = "lock"
    BY NoRequestType
  <2> QED BY <1>2, <1>3, <2>1 DEF BeginRequest, EndRequest, Parsing
<1>4. ASSUME NEW pc, NEW i, Goto(t, pc, i), pc \notin Parsing
      PROVE  TableInv'
  <2>1. PICK q : req' = [req EXCEPT ![t] = q] /\ q.pc = pc /\ q.i = i
    BY <1>4, GotoRequest
  <2> QED BY <1>2, <1>4, <2>1
<1>5. ASSUME NEW f, req' = [req EXCEPT ![t] = Pushed(req[t], f)], req[t].pc \notin Parsing
      PROVE  TableInv'
  <2>1. Pushed(req[t], f).pc = req[t].pc
    BY <1>1 DEF Pushed, Request
  <2> QED BY <1>2, <1>5, <2>1
<1>6. CASE LockSymbols(t) \/ UnlockSymbols(t)
  <2>1. \E pc \in {"unlock", "parser", "loop", "exit"} : Goto(t, pc, 1)
    BY <1>6 DEF LockSymbols, UnlockSymbols
  <2> QED BY <1>4, <2>1 DEF Parsing
<1>7. CASE Goto(t, "register", 1)
  <2>1. PICK q : req' = [req EXCEPT ![t] = q] /\ q.pc = "register" /\ q.i = 1
    BY <1>7, GotoRequest
  <2>2. Registered(q, DOMAIN symbols)
    <3>1. \A j \in 1..Len(FileList) : ~(j < 1) /\ \A m \in 1..Len(KeysOf(j)) : ~(m <= 0)
      OBVIOUS
    <3>2. Progress(DOMAIN symbols, 1, 0)
      BY <3>1 DEF Progress, Done
    <3> QED BY <2>1, <3>2 DEF Registered
  <2> QED BY <1>1, <2>1, <2>2, SameTable
<1>8. CASE LoadParser(t) \/ LoadRinit(t)
  <2>1. req[t].pc \notin Parsing
    BY <1>8 DEF LoadParser, LoadRinit, Parsing
  <2>2. \/ \E f : req' = [req EXCEPT ![t] = Pushed(req[t], f)]
        \/ Goto(t, "register", 1)
        \/ \E pc \in {"loop", "run"} : \E i : Goto(t, pc, i)
    BY <1>8 DEF LoadParser, LoadRinit
  <2> QED BY <1>4, <1>5, <1>7, <2>1, <2>2 DEF Parsing
<1>9. CASE \/ \E k \in Wanted, autoload \in BOOLEAN : LoadSymbol(t, k, autoload)
           \/ \E f \in Loadable : PCS_loadScript(t, f)
  <2>1. /\ req[t].pc \notin Parsing
        /\ \E f : req' = [req EXCEPT ![t] = Pushed(req[t], f)]
    BY <1>9 DEF LoadSymbol, PCS_loadScript, Running, Parsing
  <2> QED BY <1>5, <2>1
<1> QED BY <1>3, <1>6, <1>8, <1>9

\* The initialisation ends in an error.
LEMMA ErrorTable ==
    ASSUME LoaderInv, RinitInv, TableInv, NEW t \in Thread, ParseError(t) \/ DuplicateKey(t)
    PROVE  TableInv'
<1>1. /\ req[t].pc \in Parsing /\ ErrorInFile(t) /\ UNCHANGED <<symbols, loader_init_done>>
  BY DEF ParseError, DuplicateKey, Parsing
<1>2. req[t].stack = <<>>
  BY <1>1 DEF RinitInv, RinitOK, Parsing
<1>3. PICK q : q = [req[t] EXCEPT !.pc = "failed", !.stack = <<>>, !.keys = <<>>]
  OBVIOUS
<1>4. req' = [req EXCEPT ![t] = q]
  BY <1>1, <1>2, <1>3, ErrorIdle
<1>5. q.pc = "failed"
  BY <1>3, TypeOfRequests DEF LoaderInv, Request
<1> QED BY <1>1, <1>4, <1>5, SameTable, NotParsing DEF Parsing

\* The registration of a file ends.
LEMMA NextFileTable ==
    ASSUME LoaderInv, TableInv, NEW t \in Thread, NEW i, i = req[t].i,
           Progress(DOMAIN symbols, i + 1, 0), Goto(t, "register", i + 1),
           UNCHANGED <<symbols, loader_init_done>>
    PROVE  TableInv'
<1>1. PICK q : req' = [req EXCEPT ![t] = q] /\ q.pc = "register" /\ q.i = i + 1
  BY GotoRequest
<1>2. Registered(q, DOMAIN symbols)
  BY <1>1 DEF Registered
<1> QED BY <1>1, <1>2, SameTable

LEMMA UnparsedTable ==
    ASSUME LoaderInv, TableInv, NEW t \in Thread, RegisterUnparsed(t)
    PROVE  TableInv'
<1>1. PICK i \in 1..Len(FileList) : i = req[t].i
  BY RegisteringFile, TypeOfRequests, LoaderAssumption DEF RegisterUnparsed, LoaderInv, IndexOK
<1>2. /\ Progress(DOMAIN symbols, i, 0) /\ ~Parsed(FileList[i])
      /\ UNCHANGED <<symbols, loader_init_done>> /\ Goto(t, "register", i + 1)
  BY <1>1 DEF RegisterUnparsed, Registering, TableInv, Registered
<1>3. \A j \in 1..Len(FileList) : j < i + 1 => j < i \/ j = i
  OBVIOUS
<1>4. \A j \in 1..Len(FileList) : \A m \in 1..Len(KeysOf(j)) :
        Done(j, m, i + 1, 0) => Done(j, m, i, 0)
  <2>1. \A j \in 1..Len(FileList) : \A m \in 1..Len(KeysOf(j)) : ~(m <= 0)
    OBVIOUS
  <2> QED BY <1>2, <1>3, <2>1 DEF Done
<1>5. Progress(DOMAIN symbols, i + 1, 0)
  BY <1>2, <1>3, <1>4, ProgressFrom
<1> QED BY <1>1, <1>2, <1>5, NextFileTable

LEMMA ParsedTable ==
    ASSUME LoaderInv, TableInv, NEW t \in Thread, RegisterParsed(t)
    PROVE  TableInv'
<1>1. PICK i \in 1..Len(FileList) : i = req[t].i
  BY RegisteringFile, TypeOfRequests, LoaderAssumption DEF RegisterParsed, LoaderInv, IndexOK
<1>2. PICK q : q = [req[t] EXCEPT !.pc = "keys", !.keys = KeysOf(i)]
  OBVIOUS
<1>3. /\ Progress(DOMAIN symbols, i, 0) /\ Parsed(FileList[i])
      /\ Script[FileList[i]].parse = "array"
      /\ UNCHANGED <<symbols, loader_init_done>> /\ req' = [req EXCEPT ![t] = q]
  BY <1>1, <1>2 DEF RegisterParsed, Registering, TableInv, Registered, KeysOf
<1>4. q.pc = "keys" /\ q.i = i /\ q.keys = KeysOf(i)
  BY <1>1, <1>2, TypeOfRequests DEF LoaderInv, Request
<1>5. Len(KeysOf(i)) \in Nat
  BY FileOf
<1>6. 0 \in 0..Len(KeysOf(i)) /\ Remaining(i, 0, KeysOf(i))
  BY <1>5 DEF Remaining
<1>7. Registered(q, DOMAIN symbols)
  BY <1>3, <1>4, <1>6 DEF Registered
<1> QED BY <1>3, <1>7, SameTable

\* What is known of the file whose keys are registered
LEMMA KeysOfRequest ==
    ASSUME LoaderInv, TableInv, NEW t \in Thread, req[t].pc = "keys"
    PROVE  /\ req[t].i \in 1..Len(FileList) /\ Parsed(FileList[req[t].i])
           /\ Script[FileList[req[t].i]].parse = "array" /\ req[t].keys \in Seq(Key)
           /\ \E n \in 0..Len(KeysOf(req[t].i)) :
                /\ Remaining(req[t].i, n, req[t].keys)
                /\ Progress(DOMAIN symbols, req[t].i, n)
<1>1. req[t].i \in 1..Len(FileList) /\ req[t].keys \in Seq(Key)
  <2>1. req[t].i \in Nat /\ req[t].i >= 1 /\ req[t].i <= Len(FileList) /\ req[t].keys \in Seq(Key)
    BY TypeOfRequests DEF LoaderInv, IndexOK, Request
  <2> QED BY <2>1, LoaderAssumption
<1>2. Registered(req[t], DOMAIN symbols)
  BY DEF TableInv
<1> QED BY <1>1, <1>2 DEF Registered

LEMMA FileRegisteredTable ==
    ASSUME LoaderInv, TableInv, NEW t \in Thread, FileRegistered(t)
    PROVE  TableInv'
<1>1. /\ req[t].pc = "keys" /\ req[t].keys = <<>> /\ UNCHANGED <<symbols, loader_init_done>>
      /\ Goto(t, "register", req[t].i + 1)
  BY DEF FileRegistered
<1>2. PICK i \in 1..Len(FileList) : i = req[t].i
  BY <1>1, KeysOfRequest
<1>3. PICK n \in 0..Len(KeysOf(i)) :
        Remaining(i, n, req[t].keys) /\ Progress(DOMAIN symbols, i, n)
  BY <1>1, <1>2, KeysOfRequest
<1>4. n = Len(KeysOf(i)) /\ Script[FileList[i]].parse = "array"
  <2>1. Len(KeysOf(i)) \in Nat /\ Len(<<>>) = 0
    BY FileOf
  <2> QED BY <1>1, <1>2, <1>3, <2>1, KeysOfRequest DEF Remaining
<1>5. \A j \in 1..Len(FileList) : j < i + 1 => j < i \/ j = i
  OBVIOUS
<1>6. \A j \in 1..Len(FileList) : \A m \in 1..Len(KeysOf(j)) :
        Done(j, m, i + 1, 0) => Done(j, m, i, n)
  <2>1. \A j \in 1..Len(FileList) : \A m \in 1..Len(KeysOf(j)) :
          ~(m <= 0) /\ (j = i => m <= n)
    BY <1>4
  <2> QED BY <1>5, <2>1 DEF Done
<1>7. Progress(DOMAIN symbols, i + 1, 0)
  BY <1>3, <1>4, <1>5, <1>6, ProgressFrom
<1> QED BY <1>1, <1>2, <1>7, NextFileTable

LEMMA RegisterKeyTable ==
    ASSUME LoaderInv, TableInv, NEW t \in Thread, RegisterKey(t)
    PROVE  TableInv'
<1>1. PICK i \in 1..Len(FileList), keys \in Seq(Key) : i = req[t].i /\ keys = req[t].keys
  BY KeysOfRequest DEF RegisterKey
<1> DEFINE k == Head(keys)
           f == FileList[i]
<1>2. PICK q : q = [req[t] EXCEPT !.keys = Tail(keys)]
  OBVIOUS
<1>3. /\ req[t].pc = "keys" /\ keys # <<>> /\ k \notin DOMAIN symbols
      /\ symbols' = Put(symbols, k, f) /\ UNCHANGED loader_init_done
      /\ req' = [req EXCEPT ![t] = q]
  BY <1>1, <1>2 DEF RegisterKey, Registering
<1>4. PICK n \in 0..Len(KeysOf(i)) :
        Remaining(i, n, keys) /\ Progress(DOMAIN symbols, i, n)
  BY <1>1, <1>3, KeysOfRequest
<1>5. Parsed(f) /\ Script[f].parse = "array"
  BY <1>1, <1>3, KeysOfRequest
<1>6. /\ DOMAIN symbols' = DOMAIN symbols \cup {k} /\ symbols'[k] = f
      /\ \A x \in DOMAIN symbols : symbols'[x] = symbols[x]
  BY <1>3 DEF Put
<1>7. Len(KeysOf(i)) \in Nat /\ n \in Nat /\ n + 1 \in 1..Len(KeysOf(i)) /\ k = KeysOf(i)[n + 1]
  <2>1. Len(keys) \in Nat /\ Len(keys) >= 1 /\ k = keys[1] /\ 1 \in 1..Len(keys)
    BY <1>3
  <2>2. Len(KeysOf(i)) \in Nat
    BY FileOf
  <2> HIDE DEF k
  <2> QED BY <1>4, <2>1, <2>2 DEF Remaining
<1>8. q.pc = "keys" /\ q.i = i /\ q.keys = Tail(keys)
  BY <1>1, <1>2, <1>3, TypeOfRequests DEF LoaderInv, Request
<1>9. Remaining(i, n + 1, Tail(keys))
  <2>1. /\ Len(Tail(keys)) = Len(keys) - 1 /\ Len(keys) \in Nat
        /\ \A m \in 1..Len(Tail(keys)) : Tail(keys)[m] = keys[m + 1] /\ m + 1 \in 1..Len(keys)
    BY <1>3
  <2>2. Len(Tail(keys)) = Len(KeysOf(i)) - (n + 1)
    BY <1>4, <1>7, <2>1 DEF Remaining
  <2>3. ASSUME NEW m \in 1..Len(Tail(keys))
        PROVE  Tail(keys)[m] = KeysOf(i)[(n + 1) + m]
    <3>1. keys[m + 1] = KeysOf(i)[n + (m + 1)] /\ n + (m + 1) = (n + 1) + m
      BY <1>4, <1>7, <2>1 DEF Remaining
    <3> QED BY <2>1, <3>1
  <2> QED BY <2>2, <2>3 DEF Remaining
<1> HIDE DEF k
<1>10. \A j \in 1..Len(FileList) : \A m \in 1..Len(KeysOf(j)) :
         Done(j, m, i, n + 1) => Done(j, m, i, n) \/ (j = i /\ m = n + 1)
  <2>1. \A m \in Nat : m <= n + 1 => m <= n \/ m = n + 1
    BY <1>7
  <2>2. \A j \in 1..Len(FileList) : \A m \in 1..Len(KeysOf(j)) : m \in Nat
    OBVIOUS
  <2> QED BY <2>1, <2>2 DEF Done
<1>11. \A j \in 1..Len(FileList) : \A m \in 1..Len(KeysOf(j)) :
         Done(j, m, i, n) => KeysOf(j)[m] \in DOMAIN symbols /\ KeysOf(j)[m] # k
  BY <1>3, <1>4 DEF Progress
<1>12. Progress(DOMAIN symbols', i, n + 1)
  <2>1. \A j \in 1..Len(FileList) :
          j < i /\ Parsed(FileList[j]) => Script[FileList[j]].parse = "array"
    BY <1>4 DEF Progress
  <2>2. \A j \in 1..Len(FileList) : \A m \in 1..Len(KeysOf(j)) :
          Done(j, m, i, n + 1) => KeysOf(j)[m] \in DOMAIN symbols'
    BY <1>6, <1>7, <1>10, <1>11
  <2>3. ASSUME NEW j \in 1..Len(FileList), NEW l \in 1..Len(FileList),
               NEW m \in 1..Len(KeysOf(j)), NEW o \in 1..Len(KeysOf(l)),
               Done(j, m, i, n + 1), Done(l, o, i, n + 1), KeysOf(j)[m] = KeysOf(l)[o]
        PROVE  j = l /\ m = o
    <3>1. CASE Done(j, m, i, n) /\ Done(l, o, i, n)
      BY <1>4, <2>3, <3>1 DEF Progress
    <3>2. CASE ~Done(j, m, i, n)
      <4>1. j = i /\ m = n + 1 /\ KeysOf(j)[m] = k
        BY <1>7, <1>10, <2>3, <3>2
      <4>2. ~Done(l, o, i, n)
        BY <1>11, <2>3, <4>1
      <4> QED BY <1>10, <2>3, <4>1, <4>2
    <3>3. CASE ~Done(l, o, i, n)
      <4>1. l = i /\ o = n + 1 /\ KeysOf(l)[o] = k
        BY <1>7, <1>10, <2>3, <3>3
      <4>2. ~Done(j, m, i, n)
        BY <1>11, <2>3, <4>1
      <4> QED BY <1>10, <2>3, <4>1, <4>2
    <3> QED BY <3>1, <3>2, <3>3
  <2> QED BY <2>1, <2>2, <2>3 DEF Progress
<1>13. FirstWins'
  <2>1. ASSUME NEW x \in DOMAIN symbols'
        PROVE  \E j \in 1..Len(FileList) :
                 /\ symbols'[x] = FileList[j] /\ FileList[j] \in Declaring(x)
                 /\ \A l \in 1..(j - 1) : FileList[l] \notin Declaring(x)
    <3>1. CASE x \in DOMAIN symbols
      BY <1>6, <3>1 DEF TableInv, FirstWins
    <3>2. CASE x = k
      <4>1. f \in Declaring(k)
        BY <1>5, <1>7, FileOf DEF Declaring, KeysOf
      <4>2. ASSUME NEW l \in 1..(i - 1), FileList[l] \in Declaring(k)
            PROVE  FALSE
        <5>1. l \in 1..Len(FileList) /\ l < i
          OBVIOUS
        <5>2. PICK m \in 1..Len(KeysOf(l)) : KeysOf(l)[m] = k
          BY <4>2 DEF Declaring, KeysOf, Elems
        <5>3. Done(l, m, i, n)
          BY <4>2, <5>1 DEF Declaring, Done
        <5> QED BY <1>11, <5>1, <5>2, <5>3
      <4> QED BY <1>6, <3>2, <4>1, <4>2
    <3> QED BY <1>6, <3>1, <3>2
  <2> QED BY <2>1 DEF FirstWins, Declaring
<1>14. Registered(q, DOMAIN symbols')
  <2>1. n + 1 \in 0..Len(KeysOf(i))
    BY <1>7
  <2> QED BY <1>5, <1>8, <1>9, <1>12, <2>1 DEF Registered
<1> QED BY <1>3, <1>6, <1>13, <1>14, TableStep

LEMMA InitDoneTable ==
    ASSUME LoaderInv, TableInv, NEW t \in Thread, InitDone(t)
    PROVE  TableInv'
<1>1. /\ req[t].pc = "register" /\ req[t].i > Len(FileList) /\ UNCHANGED symbols
      /\ Goto(t, "unlock", 1)
  BY DEF InitDone
<1>2. PICK i \in Nat : i = req[t].i
  BY TypeOfRequests DEF LoaderInv, Request
<1>3. Progress(DOMAIN symbols, i, 0)
  BY <1>1, <1>2 DEF TableInv, Registered
<1>4. \A j \in 1..Len(FileList) : j < i /\ j < Len(FileList) + 1 /\ j # Len(FileList) + 1
  BY <1>1, <1>2, LoaderAssumption
<1>5. Progress(DOMAIN symbols, Len(FileList) + 1, 0)
  <2>1. \A j \in 1..Len(FileList) : \A m \in 1..Len(KeysOf(j)) :
          Done(j, m, Len(FileList) + 1, 0) => Done(j, m, i, 0)
    BY <1>4 DEF Done
  <2> QED BY <1>3, <1>4, <2>1, ProgressFrom
<1>6. FirstWins' /\ DOMAIN symbols' = DOMAIN symbols
  BY <1>1 DEF TableInv, FirstWins, Declaring
<1>7. PICK q : req' = [req EXCEPT ![t] = q] /\ q.pc = "unlock" /\ q.i = 1
  BY <1>1, GotoRequest
<1>8. Registered(q, DOMAIN symbols')
  BY <1>7, NotParsing DEF Parsing
<1> QED BY <1>5, <1>6, <1>7, <1>8, TableStep

LEMMA TableInvNext == LoaderInv /\ RinitInv /\ TableInv /\ [Next]_vars => TableInv'
<1> SUFFICES ASSUME LoaderInv, RinitInv, TableInv, [Next]_vars PROVE TableInv'
  OBVIOUS
<1>1. CASE UNCHANGED vars
  <2>1. symbols' = symbols /\ req' = req /\ loader_init_done' = loader_init_done
    BY <1>1 DEF vars
  <2>2. FirstWins'
    BY <2>1 DEF TableInv, FirstWins, Declaring
  <2>3. \A t \in Thread : Registered(req'[t], DOMAIN symbols')
    BY <2>1 DEF TableInv
  <2>4. loader_init_done' => Progress(DOMAIN symbols', Len(FileList) + 1, 0)
    BY <2>1 DEF TableInv
  <2> QED BY <2>2, <2>3, <2>4 DEF TableInv
<1>2. ASSUME NEW t \in Thread, RinitStep(t) PROVE TableInv'
  BY <1>2, OtherTable, UnparsedTable, ParsedTable, ErrorTable, RegisterKeyTable,
     FileRegisteredTable, InitDoneTable, LoadStepTable DEF RinitStep
<1>3. ASSUME NEW t \in Thread,
             \/ BeginRequest(t) \/ LockSymbols(t) \/ EndRequest(t) \/ LoadStep(t)
             \/ \E k \in Wanted, autoload \in BOOLEAN : LoadSymbol(t, k, autoload)
             \/ \E f \in Loadable : PCS_loadScript(t, f)
      PROVE  TableInv'
  BY <1>3, OtherTable, LoadStepTable
<1> QED BY <1>1, <1>2, <1>3 DEF Next

LEMMA TableInvariant == Spec => [](LoaderInv /\ RinitInv /\ TableInv)
<1> QED BY LoaderInvariant, RinitInvInit, RinitInvNext, TableInvInit, TableInvNext, PTL DEF Spec

\* A symbol that is registered, by whichever initialisation and however it went
\* on, is that of the first file that declares it: no later one takes it over.
THEOREM FirstToDeclareWins == Spec => []FirstWins
<1>1. TableInv => FirstWins
  BY DEF TableInv
<1> QED BY <1>1, TableInvariant, PTL

\* When the parser refuses a file, or a symbol is declared twice, no initialisation
\* ever succeeds, the one that meets the error and those of later requests: no
\* request runs with a table from which symbols were left out.
THEOREM NoSymbolIsLeftOut == Spec => []NoneLeftOut
<1>1. TableInv => NoneLeftOut
  <2> SUFFICES ASSUME TableInv, loader_init_done PROVE ~Faulty
    BY DEF NoneLeftOut
  <2>1. Progress(DOMAIN symbols, Len(FileList) + 1, 0)
    BY DEF TableInv
  <2>2. \A j \in 1..Len(FileList) : j < Len(FileList) + 1
    BY LoaderAssumption
  <2>3. ASSUME NEW f \in Elems(FileList), Parsed(f), Script[f].parse = "error"
        PROVE  FALSE
    <3>1. PICK j \in 1..Len(FileList) : f = FileList[j]
      BY DEF Elems
    <3>2. Script[f].parse = "array"
      BY <2>1, <2>2, <2>3, <3>1 DEF Progress
    <3> QED BY <2>3, <3>2
  <2>4. ASSUME NEW i \in 1..Len(FileList), NEW j \in 1..Len(FileList),
               NEW m \in 1..Len(Script[FileList[i]].keys),
               NEW n \in 1..Len(Script[FileList[j]].keys), Clash(i, m, j, n)
        PROVE  FALSE
    <3>1. /\ Done(i, m, Len(FileList) + 1, 0) /\ Done(j, n, Len(FileList) + 1, 0)
          /\ KeysOf(i)[m] = KeysOf(j)[n] /\ ~(i = j /\ m = n)
      BY <2>2, <2>4 DEF Clash, Done, KeysOf
    <3> QED BY <2>1, <3>1 DEF Progress, KeysOf
  <2> QED BY <2>3, <2>4 DEF Faulty
<1> QED BY <1>1, TableInvariant, PTL

-----------------------------------------------------------------------------
\* The complete table

\* What is assumed: a file is registered once (a node has one ID, which is
\* FileListExact in PCS_Tree).
Distinct == \A i, j \in 1..Len(FileList) : FileList[i] = FileList[j] => i = j

\* The load mode of a file, as in TableExact
ModeOf(f) ==
    CASE Script[f].flags # 0 -> Script[f].flags
      [] Script[f].flags = 0 /\ (~Script[f].php \/ Script[f].keys = <<>>) -> NONE
      [] Script[f].flags = 0 /\ Script[f].php /\ Script[f].keys # <<>> ->
           IF Elems(Script[f].keys) \subseteq ClassKey THEN AUTOLOAD ELSE RINIT

\* The files that a request has registered have their modes.
ModesUpTo(n, mode) ==
    \A j \in 1..Len(FileList) : j < n => mode[FileList[j]] = ModeOf(FileList[j])
ModesOK(r, mode) ==
    /\ r.pc \in Parsing => ModesUpTo(r.i, mode)
    /\ r.pc = "keys" => mode[FileList[r.i]] = Script[FileList[r.i]].flags

ModeInv ==
    /\ \A t \in Thread : ModesOK(req[t], load_mode)
    /\ loader_init_done => ModesUpTo(Len(FileList) + 1, load_mode)

LEMMA ModeInvInit == Init => ModeInv
BY DEF Init, NoRequest, ModeInv, ModesOK, Parsing

\* A step of the request of t
LEMMA ModesStep ==
    ASSUME LoaderInv, ModeInv, NEW t \in Thread, \E q : req' = [req EXCEPT ![t] = q],
           load_mode' = load_mode \/ req[t].pc \in Filling,
           ModesOK(req'[t], load_mode'),
           loader_init_done' => ModesUpTo(Len(FileList) + 1, load_mode')
    PROVE  ModeInv'
<1>1. \A u \in Thread \ {t} : req'[u] = req[u]
  BY TypeOfRequests DEF LoaderInv
<1>2. ASSUME NEW u \in Thread
      PROVE  ModesOK(req'[u], load_mode')
  <2>1. CASE u # t /\ load_mode' = load_mode
    BY <1>1, <2>1 DEF ModeInv
  <2>2. CASE u # t /\ req[t].pc \in Filling
    <3>1. req'[u] = req[u] /\ req[u].pc \notin Critical
      BY <1>1, <2>2, Alone DEF Critical
    <3> QED BY <3>1 DEF ModesOK, Critical, Filling, Parsing
  <2> QED BY <2>1, <2>2
<1> QED BY <1>2 DEF ModeInv, ModesOK, ModesUpTo

\* Steps that set no mode: the request does not register files then, or begins to.
LEMMA QuietModes ==
    ASSUME LoaderInv, ModeInv, NEW t \in Thread, \E q : req' = [req EXCEPT ![t] = q],
           UNCHANGED <<load_mode, loader_init_done>>,
           req'[t].pc \in Parsing => req'[t].pc = "register" /\ req'[t].i = 1
    PROVE  ModeInv'
<1>1. ModesOK(req'[t], load_mode')
  <2>1. \A j \in 1..Len(FileList) : ~(j < 1)
    OBVIOUS
  <2> QED BY <2>1 DEF ModesOK, ModesUpTo, Parsing
<1> QED BY <1>1, ModesStep DEF ModeInv

LEMMA LoadStepModes ==
    ASSUME LoaderInv, RinitInv, ModeInv, NEW t \in Thread, LoadStep(t)
    PROVE  ModeInv'
<1> DEFINE r == req[t]
<1>1. UNCHANGED <<load_mode, symbols, loader_init_done, mutex>>
  BY LoadStepOutcome
<1>2. PICK q : LoadOutcome(r, q) /\ req' = [req EXCEPT ![t] = q]
  BY LoadStepOutcome
<1>3. r.pc \notin Parsing
  <2>1. \E pc \in {"compile", "exec", "wait"} : At(t, pc)
    BY DEF LoadStep, Compile, FatalError, BailOut, UseDefined, UseAutoload, UseUnknown, ExecDone
  <2>2. r.stack # <<>>
    BY <2>1 DEF At, Stack
  <2> QED BY <2>2 DEF RinitInv, RinitOK, Parsing
<1>4. q.pc \notin Parsing
  BY <1>2, <1>3 DEF LoadOutcome, Parsing
<1>5. req'[t] = q
  BY <1>2, TypeOfRequests DEF LoaderInv
<1> QED BY <1>1, <1>2, <1>4, <1>5, QuietModes

LEMMA OtherModes ==
    ASSUME LoaderInv, ModeInv, NEW t \in Thread,
           \/ BeginRequest(t) \/ LockSymbols(t) \/ EndRequest(t)
           \/ LoadParser(t) \/ UnlockSymbols(t) \/ LoadRinit(t)
           \/ \E k \in Wanted, autoload \in BOOLEAN : LoadSymbol(t, k, autoload)
           \/ \E f \in Loadable : PCS_loadScript(t, f)
    PROVE  ModeInv'
<1>1. UNCHANGED <<load_mode, loader_init_done>> /\ req \in [Thread -> Request]
  BY TypeOfRequests
     DEF BeginRequest, LockSymbols, EndRequest, LoadParser, UnlockSymbols, LoadRinit,
         LoadSymbol, PCS_loadScript, LoaderInv
<1>2. ASSUME NEW q, req' = [req EXCEPT ![t] = q],
             q.pc \in Parsing => q.pc = "register" /\ q.i = 1
      PROVE  ModeInv'
  <2>1. req'[t] = q
    BY <1>1, <1>2
  <2> QED BY <1>1, <1>2, <2>1, QuietModes
<1>3. CASE BeginRequest(t) \/ EndRequest(t)
  <2>1. NoRequest.pc = "off" /\ [NoRequest EXCEPT !.pc = "lock"].pc = "lock"
    BY NoRequestType
  <2> QED BY <1>2, <1>3, <2>1 DEF BeginRequest, EndRequest, Parsing
<1>4. ASSUME NEW pc, NEW i, Goto(t, pc, i), pc = "register" => i = 1, pc # "keys"
      PROVE  ModeInv'
  <2>1. \E q : req' = [req EXCEPT ![t] = q] /\ q.pc = pc /\ q.i = i
    BY <1>4, GotoRequest
  <2> QED BY <1>2, <1>4, <2>1 DEF Parsing
<1>5. ASSUME NEW f, req' = [req EXCEPT ![t] = Pushed(req[t], f)], req[t].pc \notin Parsing
      PROVE  ModeInv'
  <2>1. Pushed(req[t], f).pc = req[t].pc
    BY <1>1 DEF Pushed, Request
  <2> QED BY <1>2, <1>5, <2>1
<1>6. CASE LockSymbols(t) \/ UnlockSymbols(t)
  <2>1. \E pc \in {"unlock", "parser", "loop", "exit"} : Goto(t, pc, 1)
    BY <1>6 DEF LockSymbols, UnlockSymbols
  <2> QED BY <1>4, <2>1
<1>7. CASE LoadParser(t) \/ LoadRinit(t)
  <2>1. req[t].pc \notin Parsing
    BY <1>7 DEF LoadParser, LoadRinit, Parsing
  <2>2. \/ \E f : req' = [req EXCEPT ![t] = Pushed(req[t], f)]
        \/ Goto(t, "register", 1)
        \/ \E pc \in {"loop", "run"} : \E i : Goto(t, pc, i)
    BY <1>7 DEF LoadParser, LoadRinit
  <2> QED BY <1>4, <1>5, <2>1, <2>2
<1>8. CASE \/ \E k \in Wanted, autoload \in BOOLEAN : LoadSymbol(t, k, autoload)
           \/ \E f \in Loadable : PCS_loadScript(t, f)
  <2>1. /\ req[t].pc \notin Parsing
        /\ \E f : req' = [req EXCEPT ![t] = Pushed(req[t], f)]
    BY <1>8 DEF LoadSymbol, PCS_loadScript, Running, Parsing
  <2> QED BY <1>5, <2>1
<1> QED BY <1>3, <1>6, <1>7, <1>8

\* The mode of the i-th file is set.
LEMMA ModesSet ==
    ASSUME LoaderInv, Distinct, NEW i \in 1..Len(FileList), ModesUpTo(i, load_mode), NEW m,
           load_mode' = [load_mode EXCEPT ![FileList[i]] = m]
    PROVE  /\ ModesUpTo(i, load_mode') /\ load_mode'[FileList[i]] = m
           /\ m = ModeOf(FileList[i]) => ModesUpTo(i + 1, load_mode')
<1>1. load_mode \in [File -> 0..3] /\ FileList[i] \in File
  BY FileOf DEF LoaderInv, LoaderTypeOK
<1>2. load_mode'[FileList[i]] = m
  BY <1>1
<1>3. ASSUME NEW j \in 1..Len(FileList), j < i
      PROVE  load_mode'[FileList[j]] = ModeOf(FileList[j])
  <2>1. FileList[j] # FileList[i] /\ FileList[j] \in File
    BY <1>3, FileOf DEF Distinct
  <2>2. load_mode'[FileList[j]] = load_mode[FileList[j]]
    BY <1>1, <2>1
  <2> QED BY <1>3, <2>2 DEF ModesUpTo
<1>4. ASSUME m = ModeOf(FileList[i])
      PROVE  ModesUpTo(i + 1, load_mode')
  <2> SUFFICES ASSUME NEW j \in 1..Len(FileList), j < i + 1
               PROVE  load_mode'[FileList[j]] = ModeOf(FileList[j])
    BY DEF ModesUpTo
  <2>1. j < i \/ j = i
    OBVIOUS
  <2> QED BY <1>2, <1>3, <1>4, <2>1
<1> QED BY <1>2, <1>3, <1>4 DEF ModesUpTo

LEMMA RegisterModes ==
    ASSUME LoaderInv, TableInv, ModeInv, Distinct, NEW t \in Thread,
           RegisterUnparsed(t) \/ RegisterParsed(t)
    PROVE  ModeInv'
<1>1. PICK i \in 1..Len(FileList) : i = req[t].i
  BY RegisteringFile, TypeOfRequests, LoaderAssumption
     DEF RegisterUnparsed, RegisterParsed, LoaderInv, IndexOK
<1> DEFINE f == FileList[i]
<1>2. req[t].pc = "register" /\ UNCHANGED loader_init_done
  BY DEF RegisterUnparsed, RegisterParsed
<1>3. req[t].pc \in Filling /\ ~loader_init_done
  BY <1>2 DEF LoaderInv, CompleteWhenDone, Filling
<1>4. ModesUpTo(i, load_mode)
  BY <1>1, <1>2 DEF ModeInv, ModesOK, Parsing
<1>5. f \in File /\ Script[f].flags \in 0..3 /\ Script[f].php \in BOOLEAN
  BY FileOf, LoaderAssumption
<1>6. CASE RegisterUnparsed(t)
  <2>1. PICK m : /\ m = (IF Forced(f) THEN Script[f].flags ELSE NONE)
                 /\ load_mode' = [load_mode EXCEPT ![f] = m]
    BY <1>1, <1>6 DEF RegisterUnparsed, Registering
  <2>2. Forced(f) \/ NotScript(f)
    BY <1>1, <1>6 DEF RegisterUnparsed, Registering, Parsed
  <2>3. m = ModeOf(f)
    BY <1>5, <2>1, <2>2 DEF ModeOf, Forced, NotScript, RINIT, NONE
  <2>4. ModesUpTo(i + 1, load_mode')
    BY <1>4, <2>1, <2>3, ModesSet
  <2>5. Goto(t, "register", i + 1)
    BY <1>1, <1>6 DEF RegisterUnparsed
  <2>6. req'[t].pc = "register" /\ req'[t].i = i + 1
    BY <2>5, GotoParts
  <2>7. ModesOK(req'[t], load_mode')
    BY <2>4, <2>6 DEF ModesOK
  <2>8. \E q : req' = [req EXCEPT ![t] = q]
    BY <2>5 DEF Goto
  <2> QED BY <1>2, <1>3, <2>7, <2>8, ModesStep
<1>7. CASE RegisterParsed(t)
  <2>1. /\ load_mode' = [load_mode EXCEPT ![f] = Script[f].flags]
        /\ \E q : req' = [req EXCEPT ![t] = q]
    BY <1>1, <1>7 DEF RegisterParsed, Registering
  <2>2. req'[t].pc = "keys" /\ req'[t].i = i
    BY <1>1, <1>7, TypeOfRequests DEF RegisterParsed, LoaderInv, Request
  <2>3. ModesUpTo(i, load_mode') /\ load_mode'[f] = Script[f].flags
    BY <1>4, <2>1, ModesSet
  <2>4. ModesOK(req'[t], load_mode')
    BY <2>2, <2>3 DEF ModesOK
  <2> QED BY <1>2, <1>3, <2>1, <2>4, ModesStep
<1> QED BY <1>6, <1>7

LEMMA RegisterKeyModes ==
    ASSUME LoaderInv, ModeInv, NEW t \in Thread, RegisterKey(t)
    PROVE  ModeInv'
<1>1. /\ UNCHANGED <<load_mode, loader_init_done>>
      /\ \E q : req' = [req EXCEPT ![t] = q]
      /\ req'[t].pc = req[t].pc /\ req'[t].i = req[t].i
  BY TypeOfRequests DEF RegisterKey, LoaderInv, Request
<1>2. ModesOK(req'[t], load_mode')
  BY <1>1 DEF ModeInv, ModesOK
<1> QED BY <1>1, <1>2, ModesStep DEF ModeInv

LEMMA FileRegisteredModes ==
    ASSUME LoaderInv, TableInv, ModeInv, Distinct, NEW t \in Thread, FileRegistered(t)
    PROVE  ModeInv'
<1>1. PICK i \in 1..Len(FileList) : i = req[t].i /\ Parsed(FileList[i])
  BY KeysOfRequest DEF FileRegistered
<1> DEFINE f == FileList[i]
<1>2. /\ req[t].pc = "keys" /\ UNCHANGED loader_init_done /\ Goto(t, "register", i + 1)
      /\ load_mode' = [load_mode EXCEPT ![f] =
                         IF load_mode[f] = 0 THEN ChosenMode(f) ELSE load_mode[f]]
  BY <1>1 DEF FileRegistered, Registering
<1>3. req[t].pc \in Filling /\ ~loader_init_done
  BY <1>2 DEF LoaderInv, CompleteWhenDone, Filling
<1>4. ModesUpTo(i, load_mode) /\ load_mode[f] = Script[f].flags
  BY <1>1, <1>2 DEF ModeInv, ModesOK, Parsing
<1>5. /\ f \in File /\ Script[f].flags \in 0..3 /\ Script[f].php \in BOOLEAN
      /\ Script[f].keys \in Seq(Key)
  BY FileOf, LoaderAssumption
<1>6. (\E k \in Elems(Script[f].keys) : k \in OtherKey) <=>
        ~(Elems(Script[f].keys) \subseteq ClassKey)
  <2>1. Elems(Script[f].keys) \subseteq Key
    BY <1>5 DEF Elems
  <2> QED BY <2>1, LoaderAssumption DEF Key
<1>7. PICK m : m = (IF load_mode[f] = 0 THEN ChosenMode(f) ELSE load_mode[f])
  OBVIOUS
<1>8. m = ModeOf(f)
  <2>1. Script[f].flags = 0 => Script[f].php
    BY <1>1, <1>5 DEF Parsed, NotScript
  <2> QED BY <1>4, <1>5, <1>6, <1>7, <2>1 DEF ModeOf, ChosenMode
<1>9. ModesUpTo(i + 1, load_mode')
  BY <1>2, <1>4, <1>7, <1>8, ModesSet
<1>10. req'[t].pc = "register" /\ req'[t].i = i + 1
  BY <1>2, GotoParts
<1>11. ModesOK(req'[t], load_mode')
  BY <1>9, <1>10 DEF ModesOK
<1>12. \E q : req' = [req EXCEPT ![t] = q]
  BY <1>2 DEF Goto
<1> QED BY <1>2, <1>3, <1>11, <1>12, ModesStep

\* The initialisation ends in an error.
LEMMA ErrorModes ==
    ASSUME LoaderInv, RinitInv, ModeInv, NEW t \in Thread, ParseError(t) \/ DuplicateKey(t)
    PROVE  ModeInv'
<1>1. /\ req[t].pc \in Parsing /\ ErrorInFile(t) /\ UNCHANGED loader_init_done
      /\ req[t].pc \in Filling
  BY DEF ParseError, DuplicateKey, Parsing, Filling
<1>2. req[t].stack = <<>>
  BY <1>1 DEF RinitInv, RinitOK, Parsing
<1>3. req'[t].pc = "failed" /\ \E q : req' = [req EXCEPT ![t] = q]
  BY <1>1, <1>2, ErrorIdle
<1>4. ModesOK(req'[t], load_mode')
  BY <1>3 DEF ModesOK, Parsing
<1>5. ~loader_init_done'
  BY <1>1 DEF LoaderInv, CompleteWhenDone
<1> QED BY <1>1, <1>3, <1>4, <1>5, ModesStep

LEMMA InitDoneModes ==
    ASSUME LoaderInv, ModeInv, NEW t \in Thread, InitDone(t)
    PROVE  ModeInv'
<1>1. /\ req[t].pc = "register" /\ req[t].i > Len(FileList) /\ load_mode' = load_mode
      /\ Goto(t, "unlock", 1)
  BY DEF InitDone
<1>2. req'[t].pc = "unlock" /\ \E q : req' = [req EXCEPT ![t] = q]
  BY <1>1, GotoParts DEF Goto
<1>3. ModesUpTo(req[t].i, load_mode)
  BY <1>1 DEF ModeInv, ModesOK, Parsing
<1>4. ModesUpTo(Len(FileList) + 1, load_mode')
  <2>1. req[t].i \in Nat /\ Len(FileList) \in Nat
    BY TypeOfRequests, LoaderAssumption DEF LoaderInv, Request
  <2>2. \A j \in 1..Len(FileList) : j < req[t].i
    BY <1>1, <2>1
  <2> QED BY <1>1, <1>3, <2>2 DEF ModesUpTo
<1>5. ModesOK(req'[t], load_mode')
  BY <1>2 DEF ModesOK, Parsing
<1> QED BY <1>1, <1>2, <1>4, <1>5, ModesStep

LEMMA ModeInvNext ==
    ASSUME Distinct
    PROVE  LoaderInv /\ RinitInv /\ TableInv /\ ModeInv /\ [Next]_vars => ModeInv'
<1> SUFFICES ASSUME LoaderInv, RinitInv, TableInv, ModeInv, [Next]_vars PROVE ModeInv'
  OBVIOUS
<1>1. CASE UNCHANGED vars
  BY <1>1 DEF vars, ModeInv, ModesOK, ModesUpTo
<1>2. ASSUME NEW t \in Thread, RinitStep(t) PROVE ModeInv'
  BY <1>2, OtherModes, RegisterModes, ErrorModes, RegisterKeyModes, FileRegisteredModes,
     InitDoneModes, LoadStepModes DEF RinitStep
<1>3. ASSUME NEW t \in Thread,
             \/ BeginRequest(t) \/ LockSymbols(t) \/ EndRequest(t) \/ LoadStep(t)
             \/ \E k \in Wanted, autoload \in BOOLEAN : LoadSymbol(t, k, autoload)
             \/ \E f \in Loadable : PCS_loadScript(t, f)
      PROVE  ModeInv'
  BY <1>3, OtherModes, LoadStepModes
<1> QED BY <1>1, <1>2, <1>3 DEF Next

LEMMA CompleteTable ==
    ASSUME TableInv, ModeInv
    PROVE  TableExact
<1> SUFFICES ASSUME loader_init_done PROVE TableExact
  BY DEF TableExact
<1>1. ASSUME NEW k \in Key, Declaring(k) = {}
      PROVE  k \notin DOMAIN symbols
  BY <1>1 DEF TableInv, FirstWins
<1>2. ASSUME NEW k \in Key, Declaring(k) # {}
      PROVE  k \in DOMAIN symbols /\ symbols[k] \in Declaring(k)
  <2>1. PICK f \in Declaring(k) : TRUE
    BY <1>2
  <2>2. PICK j \in 1..Len(FileList) : f = FileList[j]
    BY DEF Declaring, Elems
  <2>3. Parsed(f) /\ j < Len(FileList) + 1 /\ \E m \in 1..Len(KeysOf(j)) : KeysOf(j)[m] = k
    BY <2>2, LoaderAssumption DEF Declaring, KeysOf, Elems
  <2>4. k \in DOMAIN symbols
    BY <2>2, <2>3 DEF TableInv, Progress, Done
  <2> QED BY <2>4 DEF TableInv, FirstWins
<1>3. ASSUME NEW f \in Elems(FileList)
      PROVE  load_mode[f] = ModeOf(f)
  <2>1. PICK j \in 1..Len(FileList) : f = FileList[j]
    BY <1>3 DEF Elems
  <2>2. j < Len(FileList) + 1
    BY LoaderAssumption
  <2> QED BY <2>1, <2>2 DEF ModeInv, ModesUpTo
<1> QED BY <1>1, <1>2, <1>3 DEF TableExact, ModeOf

\* The table that the requests see has every symbol of every parsed file and no
\* other one, also when earlier initialisations stopped halfway, and the mode of a
\* file is the one its flags say or, by default, the one client.h:46 derives from
\* its contents.
THEOREM TableIsExact ==
    ASSUME Distinct
    PROVE  Spec => []TableExact
<1>1. LoaderInv /\ RinitInv /\ TableInv /\ ModeInv /\ [Next]_vars => ModeInv'
  BY ModeInvNext
<1>2. TableInv /\ ModeInv => TableExact
  BY CompleteTable
<1>3. Spec => [](LoaderInv /\ RinitInv /\ TableInv)
  BY TableInvariant
<1> QED BY <1>1, <1>2, <1>3, ModeInvInit, PTL DEF Spec

-----------------------------------------------------------------------------
\* Nothing is declared twice

\* What is assumed of the files: a symbol is declared by one file, by those that
\* are parsed at least the symbols that the parser finds.  The files of the parser
\* are different ones and are not loaded in any other way.  What clients load on
\* demand, as often as they like, declares nothing.
OneDeclaration ==
    /\ \A f, g \in File : f # g => Declares(f) \cap Declares(g) = {}
    /\ \A f \in File : Parsed(f) => Elems(Script[f].keys) \subseteq Declares(f)
    /\ \A m, n \in 1..Len(Parser) : Parser[m] = Parser[n] => m = n
    /\ \A m \in 1..Len(Parser) : Script[Parser[m]].flags = NONE
    /\ \A f \in Loadable : Declares(f) = {}

RinitFile(f) == ModeOf(f) = RINIT

\* The files that may be loaded when those of S are: autoloads add those that
\* have the classes which a file uses.
Closed(S)  == \A f \in S : \A c \in Elems(Script[f].uses) : Declaring(c) \subseteq S
Reached(S) == {f \in File : \A C \in SUBSET File : S \subseteq C /\ Closed(C) => f \in C}

\* Loading the parser reaches no file of RINIT, and loading a file of RINIT
\* reaches no later one.
Turn(i) == IF i = 0 THEN Elems(Parser) ELSE {FileList[i]}
InOrder ==
    \A i \in 0..Len(FileList) : i = 0 \/ RinitFile(FileList[i]) =>
      \A f \in Reached(Turn(i)) : RinitFile(f) => \E j \in 1..i : f = FileList[j]

\* Any file is declared as a whole.
Whole(defined) ==
    \A f \in File : Declares(f) \subseteq defined \/ Declares(f) \cap defined = {}

\* Whether a sequence that is loaded in order still comes to its m-th file
Ahead(r, m) == m > r.i \/ (m = r.i /\ r.stack = <<>>)

\* The files that a request in RINIT may still come to
ToCome(r, f) ==
    \/ r.pc = "parser" /\ \E m \in 1..Len(Parser) : Ahead(r, m) /\ f = Parser[m]
    \/ r.pc \in {"parser", "register", "keys", "unlock"} /\ RinitFile(f)
    \/ /\ r.pc = "loop" /\ RinitFile(f)
       /\ \E j \in 1..Len(FileList) : Ahead(r, j) /\ f = FileList[j]

Step(r) == IF r.pc = "parser" THEN 0 ELSE r.i

\* The files under way in RINIT
UnderWay(r, s) ==
    r.pc \in {"parser", "loop"} =>
      \A m \in 1..Len(s) :
        /\ s[m].file \in Reached(Turn(Step(r)))
        /\ Elems(s[m].rest) \subseteq Elems(Script[s[m].file].uses)

OnceOK(r) ==
    /\ Whole(r.defined)
    /\ r.pc = "lock" => r.defined = {}
    /\ \A f \in File : ToCome(r, f) => Declares(f) \cap r.defined = {}
    /\ r.stack # <<>> /\ r.stack[1].pc = "compile" =>
         /\ r.pc # "run" => Declares(r.stack[1].file) \cap r.defined = {}
         /\ ~ToCome(r, r.stack[1].file)
    /\ UnderWay(r, r.stack)
    /\ r.stack # <<>> /\ r.pc = "loop" => RinitFile(FileList[r.i]) /\ r.i <= Len(FileList)

\* What the registration of a file has read of it
KeysOK(r, mode) ==
    r.pc = "keys" =>
      /\ Parsed(FileList[r.i]) /\ mode[FileList[r.i]] = Script[FileList[r.i]].flags
      /\ Elems(r.keys) \subseteq Elems(KeysOf(r.i))

\* What the table and the modes tell of the files
DeclaredInv ==
    /\ \A k \in DOMAIN symbols : symbols[k] \in Declaring(k)
    /\ \A f \in File : load_mode[f] = RINIT => RinitFile(f)
    /\ \A t \in Thread : KeysOK(req[t], load_mode)

OnceInv == \A t \in Thread : OnceOK(req[t])

-----------------------------------------------------------------------------
\* The files that are reached

LEMMA DeclaringFiles ==
    ASSUME NEW k, NEW f \in Declaring(k)
    PROVE  f \in File /\ Parsed(f) /\ k \in Elems(Script[f].keys)
BY LoaderAssumption DEF Declaring, Elems

LEMMA ReachedClosed ==
    ASSUME NEW S, NEW f \in Reached(S), NEW c \in Elems(Script[f].uses),
           NEW g \in Declaring(c)
    PROVE  g \in Reached(S)
<1> SUFFICES ASSUME NEW C \in SUBSET File, S \subseteq C, Closed(C) PROVE g \in C
  BY DeclaringFiles DEF Reached
<1>1. f \in C
  BY DEF Reached
<1> QED BY <1>1 DEF Closed

LEMMA ReachedStart ==
    ASSUME NEW S \in SUBSET File
    PROVE  S \subseteq Reached(S)
BY DEF Reached

LEMMA TurnFiles ==
    /\ \A m \in 1..Len(Parser) : Parser[m] \in File /\ Parser[m] \in Reached(Turn(0))
    /\ \A j \in 1..Len(FileList) : FileList[j] \in File /\ FileList[j] \in Reached(Turn(j))
<1>1. /\ Elems(Parser) \in SUBSET File
      /\ \A m \in 1..Len(Parser) : Parser[m] \in Elems(Parser)
  BY LoaderAssumption DEF Elems
<1>2. ASSUME NEW m \in 1..Len(Parser)
      PROVE  Parser[m] \in File /\ Parser[m] \in Reached(Turn(0))
  BY <1>1, ReachedStart DEF Turn
<1>3. ASSUME NEW j \in 1..Len(FileList)
      PROVE  FileList[j] \in File /\ FileList[j] \in Reached(Turn(j))
  <2>1. FileList[j] \in File /\ j # 0
    BY LoaderAssumption
  <2>2. Turn(j) = {FileList[j]}
    BY <2>1 DEF Turn
  <2> QED BY <2>1, <2>2, ReachedStart
<1> QED BY <1>2, <1>3

\* A file that is parsed is none of the parser, and has the flags of no RINIT.
LEMMA ParserIsNotParsed ==
    ASSUME OneDeclaration, NEW m \in 1..Len(Parser)
    PROVE  ~Parsed(Parser[m]) /\ ~RinitFile(Parser[m])
BY DEF OneDeclaration, Parsed, Forced, RinitFile, ModeOf, NONE, RINIT

-----------------------------------------------------------------------------
\* Steps of a request

LEMMA WholeGrows ==
    ASSUME OneDeclaration, NEW d, Whole(d), NEW f \in File
    PROVE  /\ Whole(d \cup Declares(f))
           /\ \A g \in File : g # f /\ Declares(g) \cap d = {} =>
                Declares(g) \cap (d \cup Declares(f)) = {}
<1>1. \A g \in File : g # f => Declares(g) \cap Declares(f) = {}
  BY DEF OneDeclaration
<1> QED BY <1>1 DEF Whole

\* The request goes on in the same turn with another innermost file e.
LEMMA UnderWayCons ==
    ASSUME NEW r, NEW q, NEW s \in Seq(FrameType), NEW e \in FrameType,
           UnderWay(r, s), q.stack = <<e>> \o s, q.pc = r.pc, q.i = r.i,
           r.pc \in {"parser", "loop"} =>
             /\ e.file \in Reached(Turn(Step(r)))
             /\ Elems(e.rest) \subseteq Elems(Script[e.file].uses)
    PROVE  q.stack # <<>> /\ q.stack[1] = e /\ UnderWay(q, q.stack)
<1> DEFINE c == <<e>> \o s
<1>1. c # <<>> /\ Len(c) = Len(s) + 1 /\ Len(s) \in Nat /\ c[1] = e
      /\ \A m \in 1..Len(s) : c[m + 1] = s[m]
  OBVIOUS
<1> HIDE DEF c
<1>2. \A m \in 1..Len(c) : m = 1 \/ (m - 1 \in 1..Len(s) /\ c[m] = s[m - 1])
  <2> TAKE m \in 1..Len(c)
  <2>1. CASE m # 1
    <3>1. m - 1 \in 1..Len(s) /\ (m - 1) + 1 = m
      BY <1>1, <2>1
    <3> QED BY <1>1, <3>1
  <2> QED BY <2>1
<1>3. q.stack = c /\ Step(q) = Step(r)
  BY DEF c, Step
<1>4. UnderWay(q, c)
  <2> SUFFICES ASSUME q.pc \in {"parser", "loop"}, NEW m \in 1..Len(c)
               PROVE  /\ c[m].file \in Reached(Turn(Step(q)))
                      /\ Elems(c[m].rest) \subseteq Elems(Script[c[m].file].uses)
    BY DEF UnderWay
  <2>1. CASE m = 1
    BY <1>1, <1>3, <2>1
  <2>2. CASE m # 1
    <3>1. m - 1 \in 1..Len(s) /\ c[m] = s[m - 1]
      BY <1>2, <2>2
    <3> QED BY <1>3, <3>1 DEF UnderWay
  <2> QED BY <2>1, <2>2
<1> QED BY <1>1, <1>3, <1>4

LEMMA UnderWayTail ==
    ASSUME NEW r, NEW s \in Seq(FrameType), s # <<>>, UnderWay(r, s)
    PROVE  UnderWay(r, Tail(s))
<1>1. /\ Len(Tail(s)) = Len(s) - 1 /\ Len(s) \in Nat
      /\ \A m \in 1..Len(Tail(s)) : Tail(s)[m] = s[m + 1]
  OBVIOUS
<1>2. \A m \in 1..Len(Tail(s)) : m + 1 \in 1..Len(s)
  BY <1>1
<1> QED BY <1>1, <1>2 DEF UnderWay

\* The request comes to no other files than before, and compiles none.
LEMMA OnceKept ==
    ASSUME NEW r, NEW q, OnceOK(r), q.defined = r.defined, q.pc = "lock" => r.pc = "lock",
           \A f \in File : ToCome(q, f) => ToCome(r, f),
           q.stack # <<>> =>
             q.stack[1].pc # "compile" /\ r.stack # <<>> /\ q.i = r.i /\ q.pc = r.pc,
           UnderWay(q, q.stack)
    PROVE  OnceOK(q)
BY DEF OnceOK

\* PCS_Loader_loadNode returns.
LEMMA OnceReturned ==
    ASSUME NEW r \in Request, IndexOK(r), OnceOK(r), r.stack # <<>>, r.pc # "lock",
           NEW stack \in Seq(FrameType), NEW status \in {"SUCCESS", "FAILURE"},
           UnderWay(r, stack), AllWait(stack)
    PROVE  OnceOK(Returned(r, stack, status))
<1> DEFINE q == Returned(r, stack, status)
<1>1. /\ q.stack = stack /\ q.defined = r.defined
      /\ stack # <<>> \/ r.pc \notin {"parser", "loop"} => q.pc = r.pc /\ q.i = r.i
      /\ stack = <<>> /\ r.pc \in {"parser", "loop"} /\ status = "SUCCESS" =>
           q.pc = r.pc /\ q.i = r.i + 1
      /\ stack = <<>> /\ r.pc \in {"parser", "loop"} /\ status = "FAILURE" =>
           q.pc \in {"unlock", "exit"} /\ (r.pc = "loop" => q.pc = "exit")
  <2>1. stack = <<>> /\ r.pc = "loop" /\ status = "FAILURE" => q.pc = "exit"
    BY DEF Returned, Request
  <2> HIDE DEF q
  <2> QED BY <2>1, ReturnedParts DEF q
<1> HIDE DEF q
<1>2. r.i \in Nat /\ r.i >= 1
  BY DEF Request, IndexOK
<1>3. ASSUME NEW f \in File, ToCome(q, f) PROVE ToCome(r, f)
  <2>1. CASE stack # <<>> \/ r.pc \notin {"parser", "loop"}
    BY <1>1, <1>3, <2>1 DEF ToCome, Ahead
  <2>2. CASE stack = <<>> /\ r.pc \in {"parser", "loop"} /\ status = "SUCCESS"
    <3>1. \A m \in Nat : Ahead(q, m) => Ahead(r, m)
      BY <1>1, <1>2, <2>2 DEF Ahead
    <3> QED BY <1>1, <1>3, <2>2, <3>1 DEF ToCome
  <2>3. CASE stack = <<>> /\ r.pc \in {"parser", "loop"} /\ status = "FAILURE"
    BY <1>1, <1>3, <2>3 DEF ToCome
  <2> QED BY <2>1, <2>2, <2>3
<1>4. UnderWay(q, stack)
  <2>1. CASE stack # <<>>
    BY <1>1, <2>1 DEF UnderWay, Step
  <2>2. CASE stack = <<>>
    BY <2>2 DEF UnderWay
  <2> QED BY <2>1, <2>2
<1>5. stack # <<>> => stack[1].pc # "compile"
  <2> SUFFICES ASSUME stack # <<>> PROVE stack[1].pc # "compile"
    OBVIOUS
  <2>1. 1 \in 1..Len(stack)
    OBVIOUS
  <2> QED BY <2>1 DEF AllWait
<1> QED BY <1>1, <1>3, <1>4, <1>5, OnceKept DEF q

LEMMA OnceBailedOut ==
    ASSUME NEW r \in Request, IndexOK(r), OnceOK(r), r.stack # <<>>, r.pc # "lock",
           Frames(r.stack, r.defined)
    PROVE  OnceOK(BailedOut(r))
<1> DEFINE stack == IF r.stack # <<>> /\ r.stack[1].pc = "compile"
                    THEN Tail(r.stack) ELSE r.stack
<1>1. /\ r.stack \in Seq(FrameType) /\ UnderWay(r, r.stack)
      /\ Tail(r.stack) \in Seq(FrameType) /\ Frames(Tail(r.stack), r.defined)
      /\ AllWait(Tail(r.stack)) /\ UnderWay(r, Tail(r.stack))
  <2>1. r.stack \in Seq(FrameType) /\ UnderWay(r, r.stack)
    BY DEF Request, OnceOK
  <2>2. UnderWay(r, Tail(r.stack))
    BY <2>1, UnderWayTail
  <2>3. /\ Tail(r.stack) \in Seq(FrameType) /\ Frames(Tail(r.stack), r.defined)
        /\ AllWait(Tail(r.stack))
    BY <2>1, TailFrames
  <2> QED BY <2>1, <2>2, <2>3
<1>2. stack \in Seq(FrameType) /\ Frames(stack, r.defined) /\ UnderWay(r, stack)
  BY <1>1
<1>3. CASE stack = <<>>
  <2> DEFINE pc == IF r.pc = "run" THEN "aborted" ELSE "failed"
             q == [r EXCEPT !.pc = pc, !.stack = <<>>, !.keys = <<>>]
  <2>1. BailedOut(r) = q
    BY <1>3 DEF BailedOut
  <2>2. q.pc \in {"failed", "aborted"} /\ q.stack = <<>> /\ q.defined = r.defined
    BY DEF Request
  <2> HIDE DEF q
  <2>3. \A f \in File : ~ToCome(q, f)
    BY <2>2 DEF ToCome
  <2>4. UnderWay(q, q.stack)
    BY <2>2 DEF UnderWay
  <2> QED BY <2>1, <2>2, <2>3, <2>4, OnceKept
<1>4. CASE stack # <<>>
  <2>1. BailedOut(r) = Returned(r, Tail(stack), "FAILURE")
    BY <1>4 DEF BailedOut
  <2> HIDE DEF stack
  <2>2. /\ Tail(stack) \in Seq(FrameType) /\ AllWait(Tail(stack)) /\ UnderWay(r, Tail(stack))
    BY <1>2, <1>4, TailFrames, UnderWayTail
  <2> QED BY <2>1, <2>2, OnceReturned
<1> QED BY <1>3, <1>4

LEMMA OncePushed ==
    ASSUME NEW r \in Request, OnceOK(r), r.pc # "lock", NEW f \in File, NEW q,
           q.stack = <<Frame(f)>> \o r.stack, q.pc = r.pc, q.i = r.i, q.defined = r.defined,
           r.pc # "run" => Declares(f) \cap r.defined = {}, ~ToCome(q, f),
           r.pc \in {"parser", "loop"} => f \in Reached(Turn(Step(r))),
           r.pc = "loop" => RinitFile(FileList[r.i]) /\ r.i <= Len(FileList)
    PROVE  OnceOK(q)
<1>1. /\ Frame(f) \in FrameType /\ Frame(f).pc = "compile" /\ Frame(f).file = f
      /\ Frame(f).rest = <<>>
  BY DEF Frame, FrameType
<1>2. Elems(Frame(f).rest) = {}
  BY <1>1 DEF Elems
<1>3. r.stack \in Seq(FrameType) /\ UnderWay(r, r.stack)
  BY DEF Request, OnceOK
<1>4. q.stack # <<>> /\ q.stack[1] = Frame(f) /\ UnderWay(q, q.stack)
  BY <1>1, <1>2, <1>3, UnderWayCons
<1>5. \A g \in File : ToCome(q, g) => ToCome(r, g)
  BY <1>4 DEF ToCome, Ahead
<1> QED BY <1>1, <1>4, <1>5 DEF OnceOK

\* A file that is loaded for a symbol that is not there yet
LEMMA FreshFile ==
    ASSUME OneDeclaration, DeclaredInv, NEW d, Whole(d), NEW k \in DOMAIN symbols \ d
    PROVE  /\ symbols[k] \in File /\ Parsed(symbols[k]) /\ symbols[k] \in Declaring(k)
           /\ Declares(symbols[k]) \cap d = {}
<1>1. symbols[k] \in Declaring(k)
  BY DEF DeclaredInv
<1>2. symbols[k] \in File /\ Parsed(symbols[k]) /\ k \in Elems(Script[symbols[k]].keys)
  BY <1>1, DeclaringFiles
<1>3. k \in Declares(symbols[k])
  BY <1>2 DEF OneDeclaration
<1> QED BY <1>1, <1>2, <1>3 DEF Whole

\* A nested autoload anticipates no file that RINIT comes to.
LEMMA NotAnticipated ==
    ASSUME OneDeclaration, InOrder, Distinct, NEW r \in Request, IndexOK(r), OnceOK(r),
           r.stack # <<>>, r.pc \notin {"register", "keys", "unlock"},
           NEW f, NEW c \in Elems(Script[f].uses), NEW g \in Declaring(c),
           r.pc \in {"parser", "loop"} => f \in Reached(Turn(Step(r))),
           NEW q, q.pc = r.pc, q.i = r.i, q.stack # <<>>
    PROVE  /\ ~ToCome(q, g)
           /\ r.pc \in {"parser", "loop"} => g \in Reached(Turn(Step(r)))
<1>1. r.pc \in {"parser", "loop"} => g \in Reached(Turn(Step(r)))
  BY ReachedClosed
<1>2. g \in File /\ Parsed(g) /\ r.i \in Nat /\ r.i >= 1 /\ Len(FileList) \in Nat
  BY DeclaringFiles, LoaderAssumption DEF Request, IndexOK
<1>3. CASE r.pc = "parser"
  <2>1. Step(r) = 0 /\ g \in Reached(Turn(0))
    BY <1>1, <1>3 DEF Step
  <2>2. ~RinitFile(g)
    <3>1. 0 \in 0..Len(FileList)
      BY <1>2
    <3>2. RinitFile(g) => \E j \in 1..0 : g = FileList[j]
      BY <2>1, <3>1 DEF InOrder
    <3> QED BY <3>2
  <2>3. \A m \in 1..Len(Parser) : g # Parser[m]
    BY <1>2, ParserIsNotParsed
  <2> QED BY <1>1, <1>3, <2>2, <2>3 DEF ToCome
<1>4. CASE r.pc = "loop"
  <2>1. Step(r) = r.i /\ r.i \in 0..Len(FileList) /\ RinitFile(FileList[r.i])
    BY <1>2, <1>4 DEF Step, OnceOK
  <2>2. RinitFile(g) => \E j \in 1..r.i : g = FileList[j]
    BY <1>1, <1>4, <2>1 DEF InOrder
  <2>3. ASSUME RinitFile(g), NEW j \in 1..Len(FileList), Ahead(q, j), g = FileList[j]
        PROVE  FALSE
    <3>1. PICK m \in 1..r.i : g = FileList[m]
      BY <2>2, <2>3
    <3>2. m \in 1..Len(FileList) /\ m <= r.i /\ j > r.i
      BY <1>2, <2>1, <2>3 DEF Ahead
    <3>3. m = j
      BY <2>3, <3>1, <3>2 DEF Distinct
    <3> QED BY <1>2, <3>2, <3>3
  <2> QED BY <1>1, <1>4, <2>3 DEF ToCome
<1>5. CASE r.pc \notin {"parser", "loop"}
  BY <1>5 DEF ToCome
<1> QED BY <1>3, <1>4, <1>5

LEMMA ElemsTail ==
    ASSUME NEW S, NEW s \in Seq(S), s # <<>>
    PROVE  Elems(Tail(s)) \subseteq Elems(s) /\ Head(s) \in Elems(s)
<1>1. /\ Len(Tail(s)) = Len(s) - 1 /\ Len(s) \in Nat /\ Head(s) = s[1] /\ Len(s) >= 1
      /\ \A m \in 1..Len(Tail(s)) : Tail(s)[m] = s[m + 1]
  OBVIOUS
<1>2. \A m \in 1..Len(Tail(s)) : m + 1 \in 1..Len(s)
  BY <1>1
<1>3. 1 \in 1..Len(s)
  BY <1>1
<1> QED BY <1>1, <1>2, <1>3 DEF Elems

\* The innermost file of OnTop, with what remains of it
LEMMA OnTopRest ==
    ASSUME NEW r \in Request, r.stack # <<>>,
           NEW pc \in {"compile", "exec", "wait"}, NEW rest \in Seq(ClassKey),
           NEW e, e = [file |-> r.stack[1].file, pc |-> pc, rest |-> rest]
    PROVE  /\ e \in FrameType
           /\ e.file = r.stack[1].file /\ e.pc = pc /\ e.rest = rest
           /\ OnTop(r, pc, rest).stack = <<e>> \o Tail(r.stack)
<1> DEFINE stack == <<e>> \o Tail(r.stack)
<1>1. r.stack \in Seq(FrameType)
  BY DEF Request
<1>2. r.stack[1] \in FrameType
  BY <1>1
<1>3. e \in FrameType /\ e.file = r.stack[1].file /\ e.pc = pc /\ e.rest = rest
  BY <1>2 DEF FrameType
<1>4. OnTop(r, pc, rest) = [r EXCEPT !.stack = stack]
  BY DEF OnTop
<1> HIDE DEF stack
<1>5. OnTop(r, pc, rest).stack = stack
  BY <1>4 DEF Request
<1> QED BY <1>3, <1>5 DEF stack

LEMMA OnceLoadStep ==
    ASSUME OneDeclaration, InOrder, Distinct, LoaderInv, DeclaredInv,
           NEW t \in Thread, RinitOK(req[t], load_mode), OnceOK(req[t]), LoadStep(t)
    PROVE  OnceOK(req'[t]) /\ (req[t].pc # "run" => ~FatalError(t))
<1> DEFINE r == req[t]
           top == r.stack[1]
<1>1. /\ req \in [Thread -> Request] /\ r \in Request /\ IndexOK(r)
      /\ r.stack \in Seq(FrameType) /\ r.defined \in SUBSET Key
  BY TypeOfRequests DEF LoaderInv, Request
<1>2. r.stack # <<>>
  <2>1. \E pc \in {"compile", "exec", "wait"} : At(t, pc)
    BY DEF LoadStep, Compile, FatalError, BailOut, UseDefined, UseAutoload, UseUnknown, ExecDone
  <2> QED BY <2>1 DEF At, Stack
<1>3. top \in FrameType /\ top.file \in File /\ top.rest \in Seq(ClassKey)
  <2>1. top \in FrameType
    BY <1>1, <1>2
  <2> QED BY <2>1 DEF FrameType
<1>4. /\ Tail(r.stack) \in Seq(FrameType) /\ AllWait(Tail(r.stack))
      /\ UnderWay(r, r.stack) /\ UnderWay(r, Tail(r.stack))
  <2>1. Tail(r.stack) \in Seq(FrameType) /\ AllWait(Tail(r.stack))
    BY <1>1, <1>2, TailFrames DEF RinitOK
  <2>2. UnderWay(r, r.stack)
    BY DEF OnceOK
  <2>3. UnderWay(r, Tail(r.stack))
    BY <1>1, <1>2, <2>2, UnderWayTail
  <2> QED BY <2>1, <2>2, <2>3
<1>5. r.pc \in {"parser", "loop"} =>
        /\ top.file \in Reached(Turn(Step(r)))
        /\ Elems(top.rest) \subseteq Elems(Script[top.file].uses)
  <2>1. 1 \in 1..Len(r.stack)
    BY <1>1, <1>2
  <2> QED BY <1>4, <2>1 DEF UnderWay
<1>6. r.pc \notin {"lock", "register", "keys", "unlock"}
  BY <1>2 DEF RinitOK
<1>7. r.pc # "run" => ~FatalError(t)
  BY DEF FatalError, At, Top, Stack, Redeclares, OnceOK, Declares
\* The innermost file goes on, with what remains of its classes.
<1>8. ASSUME NEW x \in Request, NEW e \in FrameType, e.file = top.file, e.pc # "compile",
             Elems(e.rest) \subseteq Elems(top.rest) \/
               Elems(e.rest) \subseteq Elems(Script[top.file].uses),
             x.stack = <<e>> \o Tail(r.stack), x.pc = r.pc, x.i = r.i,
             x.defined = r.defined
      PROVE  OnceOK(x) /\ x.stack # <<>>
  <2> DEFINE s == Tail(r.stack)
  <2>1. r.pc \in {"parser", "loop"} =>
          /\ e.file \in Reached(Turn(Step(r)))
          /\ Elems(e.rest) \subseteq Elems(Script[e.file].uses)
    BY <1>5, <1>8
  <2>2. s \in Seq(FrameType) /\ UnderWay(r, s) /\ x.stack = <<e>> \o s
    BY <1>4, <1>8
  <2> HIDE DEF s, r
  <2>3. x.stack # <<>> /\ x.stack[1] = e /\ UnderWay(x, x.stack)
    BY <1>8, <2>1, <2>2, UnderWayCons
  <2>4. \A f \in File : ToCome(x, f) => ToCome(r, f)
    BY <1>8, <2>3 DEF ToCome, Ahead
  <2>5. OnceOK(r) /\ r.stack # <<>>
    BY <1>2 DEF r
  <2> QED BY <1>8, <2>3, <2>4, <2>5, OnceKept
<1>9. CASE Compile(t)
  <2> DEFINE x == OnTop(r, "exec", Script[top.file].uses)
             q == [x EXCEPT !.defined = x.defined \cup Declares(top.file), !.noext = TRUE]
  <2>1. Script[top.file].uses \in Seq(ClassKey)
    BY <1>3, LoaderAssumption
  <2>2. /\ x \in Request /\ x.pc = r.pc /\ x.i = r.i /\ x.defined = r.defined
    BY <1>1, <1>2, <2>1, OnTopOutcome
  <2>3. PICK e \in FrameType : /\ e.file = top.file /\ e.pc = "exec"
                               /\ e.rest = Script[top.file].uses
                               /\ x.stack = <<e>> \o Tail(r.stack)
    <3> DEFINE u == Script[top.file].uses
               e == [file |-> top.file, pc |-> "exec", rest |-> u]
    <3>1. u \in Seq(ClassKey)
      BY <2>1
    <3>2. /\ e \in FrameType /\ e.file = top.file /\ e.pc = "exec" /\ e.rest = u
          /\ OnTop(r, "exec", u).stack = <<e>> \o Tail(r.stack)
      <4> HIDE DEF u
      <4> QED BY <1>1, <1>2, <3>1, OnTopRest
    <3> HIDE DEF e
    <3> QED BY <3>2
  <2>4. req' = [req EXCEPT ![t] = q] /\ top.pc = "compile"
    BY <1>9 DEF Compile, At, Top, Stack, Declares
  <2> HIDE DEF x
  <2>5. OnceOK(x) /\ x.stack # <<>>
    BY <1>8, <2>2, <2>3
  <2>6. /\ q.stack = x.stack /\ q.pc = x.pc /\ q.i = x.i
        /\ q.defined = x.defined \cup Declares(top.file)
    BY <2>2 DEF Request
  <2> HIDE DEF q
  <2>7. /\ Whole(q.defined)
        /\ \A g \in File : g # top.file /\ Declares(g) \cap x.defined = {} =>
             Declares(g) \cap q.defined = {}
    BY <1>3, <2>5, <2>6, WholeGrows DEF OnceOK
  <2>8. \A g \in File : ToCome(q, g) => ToCome(x, g) /\ ToCome(r, g)
    BY <1>2, <2>2, <2>5, <2>6 DEF ToCome, Ahead
  <2>9. ~ToCome(r, top.file)
    BY <1>2, <2>4 DEF OnceOK
  <2>10. \A g \in File : ToCome(q, g) => Declares(g) \cap q.defined = {}
    <3> SUFFICES ASSUME NEW g \in File, ToCome(q, g) PROVE Declares(g) \cap q.defined = {}
      OBVIOUS
    <3>1. g # top.file /\ ToCome(x, g)
      BY <2>8, <2>9
    <3> QED BY <2>5, <2>7, <3>1 DEF OnceOK
  <2>11. q.stack[1].pc # "compile"
    <3>1. x.stack[1] = e
      BY <1>4, <2>3
    <3> QED BY <2>3, <2>6, <3>1
  <2>12. UnderWay(q, q.stack)
    BY <2>5, <2>6 DEF OnceOK, UnderWay, Step
  <2>13. q.pc # "lock" /\ (q.pc = "loop" => RinitFile(FileList[q.i]) /\ q.i <= Len(FileList))
    BY <1>6, <2>2, <2>5, <2>6 DEF OnceOK
  <2>14. OnceOK(q)
    BY <2>7, <2>10, <2>11, <2>12, <2>13 DEF OnceOK
  <2> QED BY <1>1, <1>7, <2>4, <2>14
<1>10. CASE FatalError(t) \/ BailOut(t)
  <2>1. req' = [req EXCEPT ![t] = BailedOut(r)]
    BY <1>10 DEF FatalError, BailOut
  <2>2. OnceOK(BailedOut(r))
    BY <1>1, <1>2, <1>6, OnceBailedOut DEF RinitOK
  <2> QED BY <1>1, <1>7, <2>1, <2>2
<1>11. CASE UseDefined(t)
  <2> DEFINE q == OnTop(r, "exec", Tail(top.rest))
  <2>1. /\ top.rest # <<>> /\ req' = [req EXCEPT ![t] = q]
    BY <1>11 DEF UseDefined, Continue, At, Top, Stack
  <2>2. Tail(top.rest) \in Seq(ClassKey) /\ Elems(Tail(top.rest)) \subseteq Elems(top.rest)
    BY <1>3, <2>1, ElemsTail
  <2>3. q \in Request /\ q.pc = r.pc /\ q.i = r.i /\ q.defined = r.defined
    BY <1>1, <1>2, <2>2, OnTopOutcome
  <2>4. PICK e \in FrameType : /\ e.file = top.file /\ e.pc = "exec"
                               /\ e.rest = Tail(top.rest)
                               /\ q.stack = <<e>> \o Tail(r.stack)
    <3> DEFINE u == Tail(top.rest)
               e == [file |-> top.file, pc |-> "exec", rest |-> u]
    <3>1. u \in Seq(ClassKey)
      BY <2>2
    <3>2. /\ e \in FrameType /\ e.file = top.file /\ e.pc = "exec" /\ e.rest = u
          /\ OnTop(r, "exec", u).stack = <<e>> \o Tail(r.stack)
      <4> HIDE DEF u
      <4> QED BY <1>1, <1>2, <3>1, OnTopRest
    <3> HIDE DEF e
    <3> QED BY <3>2
  <2> HIDE DEF q
  <2>5. OnceOK(q)
    BY <1>8, <2>2, <2>3, <2>4
  <2> QED BY <1>1, <1>7, <2>1, <2>5
<1>12. CASE UseAutoload(t)
  <2> DEFINE x == OnTop(r, "wait", top.rest)
             c == Class(t)
             f == symbols[c]
             q == Pushed(x, f)
  <2>1. /\ req' = [req EXCEPT ![t] = q] /\ top.rest # <<>>
        /\ c = Head(top.rest) /\ c \in DOMAIN symbols \ r.defined
    BY <1>12 DEF UseAutoload, At, Top, Stack, Class
  <2>2. x \in Request /\ x.pc = r.pc /\ x.i = r.i /\ x.defined = r.defined
    BY <1>1, <1>2, <1>3, OnTopOutcome
  <2>3. PICK e \in FrameType : /\ e.file = top.file /\ e.pc = "wait"
                               /\ e.rest = top.rest
                               /\ x.stack = <<e>> \o Tail(r.stack)
    <3> DEFINE u == top.rest
               e == [file |-> top.file, pc |-> "wait", rest |-> u]
    <3>1. u \in Seq(ClassKey)
      BY <1>3
    <3>2. /\ e \in FrameType /\ e.file = top.file /\ e.pc = "wait" /\ e.rest = u
          /\ OnTop(r, "wait", u).stack = <<e>> \o Tail(r.stack)
      <4> HIDE DEF u
      <4> QED BY <1>1, <1>2, <3>1, OnTopRest
    <3> HIDE DEF e
    <3> QED BY <3>2
  <2>4. c \in Elems(top.rest)
    BY <1>3, <2>1, ElemsTail
  <2> HIDE DEF x, c
  <2>5. OnceOK(x) /\ x.stack # <<>>
    BY <1>8, <2>2, <2>3
  <2>6. /\ f \in File /\ f \in Declaring(c) /\ Declares(f) \cap r.defined = {}
    BY <2>1, FreshFile DEF OnceOK
  <2> HIDE DEF f
  <2>7. /\ q.stack = <<Frame(f)>> \o x.stack /\ q.pc = x.pc /\ q.i = x.i
        /\ q.defined = x.defined
    BY <2>2 DEF Pushed, Request
  <2> HIDE DEF q
  <2>8. q.stack # <<>>
    <3>1. x.stack \in Seq(FrameType)
      BY <2>2 DEF Request
    <3> QED BY <2>7, <3>1
  <2>9. ~ToCome(q, f) /\ (r.pc \in {"parser", "loop"} => f \in Reached(Turn(Step(r))))
    <3>1. CASE r.pc \in {"parser", "loop"}
      <4>1. c \in Elems(Script[top.file].uses) /\ top.file \in Reached(Turn(Step(r)))
        BY <1>5, <2>4, <3>1
      <4> QED BY <1>1, <1>2, <1>6, <2>2, <2>6, <2>7, <2>8, <4>1, NotAnticipated
    <3>2. CASE r.pc \notin {"parser", "loop"}
      BY <1>6, <2>2, <2>7, <3>2 DEF ToCome
    <3> QED BY <3>1, <3>2
  <2>10. x.pc = "loop" => RinitFile(FileList[x.i]) /\ x.i <= Len(FileList)
    BY <2>5 DEF OnceOK
  <2>11. Step(x) = Step(r)
    BY <2>2 DEF Step
  <2>12. OnceOK(q)
    BY <1>6, <2>2, <2>5, <2>6, <2>7, <2>9, <2>10, <2>11, OncePushed
  <2> QED BY <1>1, <1>7, <2>1, <2>12
<1>13. ASSUME NEW stack \in Seq(FrameType), AllWait(stack), UnderWay(r, stack),
              req' = [req EXCEPT ![t] = Returned([r EXCEPT !.noext = FALSE], stack, "SUCCESS")]
       PROVE  OnceOK(req'[t])
  <2> DEFINE x == [r EXCEPT !.noext = FALSE]
  <2>1. /\ x \in Request /\ x.pc = r.pc /\ x.i = r.i /\ x.stack = r.stack
        /\ x.defined = r.defined
    BY <1>1 DEF Request
  <2> HIDE DEF x
  <2>2. UnderWay(x, stack) /\ UnderWay(x, x.stack)
    BY <1>4, <1>13, <2>1 DEF UnderWay, Step
  <2>3. IndexOK(x) /\ OnceOK(x)
    <3>1. \A f \in File : ToCome(x, f) <=> ToCome(r, f)
      BY <2>1 DEF ToCome, Ahead
    <3>2. OnceOK(r) /\ IndexOK(r)
      BY <1>1
    <3> HIDE DEF r
    <3>3. IndexOK(x)
      BY <2>1, <3>2 DEF IndexOK
    <3>4. x.stack # <<>> /\ x.stack[1].pc = "compile" =>
            /\ x.pc # "run" => Declares(x.stack[1].file) \cap x.defined = {}
            /\ ~ToCome(x, x.stack[1].file)
      BY <2>1, <3>2 DEF OnceOK, ToCome, Ahead
    <3>5. \A f \in File : ToCome(x, f) => Declares(f) \cap x.defined = {}
      BY <2>1, <3>1, <3>2 DEF OnceOK
    <3>6. /\ Whole(x.defined) /\ (x.pc = "lock" => x.defined = {})
          /\ x.stack # <<>> /\ x.pc = "loop" =>
               RinitFile(FileList[x.i]) /\ x.i <= Len(FileList)
      BY <2>1, <3>2 DEF OnceOK
    <3> QED BY <2>2, <3>3, <3>4, <3>5, <3>6 DEF OnceOK
  <2>4. OnceOK(Returned(x, stack, "SUCCESS"))
    BY <1>2, <1>6, <1>13, <2>1, <2>2, <2>3, OnceReturned
  <2> QED BY <1>1, <1>13, <2>4 DEF x
<1>14. CASE UseUnknown(t)
  <2>1. <<>> \in Seq(FrameType) /\ AllWait(<<>>) /\ UnderWay(r, <<>>)
    BY DEF AllWait, UnderWay
  <2>2. req' = [req EXCEPT ![t] = Returned([r EXCEPT !.noext = FALSE], <<>>, "SUCCESS")]
    BY <1>14 DEF UseUnknown, Thrown
  <2> QED BY <1>7, <1>13, <2>1, <2>2
<1>15. CASE ExecDone(t)
  <2>1. req' = [req EXCEPT ![t] = Returned([r EXCEPT !.noext = FALSE], Tail(r.stack), "SUCCESS")]
    BY <1>15 DEF ExecDone, Stack
  <2> QED BY <1>4, <1>7, <1>13, <2>1
<1> QED BY <1>7, <1>9, <1>10, <1>11, <1>12, <1>14, <1>15 DEF LoadStep

-----------------------------------------------------------------------------
\* The table and the modes tell the truth

LEMMA DeclaredInit == Init => DeclaredInv
<1> SUFFICES ASSUME Init PROVE DeclaredInv
  OBVIOUS
<1>1. DOMAIN symbols = {} /\ \A f \in File : load_mode[f] # RINIT
  BY DEF Init, RINIT
<1>2. \A t \in Thread : req[t].pc = "off"
  BY DEF Init, NoRequest
<1> QED BY <1>1, <1>2 DEF DeclaredInv, KeysOK

\* A step of the request of t
LEMMA DeclaredStep ==
    ASSUME LoaderInv, DeclaredInv, NEW t \in Thread, \E q : req' = [req EXCEPT ![t] = q],
           load_mode' = load_mode \/ req[t].pc \in Filling,
           KeysOK(req'[t], load_mode'),
           \A k \in DOMAIN symbols' : symbols'[k] \in Declaring(k),
           \A f \in File : load_mode'[f] = RINIT => RinitFile(f)
    PROVE  DeclaredInv'
<1>1. \A u \in Thread \ {t} : req'[u] = req[u]
  BY TypeOfRequests DEF LoaderInv
<1>2. ASSUME NEW u \in Thread
      PROVE  KeysOK(req'[u], load_mode')
  <2>1. CASE u # t /\ load_mode' = load_mode
    BY <1>1, <2>1 DEF DeclaredInv
  <2>2. CASE u # t /\ req[t].pc \in Filling
    <3>1. req'[u] = req[u] /\ req[u].pc \notin Critical
      BY <1>1, <2>2, Alone DEF Critical
    <3> QED BY <3>1 DEF KeysOK, Critical, Filling
  <2> QED BY <2>1, <2>2
<1> QED BY <1>2 DEF DeclaredInv, KeysOK, Declaring, RinitFile, ModeOf

LEMMA QuietDeclared ==
    ASSUME LoaderInv, DeclaredInv, NEW t \in Thread, \E q : req' = [req EXCEPT ![t] = q],
           UNCHANGED <<load_mode, symbols>>, req'[t].pc # "keys"
    PROVE  DeclaredInv'
<1>1. KeysOK(req'[t], load_mode')
  BY DEF KeysOK
<1> QED BY <1>1, DeclaredStep DEF DeclaredInv

LEMMA LoadStepDeclared ==
    ASSUME LoaderInv, RinitInv, DeclaredInv, NEW t \in Thread, LoadStep(t)
    PROVE  DeclaredInv'
<1> DEFINE r == req[t]
<1>1. UNCHANGED <<load_mode, symbols, loader_init_done, mutex>>
  BY LoadStepOutcome
<1>2. PICK q : LoadOutcome(r, q) /\ req' = [req EXCEPT ![t] = q]
  BY LoadStepOutcome
<1>3. r.pc # "keys"
  <2>1. \E pc \in {"compile", "exec", "wait"} : At(t, pc)
    BY DEF LoadStep, Compile, FatalError, BailOut, UseDefined, UseAutoload, UseUnknown, ExecDone
  <2>2. r.stack # <<>>
    BY <2>1 DEF At, Stack
  <2> QED BY <2>2 DEF RinitInv, RinitOK
<1>4. q.pc # "keys"
  BY <1>2, <1>3 DEF LoadOutcome
<1>5. req'[t] = q
  BY <1>2, TypeOfRequests DEF LoaderInv
<1> QED BY <1>1, <1>2, <1>4, <1>5, QuietDeclared

LEMMA OtherDeclared ==
    ASSUME LoaderInv, DeclaredInv, NEW t \in Thread,
           \/ BeginRequest(t) \/ LockSymbols(t) \/ EndRequest(t)
           \/ LoadParser(t) \/ UnlockSymbols(t) \/ LoadRinit(t) \/ InitDone(t)
           \/ \E k \in Wanted, autoload \in BOOLEAN : LoadSymbol(t, k, autoload)
           \/ \E f \in Loadable : PCS_loadScript(t, f)
    PROVE  DeclaredInv'
<1>1. UNCHANGED <<load_mode, symbols>> /\ req \in [Thread -> Request]
  BY TypeOfRequests
     DEF BeginRequest, LockSymbols, EndRequest, LoadParser, UnlockSymbols, LoadRinit,
         LoadSymbol, PCS_loadScript, InitDone, LoaderInv
<1>2. ASSUME NEW q, req' = [req EXCEPT ![t] = q], q.pc # "keys"
      PROVE  DeclaredInv'
  <2>1. req'[t] = q
    BY <1>1, <1>2
  <2> QED BY <1>1, <1>2, <2>1, QuietDeclared
<1>3. CASE BeginRequest(t) \/ EndRequest(t)
  <2>1. NoRequest.pc = "off" /\ [NoRequest EXCEPT !.pc = "lock"].pc = "lock"
    BY NoRequestType
  <2> QED BY <1>2, <1>3, <2>1 DEF BeginRequest, EndRequest
<1>4. ASSUME NEW pc, NEW i, Goto(t, pc, i), pc # "keys"
      PROVE  DeclaredInv'
  <2>1. \E q : req' = [req EXCEPT ![t] = q] /\ q.pc = pc /\ q.i = i
    BY <1>4, GotoRequest
  <2> QED BY <1>2, <1>4, <2>1
<1>5. ASSUME NEW f, req' = [req EXCEPT ![t] = Pushed(req[t], f)], req[t].pc # "keys"
      PROVE  DeclaredInv'
  <2>1. Pushed(req[t], f).pc = req[t].pc
    BY <1>1 DEF Pushed, Request
  <2> QED BY <1>2, <1>5, <2>1
<1>6. CASE LockSymbols(t) \/ UnlockSymbols(t) \/ InitDone(t)
  <2>1. \E pc \in {"unlock", "parser", "loop", "exit"} : Goto(t, pc, 1)
    BY <1>6 DEF LockSymbols, UnlockSymbols, InitDone
  <2> QED BY <1>4, <2>1
<1>7. CASE LoadParser(t) \/ LoadRinit(t)
  <2>1. req[t].pc # "keys"
    BY <1>7 DEF LoadParser, LoadRinit
  <2>2. \/ \E f : req' = [req EXCEPT ![t] = Pushed(req[t], f)]
        \/ Goto(t, "register", 1)
        \/ \E pc \in {"loop", "run"} : \E i : Goto(t, pc, i)
    BY <1>7 DEF LoadParser, LoadRinit
  <2> QED BY <1>4, <1>5, <2>1, <2>2
<1>8. CASE \/ \E k \in Wanted, autoload \in BOOLEAN : LoadSymbol(t, k, autoload)
           \/ \E f \in Loadable : PCS_loadScript(t, f)
  <2>1. /\ req[t].pc # "keys"
        /\ \E f : req' = [req EXCEPT ![t] = Pushed(req[t], f)]
    BY <1>8 DEF LoadSymbol, PCS_loadScript, Running
  <2> QED BY <1>5, <2>1
<1> QED BY <1>3, <1>6, <1>7, <1>8

\* The file that a request registers
LEMMA FileUnderRegistration ==
    ASSUME LoaderInv, NEW t \in Thread,
           \/ RegisterUnparsed(t) \/ RegisterParsed(t) \/ ParseError(t)
           \/ RegisterKey(t) \/ DuplicateKey(t) \/ FileRegistered(t)
    PROVE  /\ req[t].i \in 1..Len(FileList) /\ req[t].pc \in Filling
           /\ Registering(t) = FileList[req[t].i]
           /\ Registering(t) \in File /\ Registering(t) \in Elems(FileList)
           /\ load_mode \in [File -> 0..3]
           /\ Script[Registering(t)].flags \in 0..3
           /\ Script[Registering(t)].keys \in Seq(Key)
<1>1. req[t].i <= Len(FileList) /\ req[t].pc \in Filling
  BY DEF RegisterUnparsed, RegisterParsed, ParseError, RegisterKey, DuplicateKey,
         FileRegistered, LoaderInv, IndexOK, Filling
<1>2. req[t].i \in 1..Len(FileList)
  <2>1. req[t].i \in Nat /\ req[t].i >= 1 /\ Len(FileList) \in Nat
    BY TypeOfRequests, LoaderAssumption DEF LoaderInv, IndexOK, Request
  <2> QED BY <1>1, <2>1
<1>3. load_mode \in [File -> 0..3]
  BY DEF LoaderInv, LoaderTypeOK
<1> QED BY <1>1, <1>2, <1>3, RegisteringFile, FileOf DEF Registering

LEMMA RegisterDeclared ==
    ASSUME LoaderInv, RinitInv, DeclaredInv, NEW t \in Thread,
           \/ RegisterUnparsed(t) \/ RegisterParsed(t) \/ ParseError(t)
           \/ DuplicateKey(t)
    PROVE  DeclaredInv'
<1> DEFINE f == Registering(t)
<1>1. /\ req[t].pc \in Filling /\ f = FileList[req[t].i] /\ f \in File
      /\ load_mode \in [File -> 0..3] /\ Script[f].flags \in 0..3
  BY FileUnderRegistration
<1>2. req \in [Thread -> Request] /\ req[t] \in Request /\ req[t].stack = <<>>
  <2>1. req[t].pc # "loop" /\ req[t].pc \in {"register", "keys"}
    BY DEF RegisterUnparsed, RegisterParsed, ParseError, DuplicateKey
  <2> QED BY <2>1, TypeOfRequests DEF LoaderInv, RinitInv, RinitOK
<1>3. symbols' = symbols
  BY DEF RegisterUnparsed, RegisterParsed, ParseError, DuplicateKey
<1>4. \E q : req' = [req EXCEPT ![t] = q]
  BY DEF RegisterUnparsed, RegisterParsed, ParseError, DuplicateKey, ErrorInFile, Goto
<1>5. \/ load_mode' = load_mode
      \/ load_mode' = [load_mode EXCEPT ![f] = IF Forced(f) THEN Script[f].flags ELSE NONE]
      \/ Parsed(f) /\ load_mode' = [load_mode EXCEPT ![f] = Script[f].flags]
  BY DEF RegisterUnparsed, RegisterParsed, ParseError, DuplicateKey
<1>6. \A g \in File : load_mode'[g] = RINIT => RinitFile(g)
  <2> SUFFICES ASSUME NEW g \in File, load_mode'[g] = RINIT PROVE RinitFile(g)
    OBVIOUS
  <2>1. CASE load_mode'[g] = load_mode[g]
    BY <2>1 DEF DeclaredInv
  <2>2. CASE load_mode'[g] # load_mode[g]
    <3>1. g = f /\ Script[f].flags = RINIT
      BY <1>1, <1>5, <2>2 DEF Parsed, Forced, RINIT, NONE
    <3> QED BY <3>1 DEF RinitFile, ModeOf, RINIT
  <2> QED BY <2>1, <2>2
<1>7. KeysOK(req'[t], load_mode')
  <2>1. CASE RegisterParsed(t)
    <3>1. /\ req'[t].pc = "keys" /\ req'[t].i = req[t].i /\ req'[t].keys = Script[f].keys
      BY <1>2, <2>1 DEF RegisterParsed, Request
    <3>2. Parsed(f) /\ load_mode'[f] = Script[f].flags
      BY <1>1, <2>1 DEF RegisterParsed
    <3> HIDE DEF f
    <3>3. f = FileList[req'[t].i]
      BY <1>1, <3>1
    <3> QED BY <3>1, <3>2, <3>3 DEF KeysOK, KeysOf
  <2>2. CASE RegisterUnparsed(t)
    <3>1. req'[t].pc = "register"
      BY <2>2, GotoParts DEF RegisterUnparsed
    <3> QED BY <3>1 DEF KeysOK
  <2>3. CASE ParseError(t) \/ DuplicateKey(t)
    <3>1. ErrorInFile(t)
      BY <2>3 DEF ParseError, DuplicateKey
    <3>2. req[t].pc \in Parsing
      BY <2>3 DEF ParseError, DuplicateKey, Parsing
    <3>3. req'[t].pc # "keys"
      BY <1>2, <3>1, <3>2, ErrorIdle
    <3> QED BY <3>3 DEF KeysOK
  <2> QED BY <2>1, <2>2, <2>3
<1>8. \A k \in DOMAIN symbols' : symbols'[k] \in Declaring(k)
  BY <1>3 DEF DeclaredInv
<1> QED BY <1>1, <1>4, <1>6, <1>7, <1>8, DeclaredStep

LEMMA RegisterKeyDeclared ==
    ASSUME LoaderInv, DeclaredInv, NEW t \in Thread, RegisterKey(t)
    PROVE  DeclaredInv'
<1> DEFINE f == Registering(t)
           keys == req[t].keys
           q == [req[t] EXCEPT !.keys = Tail(@)]
<1>1. /\ f = FileList[req[t].i] /\ f \in Elems(FileList)
  BY FileUnderRegistration
<1>2. /\ req \in [Thread -> Request] /\ req[t] \in Request /\ keys \in Seq(Key)
      /\ keys # <<>> /\ req[t].pc = "keys"
  BY TypeOfRequests DEF LoaderInv, Request, RegisterKey
<1>3. /\ symbols' = Put(symbols, Head(keys), f) /\ load_mode' = load_mode
      /\ req' = [req EXCEPT ![t] = q]
  BY DEF RegisterKey
<1>4. /\ req'[t].pc = "keys" /\ req'[t].i = req[t].i /\ req'[t].keys = Tail(keys)
  BY <1>2, <1>3 DEF Request
<1>5. /\ Parsed(f) /\ load_mode[f] = Script[f].flags
      /\ Elems(keys) \subseteq Elems(Script[f].keys)
  BY <1>1, <1>2 DEF DeclaredInv, KeysOK, KeysOf
<1>6. Elems(Tail(keys)) \subseteq Elems(keys) /\ Head(keys) \in Elems(keys)
  BY <1>2, ElemsTail
<1>7. KeysOK(req'[t], load_mode')
  <2> HIDE DEF keys, f
  <2>1. f = FileList[req'[t].i] /\ Elems(req'[t].keys) \subseteq Elems(Script[f].keys)
    BY <1>1, <1>4, <1>5, <1>6
  <2> QED BY <1>3, <1>4, <1>5, <2>1 DEF KeysOK, KeysOf
<1>8. f \in Declaring(Head(keys))
  BY <1>1, <1>5, <1>6 DEF Declaring
<1>9. \A k \in DOMAIN symbols' : symbols'[k] \in Declaring(k)
  <2> HIDE DEF keys, f
  <2> QED BY <1>3, <1>8 DEF Put, DeclaredInv
<1>10. \A g \in File : load_mode'[g] = RINIT => RinitFile(g)
  BY <1>3 DEF DeclaredInv
<1> QED BY <1>3, <1>7, <1>9, <1>10, DeclaredStep

LEMMA FileRegisteredDeclared ==
    ASSUME LoaderInv, DeclaredInv, NEW t \in Thread, FileRegistered(t)
    PROVE  DeclaredInv'
<1> DEFINE f == Registering(t)
<1>1. /\ req[t].pc \in Filling /\ f = FileList[req[t].i] /\ f \in File
      /\ load_mode \in [File -> 0..3] /\ Script[f].flags \in 0..3
      /\ Script[f].keys \in Seq(Key)
  BY FileUnderRegistration
<1>2. /\ req[t].pc = "keys" /\ UNCHANGED symbols /\ Goto(t, "register", req[t].i + 1)
      /\ load_mode' = [load_mode EXCEPT ![f] =
                         IF load_mode[f] = 0 THEN ChosenMode(f) ELSE load_mode[f]]
  BY DEF FileRegistered
<1>3. Parsed(f) /\ load_mode[f] = Script[f].flags
  BY <1>1, <1>2 DEF DeclaredInv, KeysOK
<1>4. (\E k \in Elems(Script[f].keys) : k \in OtherKey) <=>
        ~(Elems(Script[f].keys) \subseteq ClassKey)
  <2>1. Elems(Script[f].keys) \subseteq Key
    BY <1>1 DEF Elems
  <2> QED BY <2>1, LoaderAssumption DEF Key
<1>5. Script[f].flags = 0 /\ ChosenMode(f) = RINIT => RinitFile(f)
  <2>1. Script[f].php \in BOOLEAN
    BY <1>1, LoaderAssumption
  <2>2. Script[f].flags = 0 => Script[f].php
    BY <1>3, <2>1 DEF Parsed, NotScript
  <2> QED BY <1>4, <2>1, <2>2 DEF ModeOf, ChosenMode, RinitFile, RINIT, NONE, AUTOLOAD
<1>6. \A g \in File : load_mode'[g] = RINIT => RinitFile(g)
  <2> SUFFICES ASSUME NEW g \in File, load_mode'[g] = RINIT PROVE RinitFile(g)
    OBVIOUS
  <2>1. CASE load_mode'[g] = load_mode[g]
    BY <2>1 DEF DeclaredInv
  <2>2. CASE load_mode'[g] # load_mode[g]
    <3>1. g = f /\ load_mode[f] = 0 /\ ChosenMode(f) = RINIT
      <4> HIDE DEF f
      <4> QED BY <1>1, <1>2, <2>2
    <3> QED BY <1>3, <1>5, <3>1
  <2> QED BY <2>1, <2>2
<1>7. KeysOK(req'[t], load_mode')
  BY <1>2, GotoParts DEF KeysOK
<1>8. \A k \in DOMAIN symbols' : symbols'[k] \in Declaring(k)
  BY <1>2 DEF DeclaredInv
<1>9. \E q : req' = [req EXCEPT ![t] = q]
  BY <1>2 DEF Goto
<1> QED BY <1>1, <1>6, <1>7, <1>8, <1>9, DeclaredStep

LEMMA DeclaredNext == LoaderInv /\ RinitInv /\ DeclaredInv /\ [Next]_vars => DeclaredInv'
<1> SUFFICES ASSUME LoaderInv, RinitInv, DeclaredInv, [Next]_vars PROVE DeclaredInv'
  OBVIOUS
<1>1. CASE UNCHANGED vars
  BY <1>1 DEF vars, DeclaredInv, KeysOK, Declaring, RinitFile, ModeOf
<1>2. ASSUME NEW t \in Thread, RinitStep(t) PROVE DeclaredInv'
  BY <1>2, OtherDeclared, RegisterDeclared, RegisterKeyDeclared, FileRegisteredDeclared,
     LoadStepDeclared DEF RinitStep
<1>3. ASSUME NEW t \in Thread,
             \/ BeginRequest(t) \/ LockSymbols(t) \/ EndRequest(t) \/ LoadStep(t)
             \/ \E k \in Wanted, autoload \in BOOLEAN : LoadSymbol(t, k, autoload)
             \/ \E f \in Loadable : PCS_loadScript(t, f)
      PROVE  DeclaredInv'
  BY <1>3, OtherDeclared, LoadStepDeclared
<1> QED BY <1>1, <1>2, <1>3 DEF Next

-----------------------------------------------------------------------------
\* No file is loaded twice

\* A request that has no file under way, and comes to no others than before
LEMMA OnceIdle ==
    ASSUME NEW r, NEW q, OnceOK(r), q.stack = <<>>, q.defined = r.defined,
           q.pc = "lock" => r.pc = "lock", \A f \in File : ToCome(q, f) => ToCome(r, f)
    PROVE  OnceOK(q)
<1>1. UnderWay(q, q.stack)
  BY DEF UnderWay
<1> QED BY <1>1, OnceKept

\* A request that has loaded nothing
LEMMA OnceEmpty ==
    ASSUME NEW q, q.stack = <<>>, q.defined = {}
    PROVE  OnceOK(q)
BY DEF OnceOK, Whole, UnderWay

LEMMA OnceIdleStep ==
    ASSUME LoaderInv, NEW t \in Thread, RinitOK(req[t], load_mode), OnceOK(req[t]),
           \/ RegisterUnparsed(t) \/ RegisterParsed(t) \/ ParseError(t)
           \/ RegisterKey(t) \/ DuplicateKey(t) \/ FileRegistered(t) \/ InitDone(t)
           \/ LockSymbols(t) \/ UnlockSymbols(t) \/ BeginRequest(t) \/ EndRequest(t)
    PROVE  OnceOK(req'[t])
<1> DEFINE r == req[t]
           q == req'[t]
<1>1. req \in [Thread -> Request] /\ r \in Request
  BY TypeOfRequests DEF LoaderInv
<1>2. CASE BeginRequest(t) \/ EndRequest(t)
  <2>1. q.stack = <<>> /\ q.defined = {}
    BY <1>1, <1>2 DEF BeginRequest, EndRequest, NoRequest
  <2> QED BY <2>1, OnceEmpty
<1>3. CASE LockSymbols(t)
  <2>1. r.pc = "lock" /\ \E pc \in {"unlock", "parser"} : Goto(t, pc, 1)
    BY <1>3 DEF LockSymbols
  <2>2. q.stack = r.stack /\ q.defined = r.defined
    BY <2>1, GotoParts
  <2>3. r.stack = <<>> /\ r.defined = {}
    BY <2>1 DEF RinitOK, OnceOK
  <2> QED BY <2>2, <2>3, OnceEmpty
<1>4. CASE UnlockSymbols(t)
  <2>1. r.pc = "unlock" /\ \E pc \in {"loop", "exit"} : Goto(t, pc, 1)
    BY <1>4 DEF UnlockSymbols
  <2>2. q.stack = r.stack /\ q.defined = r.defined /\ q.pc \in {"loop", "exit"}
    BY <2>1, GotoParts
  <2>3. r.stack = <<>>
    BY <2>1 DEF RinitOK
  <2> HIDE DEF q, r
  <2>4. \A f \in File : ToCome(q, f) => ToCome(r, f)
    BY <2>1, <2>2 DEF ToCome
  <2>5. OnceOK(r)
    BY DEF r
  <2> QED BY <2>2, <2>3, <2>4, <2>5, OnceIdle DEF q
<1>5. CASE \/ RegisterUnparsed(t) \/ RegisterParsed(t) \/ ParseError(t)
           \/ RegisterKey(t) \/ DuplicateKey(t) \/ FileRegistered(t) \/ InitDone(t)
  <2>1. r.pc \in {"register", "keys"}
    BY <1>5 DEF RegisterUnparsed, RegisterParsed, ParseError, RegisterKey, DuplicateKey,
               FileRegistered, InitDone
  <2>2. r.stack = <<>>
    BY <2>1 DEF RinitOK
  <2>3. /\ q.stack = <<>> /\ q.defined = r.defined
        /\ q.pc \in {"register", "keys", "unlock", "failed"}
    <3>1. CASE ErrorInFile(t)
      BY <2>1, <2>2, <3>1, ErrorIdle DEF Parsing
    <3>2. CASE RegisterUnparsed(t) \/ FileRegistered(t) \/ InitDone(t)
      <4>1. \E pc \in {"register", "unlock"} : \E i : Goto(t, pc, i)
        BY <3>2 DEF RegisterUnparsed, FileRegistered, InitDone
      <4> QED BY <2>2, <4>1, GotoParts
    <3>3. CASE RegisterParsed(t) \/ RegisterKey(t)
      BY <1>1, <2>1, <2>2, <3>3 DEF RegisterParsed, RegisterKey, Request
    <3> QED BY <1>5, <3>1, <3>2, <3>3 DEF ParseError, DuplicateKey
  <2> HIDE DEF q, r
  <2>4. \A f \in File : ToCome(q, f) => ToCome(r, f)
    BY <2>1, <2>3 DEF ToCome
  <2>5. OnceOK(r)
    BY DEF r
  <2> QED BY <2>3, <2>4, <2>5, OnceIdle DEF q
<1> QED BY <1>2, <1>3, <1>4, <1>5

\* A file of a sequence that a request loads is pushed.
LEMMA OncePush ==
    ASSUME NEW t \in Thread, LoaderInv, OnceOK(req[t]), NEW f \in File,
           req' = [req EXCEPT ![t] = Pushed(req[t], f)],
           req[t].pc \in {"parser", "loop", "run"},
           req[t].pc # "run" => Declares(f) \cap req[t].defined = {},
           req[t].pc \in {"parser", "loop"} => f \in Reached(Turn(Step(req[t]))),
           req[t].pc = "loop" => RinitFile(FileList[req[t].i]) /\ req[t].i <= Len(FileList),
           req[t].pc = "parser" => ~RinitFile(f) /\
             \A m \in 1..Len(Parser) : m > req[t].i => f # Parser[m],
           req[t].pc = "loop" => \A j \in 1..Len(FileList) : j > req[t].i => f # FileList[j]
    PROVE  OnceOK(req'[t])
<1> DEFINE r == req[t]
           q == Pushed(r, f)
<1>1. req \in [Thread -> Request] /\ r \in Request /\ r.stack \in Seq(FrameType)
  BY TypeOfRequests DEF LoaderInv, Request
<1>2. /\ q.stack = <<Frame(f)>> \o r.stack /\ q.pc = r.pc /\ q.i = r.i
      /\ q.defined = r.defined
  BY <1>1 DEF Pushed, Request
<1>3. req'[t] = q
  BY <1>1
<1> HIDE DEF q
<1>4. q.stack # <<>>
  BY <1>1, <1>2
<1>5. ~ToCome(q, f)
  BY <1>2, <1>4 DEF ToCome, Ahead
<1>6. OnceOK(q)
  <2> DEFINE x == r
  <2>1. /\ x \in Request /\ OnceOK(x) /\ x.pc # "lock"
        /\ q.stack = <<Frame(f)>> \o x.stack /\ q.pc = x.pc /\ q.i = x.i
        /\ q.defined = x.defined /\ (x.pc # "run" => Declares(f) \cap x.defined = {})
        /\ x.pc \in {"parser", "loop"} => f \in Reached(Turn(Step(x)))
        /\ x.pc = "loop" => RinitFile(FileList[x.i]) /\ x.i <= Len(FileList)
    BY <1>1, <1>2
  <2> HIDE DEF x
  <2> QED BY <1>5, <2>1, OncePushed
<1> QED BY <1>3, <1>6

LEMMA OnceLoop ==
    ASSUME OneDeclaration, Distinct, LoaderInv, DeclaredInv, NEW t \in Thread,
           OnceOK(req[t]), LoadParser(t) \/ LoadRinit(t)
    PROVE  OnceOK(req'[t])
<1> DEFINE r == req[t]
<1>1. /\ req \in [Thread -> Request] /\ r \in Request /\ IndexOK(r)
      /\ r.i \in Nat /\ r.i >= 1
  BY TypeOfRequests DEF LoaderInv, Request, IndexOK
<1>2. r.stack = <<>> /\ Len(Parser) \in Nat /\ Len(FileList) \in Nat
  BY LoaderAssumption DEF LoadParser, LoadRinit, Stack
<1>3. ASSUME NEW pc, NEW i, Goto(t, pc, i), pc # "lock",
             \A q : q.pc = pc /\ q.i = i /\ q.stack = <<>> =>
                      \A f \in File : ToCome(q, f) => ToCome(r, f)
      PROVE  OnceOK(req'[t])
  <2> DEFINE q == req'[t]
  <2>1. q.pc = pc /\ q.i = i /\ q.stack = <<>> /\ q.defined = r.defined
    BY <1>2, <1>3, GotoParts
  <2>2. \A f \in File : ToCome(q, f) => ToCome(r, f)
    BY <1>3, <2>1
  <2>3. OnceOK(r)
    OBVIOUS
  <2> HIDE DEF q, r
  <2> QED BY <1>3, <2>1, <2>2, <2>3, OnceIdle DEF q
<1>4. CASE LoadParser(t)
  <2>1. r.pc = "parser"
    BY <1>4 DEF LoadParser
  <2>2. CASE r.i <= Len(Parser)
    <3> DEFINE f == Parser[r.i]
    <3>1. r.i \in 1..Len(Parser) /\ Step(r) = 0
      BY <1>1, <1>2, <2>1, <2>2 DEF Step
    <3>2. f \in File /\ f \in Reached(Turn(0)) /\ ~RinitFile(f)
      BY <3>1, TurnFiles, ParserIsNotParsed
    <3>3. \A m \in 1..Len(Parser) : m > r.i => f # Parser[m]
      BY <3>1 DEF OneDeclaration
    <3>4. ToCome(r, f)
      BY <1>2, <2>1, <3>1 DEF ToCome, Ahead
    <3>5. Declares(f) \cap r.defined = {}
      BY <3>2, <3>4 DEF OnceOK
    <3>6. req' = [req EXCEPT ![t] = Pushed(r, f)]
      BY <1>4, <2>2 DEF LoadParser
    <3> QED BY <2>1, <3>1, <3>2, <3>3, <3>5, <3>6, OncePush
  <2>3. CASE ~(r.i <= Len(Parser))
    <3>1. Goto(t, "register", 1)
      BY <1>4, <2>3 DEF LoadParser
    <3>2. ASSUME NEW q, q.pc = "register", NEW f \in File, ToCome(q, f)
          PROVE  ToCome(r, f)
      BY <2>1, <3>2 DEF ToCome
    <3> QED BY <1>3, <3>1, <3>2
  <2> QED BY <2>2, <2>3
<1>5. CASE LoadRinit(t)
  <2>1. r.pc = "loop"
    BY <1>5 DEF LoadRinit
  <2>2. CASE r.i <= Len(FileList) /\ load_mode[FileList[r.i]] = RINIT
    <3> DEFINE f == FileList[r.i]
    <3>1. r.i \in 1..Len(FileList) /\ Step(r) = r.i
      BY <1>1, <1>2, <2>1, <2>2 DEF Step
    <3>2. f \in File /\ f \in Reached(Turn(Step(r)))
      BY <3>1, TurnFiles
    <3>3. RinitFile(f)
      BY <2>2, <3>2 DEF DeclaredInv
    <3>4. \A j \in 1..Len(FileList) : j > r.i => f # FileList[j]
      BY <3>1 DEF Distinct
    <3>5. ToCome(r, f)
      BY <1>2, <2>1, <3>1, <3>3 DEF ToCome, Ahead
    <3>6. Declares(f) \cap r.defined = {}
      BY <3>2, <3>5 DEF OnceOK
    <3>7. req' = [req EXCEPT ![t] = Pushed(r, f)]
      BY <1>5, <2>2 DEF LoadRinit
    <3> QED BY <2>1, <2>2, <3>2, <3>3, <3>4, <3>6, <3>7, OncePush
  <2>3. CASE r.i <= Len(FileList) /\ load_mode[FileList[r.i]] # RINIT
    <3>1. Goto(t, "loop", r.i + 1)
      BY <1>5, <2>3 DEF LoadRinit
    <3>2. ASSUME NEW q, q.pc = "loop", q.i = r.i + 1, q.stack = <<>>,
                 NEW f \in File, ToCome(q, f)
          PROVE  ToCome(r, f)
      <4>1. \A m \in Nat : Ahead(q, m) => Ahead(r, m)
        BY <1>1, <3>2 DEF Ahead
      <4> QED BY <2>1, <3>2, <4>1 DEF ToCome
    <3> QED BY <1>3, <3>1, <3>2
  <2>4. CASE ~(r.i <= Len(FileList))
    <3>1. Goto(t, "run", 1)
      BY <1>5, <2>4 DEF LoadRinit
    <3>2. ASSUME NEW q, q.pc = "run", NEW f \in File, ToCome(q, f)
          PROVE  ToCome(r, f)
      BY <3>2 DEF ToCome
    <3> QED BY <1>3, <3>1, <3>2
  <2> QED BY <2>2, <2>3, <2>4
<1> QED BY <1>4, <1>5

LEMMA OnceScript ==
    ASSUME LoaderInv, NEW t \in Thread, OnceOK(req[t]),
           \/ \E k \in Wanted, autoload \in BOOLEAN : LoadSymbol(t, k, autoload)
           \/ \E f \in Loadable : PCS_loadScript(t, f)
    PROVE  OnceOK(req'[t])
<1>1. req[t].pc = "run"
  BY DEF LoadSymbol, PCS_loadScript, Running
<1>2. PICK f \in File : req' = [req EXCEPT ![t] = Pushed(req[t], f)]
  BY LoaderAssumption DEF LoadSymbol, PCS_loadScript, MustLoad, LoaderInv, LoaderTypeOK
<1> QED BY <1>1, <1>2, OncePush

LEMMA OnceNext ==
    ASSUME OneDeclaration, InOrder, Distinct
    PROVE  LoaderInv /\ RinitInv /\ DeclaredInv /\ OnceInv /\ [Next]_vars =>
             OnceInv' /\ \A t \in Thread : req[t].pc # "run" => ~FatalError(t)
<1> SUFFICES ASSUME LoaderInv, RinitInv, DeclaredInv, OnceInv, [Next]_vars
             PROVE  OnceInv' /\ \A t \in Thread : req[t].pc # "run" => ~FatalError(t)
  OBVIOUS
<1>0. \A t \in Thread : req[t].pc # "run" => ~FatalError(t)
  <2> SUFFICES ASSUME NEW t \in Thread, req[t].pc # "run", FatalError(t) PROVE FALSE
    OBVIOUS
  <2>1. LoadStep(t) /\ RinitOK(req[t], load_mode) /\ OnceOK(req[t])
    BY DEF LoadStep, RinitInv, OnceInv
  <2> QED BY <2>1, OnceLoadStep
<1>1. CASE UNCHANGED vars
  <2>1. req' = req
    BY <1>1 DEF vars
  <2> QED BY <1>0, <2>1 DEF OnceInv
<1>2. ASSUME NEW t \in Thread,
             \/ BeginRequest(t) \/ LockSymbols(t) \/ RinitStep(t) \/ LoadStep(t)
             \/ \E k \in Wanted, autoload \in BOOLEAN : LoadSymbol(t, k, autoload)
             \/ \E f \in Loadable : PCS_loadScript(t, f)
             \/ EndRequest(t)
      PROVE  OnceInv'
  <2>1. req \in [Thread -> Request] /\ RinitOK(req[t], load_mode) /\ OnceOK(req[t])
    BY TypeOfRequests DEF LoaderInv, RinitInv, OnceInv
  <2>2. \E q : req' = [req EXCEPT ![t] = q]
    BY <1>2, LoadStepOutcome
       DEF BeginRequest, LockSymbols, EndRequest, RinitStep, LoadParser, RegisterUnparsed,
           RegisterParsed, ParseError, ErrorInFile, RegisterKey, DuplicateKey,
           FileRegistered, InitDone, UnlockSymbols, LoadRinit, LoadSymbol,
           PCS_loadScript, Goto
  <2>3. \A u \in Thread \ {t} : req'[u] = req[u]
    BY <2>1, <2>2
  <2>4. OnceOK(req'[t])
    BY <1>2, <2>1, OnceIdleStep, OnceLoop, OnceScript, OnceLoadStep DEF RinitStep
  <2> SUFFICES ASSUME NEW u \in Thread PROVE OnceOK(req'[u])
    BY <1>0 DEF OnceInv
  <2>5. CASE u # t
    BY <2>3, <2>5 DEF OnceInv
  <2> QED BY <2>4, <2>5
<1> QED BY <1>0, <1>1, <1>2 DEF Next

LEMMA OnceInit == Init => OnceInv
<1> SUFFICES ASSUME Init, NEW t \in Thread PROVE OnceOK(req[t])
  BY DEF OnceInv
<1>1. req[t].stack = <<>> /\ req[t].defined = {}
  BY DEF Init, NoRequest
<1> QED BY <1>1, OnceEmpty

LEMMA OnceInvariant ==
    ASSUME OneDeclaration, InOrder, Distinct
    PROVE  Spec => [](LoaderInv /\ RinitInv /\ DeclaredInv /\ OnceInv)
<1>1. LoaderInv /\ RinitInv /\ DeclaredInv /\ OnceInv /\ [Next]_vars => OnceInv'
  BY OnceNext
<1> QED BY <1>1, LoaderInvariant, RinitInvInit, RinitInvNext, DeclaredInit, DeclaredNext,
           OnceInit, PTL DEF Spec

\* What makes a stack of files grow
LEMMA StackGrows ==
    ASSUME LoaderInv, NEW t \in Thread, Len(req'[t].stack) > Len(req[t].stack),
           \/ BeginRequest(t) \/ LockSymbols(t) \/ RinitStep(t) \/ LoadStep(t)
           \/ \E k \in Wanted, autoload \in BOOLEAN : LoadSymbol(t, k, autoload)
           \/ \E f \in Loadable : PCS_loadScript(t, f)
           \/ EndRequest(t)
    PROVE  \/ UseAutoload(t) \/ LoadParser(t) \/ LoadRinit(t)
           \/ \E k \in Wanted, autoload \in BOOLEAN : LoadSymbol(t, k, autoload)
           \/ \E f \in Loadable : PCS_loadScript(t, f)
<1> DEFINE r == req[t]
           q == req'[t]
           top == r.stack[1]
<1>1. /\ req \in [Thread -> Request] /\ r \in Request /\ IndexOK(r)
      /\ r.stack \in Seq(FrameType) /\ Len(r.stack) \in Nat
  BY TypeOfRequests DEF LoaderInv, Request
<1>2. ASSUME q.stack = r.stack \/ q.stack = <<>>
      PROVE  FALSE
  <2>1. Len(q.stack) = Len(r.stack) \/ Len(q.stack) = 0
    BY <1>2
  <2> QED BY <1>1, <2>1
<1>3. ASSUME NEW pc, NEW i, Goto(t, pc, i)
      PROVE  FALSE
  BY <1>2, <1>3, GotoParts
<1>4. CASE BeginRequest(t) \/ EndRequest(t)
  <2>1. q.stack = <<>>
    BY <1>1, <1>4 DEF BeginRequest, EndRequest, NoRequest
  <2> QED BY <1>2, <2>1
<1>5. CASE \/ LockSymbols(t) \/ UnlockSymbols(t) \/ RegisterUnparsed(t)
           \/ FileRegistered(t) \/ InitDone(t)
  <2>1. \E pc, i : Goto(t, pc, i)
    BY <1>5 DEF LockSymbols, UnlockSymbols, RegisterUnparsed, FileRegistered, InitDone
  <2> QED BY <1>3, <2>1
<1>6. CASE RegisterParsed(t) \/ RegisterKey(t)
  <2>1. q.stack = r.stack
    BY <1>1, <1>6 DEF RegisterParsed, RegisterKey, Request
  <2> QED BY <1>2, <2>1
\* A load that goes on, returns or bails out
<1>7. ASSUME NEW x \in Request, x.stack = r.stack, NEW stack \in Seq(FrameType),
             NEW status \in {"SUCCESS", "FAILURE"}, Len(stack) <= Len(r.stack),
             q = Returned(x, stack, status)
      PROVE  FALSE
  <2>1. q.stack = stack
    BY <1>7, ReturnedParts
  <2> QED BY <1>1, <1>7, <2>1
<1>8. ASSUME r.stack # <<>>
      PROVE  Tail(r.stack) \in Seq(FrameType) /\ Len(Tail(r.stack)) <= Len(r.stack)
  BY <1>1, <1>8
<1>9. ASSUME q = BailedOut(r)
      PROVE  FALSE
  <2> DEFINE s == IF r.stack # <<>> /\ r.stack[1].pc = "compile"
                  THEN Tail(r.stack) ELSE r.stack
  <2>1. s \in Seq(FrameType) /\ Len(s) <= Len(r.stack)
    BY <1>1, <1>8
  <2>2. CASE s = <<>>
    <3> DEFINE pc == IF r.pc = "run" THEN "aborted" ELSE "failed"
    <3>1. q = [r EXCEPT !.pc = pc, !.stack = <<>>, !.keys = <<>>]
      BY <1>9, <2>2 DEF BailedOut
    <3> HIDE DEF pc
    <3>2. q.stack = <<>>
      BY <1>1, <3>1 DEF Request
    <3> QED BY <1>2, <3>2
  <2>3. CASE s # <<>>
    <3>1. q = Returned(r, Tail(s), "FAILURE")
      BY <1>9, <2>3 DEF BailedOut
    <3> HIDE DEF s
    <3>2. Tail(s) \in Seq(FrameType) /\ Len(Tail(s)) <= Len(r.stack)
      BY <1>1, <2>1, <2>3
    <3> QED BY <1>1, <1>7, <3>1, <3>2
  <2> QED BY <2>2, <2>3
<1>10. CASE ParseError(t) \/ DuplicateKey(t) \/ FatalError(t) \/ BailOut(t)
  <2>1. q = BailedOut(r)
    BY <1>1, <1>10 DEF ParseError, DuplicateKey, ErrorInFile, FatalError, BailOut
  <2> QED BY <1>9, <2>1
<1>11. ASSUME NEW pc \in {"compile", "exec", "wait"}, NEW rest \in Seq(ClassKey),
              r.stack # <<>>, q.stack = OnTop(r, pc, rest).stack
       PROVE  FALSE
  <2> DEFINE u == Tail(r.stack)
  <2> HIDE DEF r, q
  <2>0. \E e \in FrameType : OnTop(r, pc, rest).stack = <<e>> \o Tail(r.stack)
    <3>1. r \in Request /\ r.stack # <<>>
      BY <1>1, <1>11
    <3> HIDE DEF u
    <3> QED BY <1>11, <3>1, OnTopParts
  <2>1. PICK e \in FrameType : q.stack = <<e>> \o u
    BY <1>11, <2>0
  <2>2. u \in Seq(FrameType) /\ Len(u) = Len(r.stack) - 1
    BY <1>1, <1>11
  <2> HIDE DEF u
  <2>3. Len(q.stack) = Len(u) + 1
    BY <2>1, <2>2
  <2> QED BY <1>1, <2>2, <2>3 DEF r, q
<1>12. CASE Compile(t) \/ UseDefined(t) \/ UseUnknown(t) \/ ExecDone(t)
  <2>1. r.stack # <<>>
    <3>1. \E pc \in {"compile", "exec", "wait"} : At(t, pc)
      BY <1>12 DEF Compile, UseDefined, UseUnknown, ExecDone
    <3> QED BY <3>1 DEF At, Stack
  <2>2. top.file \in File /\ top.rest \in Seq(ClassKey) /\ top = Top(t)
    <3>1. top \in FrameType
      BY <1>1, <2>1
    <3> QED BY <3>1 DEF FrameType, Top, Stack
  <2>3. CASE Compile(t)
    <3> DEFINE x == OnTop(r, "exec", Script[top.file].uses)
    <3>1. Script[top.file].uses \in Seq(ClassKey)
      BY <2>2, LoaderAssumption
    <3>2. x \in Request
      BY <1>1, <2>1, <3>1, OnTopOutcome
    <3>3. req' = [req EXCEPT ![t] = [x EXCEPT !.defined = x.defined \cup Script[top.file].declares,
                                             !.noext = TRUE]]
      BY <2>2, <2>3 DEF Compile
    <3> HIDE DEF x
    <3>4. q.stack = x.stack
      BY <1>1, <3>2, <3>3 DEF Request
    <3> QED BY <1>11, <2>1, <3>1, <3>4 DEF x
  <2>4. CASE UseDefined(t)
    <3>1. top.rest # <<>> /\ q = OnTop(r, "exec", Tail(top.rest))
      BY <1>1, <2>2, <2>4 DEF UseDefined, Continue
    <3>2. Tail(top.rest) \in Seq(ClassKey)
      BY <2>2, <3>1
    <3> QED BY <1>11, <2>1, <3>1, <3>2
  <2>5. CASE UseUnknown(t) \/ ExecDone(t)
    <3> DEFINE x == [r EXCEPT !.noext = FALSE]
    <3>1. x \in Request /\ x.stack = r.stack
      BY <1>1 DEF Request
    <3>2. <<>> \in Seq(FrameType) /\ Len(<<>>) <= Len(r.stack)
      BY <1>1
    <3>3. \E stack \in {<<>>, Tail(r.stack)} : q = Returned(x, stack, "SUCCESS")
      BY <1>1, <2>5 DEF UseUnknown, ExecDone, Thrown, Stack
    <3> HIDE DEF x
    <3> QED BY <1>7, <1>8, <2>1, <3>1, <3>2, <3>3
  <2> QED BY <1>12, <2>3, <2>4, <2>5
<1> QED BY <1>4, <1>5, <1>6, <1>10, <1>12 DEF RinitStep, LoadStep

\* The file that is pushed is a fresh one, unless a script asks for it.
LEMMA PushedIsFresh ==
    ASSUME OneDeclaration, LoaderInv, DeclaredInv, NEW t \in Thread, OnceOK(req[t]),
           OnceOK(req'[t]),
           \/ UseAutoload(t) \/ LoadParser(t) \/ LoadRinit(t)
           \/ \E k \in Wanted, autoload \in BOOLEAN : LoadSymbol(t, k, autoload)
           \/ \E f \in Loadable : PCS_loadScript(t, f),
           Len(req'[t].stack) > Len(req[t].stack)
    PROVE  \/ Declares(req'[t].stack[1].file) \cap req[t].defined = {}
           \/ \E k \in Wanted \cap req[t].defined : LoadSymbol(t, k, TRUE)
<1> DEFINE r == req[t]
           q == req'[t]
<1>1. /\ req \in [Thread -> Request] /\ r \in Request /\ r.stack \in Seq(FrameType)
      /\ Len(r.stack) \in Nat /\ Whole(r.defined)
  BY TypeOfRequests DEF LoaderInv, Request, OnceOK
<1>2. ASSUME NEW x \in Request, NEW f, req' = [req EXCEPT ![t] = Pushed(x, f)]
      PROVE  /\ q.stack = <<Frame(f)>> \o x.stack /\ q.stack # <<>> /\ q.stack[1] = Frame(f)
             /\ q.stack[1].file = f /\ q.stack[1].pc = "compile"
             /\ q.pc = x.pc /\ q.defined = x.defined
  <2>1. q = Pushed(x, f)
    BY <1>1, <1>2
  <2>2. q.stack = <<Frame(f)>> \o x.stack /\ q.pc = x.pc /\ q.defined = x.defined
    BY <2>1 DEF Pushed, Request
  <2> DEFINE e == Frame(f)
             s == x.stack
  <2>3. s \in Seq(FrameType) /\ e.file = f /\ e.pc = "compile"
    BY DEF Request, Frame
  <2> HIDE DEF e, s
  <2>4. <<e>> \o s # <<>> /\ (<<e>> \o s)[1] = e
    BY <2>3
  <2> QED BY <2>2, <2>3, <2>4 DEF e, s
<1>3. CASE LoadParser(t) \/ LoadRinit(t)
  <2>1. CASE \E f : req' = [req EXCEPT ![t] = Pushed(r, f)]
    <3>1. r.pc # "run"
      BY <1>3 DEF LoadParser, LoadRinit
    <3> QED BY <1>1, <1>2, <2>1, <3>1 DEF OnceOK
  <2>2. CASE \E pc, i : Goto(t, pc, i)
    <3>1. q.stack = r.stack
      BY <2>2, GotoParts
    <3> QED BY <1>1, <3>1
  <2> QED BY <1>3, <2>1, <2>2 DEF LoadParser, LoadRinit
<1>4. CASE UseAutoload(t)
  <2> DEFINE x == OnTop(r, "wait", Top(t).rest)
             k == Class(t)
  <2>1. /\ r.stack # <<>> /\ k \in DOMAIN symbols \ r.defined
        /\ req' = [req EXCEPT ![t] = Pushed(x, symbols[k])]
    BY <1>4 DEF UseAutoload, At, Stack
  <2>2. Top(t).rest \in Seq(ClassKey)
    <3>1. Top(t) \in FrameType
      BY <1>1, <2>1 DEF Top, Stack
    <3> QED BY <3>1 DEF FrameType
  <2>3. x \in Request
    BY <1>1, <2>1, <2>2, OnTopOutcome
  <2> HIDE DEF x, k
  <2>4. Declares(symbols[k]) \cap r.defined = {}
    BY <1>1, <2>1, FreshFile
  <2> QED BY <1>2, <2>1, <2>3, <2>4
<1>5. ASSUME NEW k \in Wanted, NEW autoload \in BOOLEAN, LoadSymbol(t, k, autoload)
      PROVE  \/ Declares(q.stack[1].file) \cap r.defined = {}
             \/ \E c \in Wanted \cap r.defined : LoadSymbol(t, c, TRUE)
  <2>1. /\ k \in DOMAIN symbols /\ (autoload \/ k \notin r.defined)
        /\ req' = [req EXCEPT ![t] = Pushed(r, symbols[k])]
    BY <1>5 DEF LoadSymbol, MustLoad
  <2>2. CASE k \in r.defined
    <3>1. autoload = TRUE
      BY <2>1, <2>2
    <3> QED BY <1>5, <2>2, <3>1
  <2>3. CASE k \notin r.defined
    <3>1. Declares(symbols[k]) \cap r.defined = {}
      BY <1>1, <2>1, <2>3, FreshFile
    <3> QED BY <1>1, <1>2, <2>1, <3>1
  <2> QED BY <2>2, <2>3
<1>6. ASSUME NEW f \in Loadable, PCS_loadScript(t, f)
      PROVE  Declares(q.stack[1].file) \cap r.defined = {}
  <2>1. req' = [req EXCEPT ![t] = Pushed(r, f)] /\ Declares(f) = {}
    BY <1>6 DEF PCS_loadScript, OneDeclaration
  <2> QED BY <1>1, <1>2, <2>1
<1> QED BY <1>3, <1>4, <1>5, <1>6

\* When symbols are declared once and RINIT files are in the order of their uses, no
\* load begins that declares again what the request has already, unless a script
\* forces it by the second argument of PCS\Mgr::get...() or require...(): neither
\* through nested autoloads, exceptions and bailouts, nor after such a forced load.
THEOREM NothingLoadedTwice ==
    ASSUME OneDeclaration, InOrder, Distinct
    PROVE  Spec => LoadedOnce
<1>1. ASSUME LoaderInv, DeclaredInv, OnceInv, OnceInv', [Next]_vars
      PROVE  [\A t \in Thread : Len(req'[t].stack) > Len(Stack(t)) =>
                \/ Script[req'[t].stack[1].file].declares \cap req[t].defined = {}
                \/ \E k \in Wanted \cap req[t].defined : LoadSymbol(t, k, TRUE)]_vars
  <2> SUFFICES ASSUME Next, NEW t \in Thread, Len(req'[t].stack) > Len(req[t].stack)
               PROVE  \/ Declares(req'[t].stack[1].file) \cap req[t].defined = {}
                      \/ \E k \in Wanted \cap req[t].defined : LoadSymbol(t, k, TRUE)
    BY <1>1 DEF Stack, Declares
  <2>1. req \in [Thread -> Request] /\ OnceOK(req[t]) /\ OnceOK(req'[t])
    BY <1>1, TypeOfRequests DEF LoaderInv, OnceInv
  <2>2. PICK u \in Thread :
          \/ BeginRequest(u) \/ LockSymbols(u) \/ RinitStep(u) \/ LoadStep(u)
          \/ \E k \in Wanted, autoload \in BOOLEAN : LoadSymbol(u, k, autoload)
          \/ \E f \in Loadable : PCS_loadScript(u, f)
          \/ EndRequest(u)
    BY DEF Next
  <2>3. \E q : req' = [req EXCEPT ![u] = q]
    BY <1>1, <2>2, LoadStepOutcome
       DEF BeginRequest, LockSymbols, EndRequest, RinitStep, LoadParser, RegisterUnparsed,
           RegisterParsed, ParseError, ErrorInFile, RegisterKey, DuplicateKey,
           FileRegistered, InitDone, UnlockSymbols, LoadRinit, LoadSymbol,
           PCS_loadScript, Goto
  <2>4. t = u
    <3> SUFFICES ASSUME t # u PROVE FALSE
      OBVIOUS
    <3>1. req'[t].stack = req[t].stack /\ Len(req[t].stack) \in Nat
      BY <2>1, <2>3 DEF Request
    <3> QED BY <3>1
  <2>5. \/ UseAutoload(t) \/ LoadParser(t) \/ LoadRinit(t)
        \/ \E k \in Wanted, autoload \in BOOLEAN : LoadSymbol(t, k, autoload)
        \/ \E f \in Loadable : PCS_loadScript(t, f)
    BY <1>1, <2>2, <2>4, StackGrows
  <2> QED BY <1>1, <2>1, <2>5, PushedIsFresh
<1>2. Spec => [](LoaderInv /\ RinitInv /\ DeclaredInv /\ OnceInv)
  BY OnceInvariant
<1> QED BY <1>1, <1>2, PTL DEF Spec, LoadedOnce

-----------------------------------------------------------------------------
\* No RINIT fails

\* No request has met an error but those of PCS_Loader_Init, which keep the table
\* incomplete: without mutexes the next request meets them again, with mutexes the
\* request that failed has never released the one of the table.
NoFailure ==
    \A t \in Thread :
      /\ req[t].status = "SUCCESS" /\ req[t].pc # "exit"
      /\ req[t].pc = "failed" => ~loader_init_done /\ (ZTS => mutex = t)

LEMMA ReturnedSuccess ==
    ASSUME NEW r \in Request, NEW stack \in Seq(FrameType)
    PROVE  /\ Returned(r, stack, "SUCCESS").status = r.status
           /\ Returned(r, stack, "SUCCESS").pc = r.pc
<1> DEFINE back == [r EXCEPT !.stack = stack]
<1>1. back \in Request /\ back.status = r.status /\ back.pc = r.pc
  BY DEF Request
<1>2. Returned(r, stack, "SUCCESS") \in {back, [back EXCEPT !.i = @ + 1]}
  BY DEF Returned
<1> HIDE DEF back
<1> QED BY <1>1, <1>2 DEF Request

\* What a script that is aborted leaves
LEMMA BailedOutScript ==
    ASSUME NEW r \in Request, r.pc = "run"
    PROVE  BailedOut(r).pc \in {"run", "aborted"} /\ BailedOut(r).status = r.status
<1> DEFINE stack == IF r.stack # <<>> /\ r.stack[1].pc = "compile"
                    THEN Tail(r.stack) ELSE r.stack
           ended == [r EXCEPT !.pc = "aborted", !.stack = <<>>, !.keys = <<>>]
           back == [r EXCEPT !.stack = Tail(stack)]
<1>1. BailedOut(r) = IF stack = <<>> THEN ended ELSE Returned(r, Tail(stack), "FAILURE")
  BY DEF BailedOut
<1>2. Returned(r, Tail(stack), "FAILURE") = back
  BY DEF Returned
<1>3. BailedOut(r) \in {ended, back}
  BY <1>1, <1>2
<1> HIDE DEF stack
<1>4. ended.pc = "aborted" /\ ended.status = r.status /\ back.pc = "run"
      /\ back.status = r.status
  BY DEF Request
<1> HIDE DEF ended, back
<1> QED BY <1>3, <1>4

\* A file under way whose code does not bail out
LEMMA LoadStepFailure ==
    ASSUME OneDeclaration, InOrder, Distinct, Bailouts = FALSE,
           LoaderInv, RinitInv, DeclaredInv, OnceInv, NEW t \in Thread, LoadStep(t), Next
    PROVE  /\ req'[t].status = req[t].status
           /\ req'[t].pc = req[t].pc \/ (req[t].pc = "run" /\ req'[t].pc = "aborted")
<1> DEFINE r == req[t]
           q == req'[t]
<1>1. req \in [Thread -> Request] /\ r \in Request
  BY TypeOfRequests DEF LoaderInv
<1>2. r.stack # <<>>
  <2>1. \E pc \in {"compile", "exec", "wait"} : At(t, pc)
    BY DEF LoadStep, Compile, FatalError, BailOut, UseDefined, UseAutoload, UseUnknown,
           ExecDone
  <2> QED BY <2>1 DEF At, Stack
<1>3. r.stack \in Seq(FrameType) /\ Top(t).rest \in Seq(ClassKey) /\ Top(t).file \in File
  <2>1. r.stack \in Seq(FrameType)
    BY <1>1 DEF Request
  <2>2. Top(t) \in FrameType
    BY <1>2, <2>1 DEF Top, Stack
  <2> QED BY <2>1, <2>2 DEF FrameType
<1>4. CASE Compile(t)
  <2> DEFINE x == OnTop(r, "exec", Script[Top(t).file].uses)
  <2>1. Script[Top(t).file].uses \in Seq(ClassKey)
    BY <1>3, LoaderAssumption
  <2>2. x \in Request /\ x.pc = r.pc /\ x.status = r.status
    BY <1>1, <1>2, <2>1, OnTopOutcome
  <2>3. req' = [req EXCEPT ![t] =
            [x EXCEPT !.defined = x.defined \cup Script[Top(t).file].declares,
                      !.noext = TRUE]]
    BY <1>4 DEF Compile
  <2> HIDE DEF x
  <2> QED BY <1>1, <2>2, <2>3 DEF Request
<1>5. CASE FatalError(t)
  <2>1. r.pc = "run"
    BY <1>5, OnceNext
  <2>2. q = BailedOut(r)
    BY <1>1, <1>5 DEF FatalError
  <2> QED BY <1>1, <2>1, <2>2, BailedOutScript
<1>6. CASE UseDefined(t)
  <2>1. /\ req' = [req EXCEPT ![t] = OnTop(r, "exec", Tail(Top(t).rest))]
        /\ Top(t).rest # <<>>
    BY <1>6 DEF UseDefined, Continue
  <2>2. Tail(Top(t).rest) \in Seq(ClassKey)
    BY <1>3, <2>1
  <2> QED BY <1>1, <1>2, <2>1, <2>2, OnTopOutcome
<1>7. CASE UseAutoload(t)
  <2> DEFINE x == OnTop(r, "wait", Top(t).rest)
  <2>1. x \in Request /\ x.pc = r.pc /\ x.status = r.status
    BY <1>1, <1>2, <1>3, OnTopOutcome
  <2>2. req' = [req EXCEPT ![t] = Pushed(x, symbols[Class(t)])]
    BY <1>7 DEF UseAutoload
  <2> HIDE DEF x
  <2> QED BY <1>1, <2>1, <2>2 DEF Pushed, Request
<1>8. CASE UseUnknown(t) \/ ExecDone(t)
  <2> DEFINE x == [r EXCEPT !.noext = FALSE]
  <2>1. x \in Request /\ x.status = r.status /\ x.pc = r.pc
    BY <1>1 DEF Request
  <2>2. <<>> \in Seq(FrameType) /\ Tail(r.stack) \in Seq(FrameType)
    BY <1>2, <1>3
  <2>3. \E stack \in Seq(FrameType) : req' = [req EXCEPT ![t] = Returned(x, stack, "SUCCESS")]
    BY <1>8, <2>2 DEF UseUnknown, ExecDone, Thrown, Stack
  <2> HIDE DEF x
  <2> QED BY <1>1, <2>1, <2>3, ReturnedSuccess
<1> QED BY <1>4, <1>5, <1>6, <1>7, <1>8 DEF LoadStep, BailOut

LEMMA NoFailureNext ==
    ASSUME OneDeclaration, InOrder, Distinct, Bailouts = FALSE
    PROVE  LoaderInv /\ RinitInv /\ DeclaredInv /\ OnceInv /\ NoFailure /\ [Next]_vars =>
             NoFailure'
<1> SUFFICES ASSUME LoaderInv, RinitInv, DeclaredInv, OnceInv, NoFailure, [Next]_vars
             PROVE  NoFailure'
  OBVIOUS
<1>1. CASE UNCHANGED vars
  BY <1>1 DEF vars, NoFailure
<1>2. ASSUME NEW t \in Thread, Next,
             \/ BeginRequest(t) \/ LockSymbols(t) \/ RinitStep(t) \/ LoadStep(t)
             \/ \E k \in Wanted, autoload \in BOOLEAN : LoadSymbol(t, k, autoload)
             \/ \E f \in Loadable : PCS_loadScript(t, f)
             \/ EndRequest(t)
      PROVE  NoFailure'
  <2> DEFINE r == req[t]
             q == req'[t]
             Kept == q.pc = r.pc /\ UNCHANGED <<loader_init_done, mutex>>
             Fine == /\ q.status = "SUCCESS" /\ q.pc # "exit"
                     /\ q.pc = "failed" => ~loader_init_done' /\ (ZTS => mutex' = t)
  <2>1. /\ req \in [Thread -> Request] /\ r \in Request
        /\ r.status = "SUCCESS" /\ r.pc # "exit"
        /\ r.pc = "failed" => ~loader_init_done /\ (ZTS => mutex = t)
    BY TypeOfRequests DEF LoaderInv, NoFailure
  <2>2. \E x : req' = [req EXCEPT ![t] = x]
    BY <1>2, LoadStepOutcome
       DEF BeginRequest, LockSymbols, EndRequest, RinitStep, LoadParser, RegisterUnparsed,
           RegisterParsed, ParseError, ErrorInFile, RegisterKey, DuplicateKey,
           FileRegistered, InitDone, UnlockSymbols, LoadRinit, LoadSymbol,
           PCS_loadScript, Goto
  <2>3. \A u \in Thread \ {t} : req'[u] = req[u]
    BY <2>1, <2>2
  <2>4. Fine
    <3>0. ASSUME q.status = r.status, Kept \/ q.pc \notin {"failed", "exit"}
          PROVE  Fine
      BY <2>1, <3>0
    <3>1. ASSUME NEW pc, NEW i, Goto(t, pc, i), pc \notin {"failed", "exit"}
          PROVE  Fine
      <4>1. q.status = r.status /\ q.pc = pc
        BY <2>1, <3>1 DEF Goto, Request
      <4> QED BY <3>0, <3>1, <4>1
    <3>2. ASSUME NEW f, req' = [req EXCEPT ![t] = Pushed(r, f)],
                 UNCHANGED <<loader_init_done, mutex>>
          PROVE  Fine
      <4>1. q.status = r.status /\ q.pc = r.pc
        BY <2>1, <3>2 DEF Pushed, Request
      <4> QED BY <3>0, <3>2, <4>1
    <3>3. CASE BeginRequest(t) \/ EndRequest(t)
      <4>1. q = NoRequest \/ q = [NoRequest EXCEPT !.pc = "lock"]
        BY <2>1, <3>3 DEF BeginRequest, EndRequest
      <4> QED BY <4>1 DEF NoRequest
    <3>4. CASE LockSymbols(t) \/ UnlockSymbols(t)
      <4>1. \E pc \in {"unlock", "parser", "loop"} : Goto(t, pc, 1)
        BY <2>1, <3>4 DEF LockSymbols, UnlockSymbols
      <4> QED BY <3>1, <4>1
    <3>5. CASE LoadParser(t) \/ LoadRinit(t)
      <4>1. /\ \/ \E f : req' = [req EXCEPT ![t] = Pushed(r, f)]
               \/ \E pc \in {"register", "loop", "run"} : \E i : Goto(t, pc, i)
            /\ UNCHANGED <<loader_init_done, mutex>>
        BY <3>5 DEF LoadParser, LoadRinit
      <4> QED BY <3>1, <3>2, <4>1
    <3>6. CASE \/ \E k \in Wanted, autoload \in BOOLEAN : LoadSymbol(t, k, autoload)
               \/ \E f \in Loadable : PCS_loadScript(t, f)
      BY <3>2, <3>6 DEF LoadSymbol, PCS_loadScript
    <3>7. CASE RegisterUnparsed(t) \/ FileRegistered(t) \/ InitDone(t)
      <4>1. \E pc \in {"register", "unlock"} : \E i : Goto(t, pc, i)
        BY <3>7 DEF RegisterUnparsed, FileRegistered, InitDone
      <4> QED BY <3>1, <4>1
    <3>8. CASE RegisterParsed(t) \/ RegisterKey(t)
      <4>1. q.status = r.status /\ q.pc \in {"keys", r.pc} /\ r.pc \in {"register", "keys"}
        BY <2>1, <3>8 DEF RegisterParsed, RegisterKey, Request
      <4> QED BY <3>0, <4>1
    <3>9. CASE ParseError(t) \/ DuplicateKey(t)
      <4>1. /\ ErrorInFile(t) /\ r.pc \in {"register", "keys"}
            /\ UNCHANGED <<loader_init_done, mutex>>
        BY <3>9 DEF ParseError, DuplicateKey
      <4>2. r.stack = <<>>
        BY <4>1 DEF RinitInv, RinitOK
      <4>3. q.status = r.status /\ q.pc = "failed"
        BY <4>1, <4>2, ErrorIdle DEF Parsing
      <4>4. ~loader_init_done /\ (ZTS => mutex = t)
        BY <4>1 DEF LoaderInv, MutexHeld, CompleteWhenDone, Critical, Filling
      <4> QED BY <2>1, <4>1, <4>3, <4>4
    <3>10. CASE LoadStep(t)
      <4>1. UNCHANGED <<loader_init_done, mutex>>
        BY <3>10, LoadStepOutcome
      <4>2. /\ q.status = r.status
            /\ q.pc = r.pc \/ (r.pc = "run" /\ q.pc = "aborted")
        BY <1>2, <3>10, LoadStepFailure
      <4> QED BY <3>0, <4>1, <4>2
    <3> QED BY <1>2, <3>3, <3>4, <3>5, <3>6, <3>7, <3>8, <3>9, <3>10 DEF RinitStep
  <2>5. ASSUME NEW u \in Thread, u # t
        PROVE  /\ req'[u].status = "SUCCESS" /\ req'[u].pc # "exit"
               /\ req'[u].pc = "failed" => ~loader_init_done' /\ (ZTS => mutex' = u)
    <3>1. /\ req'[u] = req[u] /\ req[u].status = "SUCCESS" /\ req[u].pc # "exit"
          /\ req[u].pc = "failed" => ~loader_init_done /\ (ZTS => mutex = u)
      BY <2>3, <2>5 DEF NoFailure
    <3>2. ASSUME req[u].pc = "failed"
          PROVE  UNCHANGED <<loader_init_done, mutex>>
      <4>1. ZTS /\ mutex = u /\ mutex # t /\ mutex # Null
        BY <2>5, <3>1, <3>2, LoaderAssumption
      <4>2. r.pc \notin Critical
        BY <4>1 DEF LoaderInv, MutexHeld
      <4>3. ~LockSymbols(t) /\ ~UnlockSymbols(t) /\ ~InitDone(t)
        BY <4>1, <4>2 DEF LockSymbols, UnlockSymbols, InitDone, Critical, Filling
      <4> QED BY <1>2, <4>3, LoadStepOutcome
              DEF BeginRequest, EndRequest, RinitStep, LoadParser, RegisterUnparsed,
                  RegisterParsed, ParseError, RegisterKey, DuplicateKey, FileRegistered,
                  LoadRinit, LoadSymbol, PCS_loadScript
    <3> QED BY <3>1, <3>2
  <2> QED BY <2>4, <2>5 DEF NoFailure
<1> QED BY <1>1, <1>2 DEF Next

\* "Load script at every RINIT" (client.h:54): when no PHP code bails out by itself,
\* symbols are declared once and RINIT files are in the order of their uses, no RINIT
\* fails but by an error of a file or the parser, met while the table is filled.  The
\* order is what the code does not see to.
THEOREM RinitNeverFails ==
    ASSUME OneDeclaration, InOrder, Distinct, Bailouts = FALSE
    PROVE  Spec => []RinitSucceeds
<1>1. Init => NoFailure
  BY DEF Init, NoRequest, NoFailure
<1>2. LoaderInv /\ RinitInv /\ DeclaredInv /\ OnceInv /\ NoFailure /\ [Next]_vars => NoFailure'
  BY NoFailureNext
<1>3. NoFailure => RinitSucceeds
  BY DEF NoFailure, RinitSucceeds
<1>4. Spec => [](LoaderInv /\ RinitInv /\ DeclaredInv /\ OnceInv)
  BY OnceInvariant
<1> QED BY <1>1, <1>2, <1>3, <1>4, PTL DEF Spec
=============================================================================
