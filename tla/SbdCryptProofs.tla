--------------------------- MODULE SbdCryptProofs ---------------------------
(***************************************************************************)
(* Proofs about SbdCrypt, for all parameters, requests, keys and values.   *)
(***************************************************************************)
EXTENDS SbdCrypt, TLAPS, SequenceTheorems

\* The provers have more time for a leaf than they take by default.
USE SMTT(20), ZenonT(20)

\* The size of the device does not wrap.
Fits == nsectors * logical_block_size < ULONG

\* And a sector of the kernel is a block of the device, as with the parameters that
\* the module has if it is given none.
Geometry == logical_block_size = SECTOR /\ Fits

\* All actions that change neither data nor requests.
LEMMA TypeModule ==
  ASSUME TypeOK, Module
  PROVE  TypeOK'
<1>1. SetKey \subseteq Keys
  BY DEF TypeOK, SetKey, Keys
<1>2. CASE InitData
  BY <1>2 DEF TypeOK, InitData, Goto, Mod, Resource, params, driver
<1>3. CASE InitQueue
  BY <1>3 DEF TypeOK, InitQueue, Goto, Mod, Resource, params, driver
<1>4. CASE InitMajor
  <2>1. major_num' \in Nat
    BY <1>4 DEF TypeOK, InitMajor
  <2>2. mod' \in Mod /\ held' \in SUBSET Resource
    BY <1>4 DEF TypeOK, InitMajor, Goto, Mod, Resource
  <2>3. UNCHANGED <<opened, params, tfm, data, driver, oops>>
    BY <1>4 DEF InitMajor
  <2> QED
    BY <2>1, <2>2, <2>3 DEF TypeOK, params, driver
<1>5. CASE InitCipher
  BY <1>1, <1>5 DEF TypeOK, InitCipher, Goto, Mod, Resource, params, driver
<1>6. CASE InitDisk
  BY <1>6 DEF TypeOK, InitDisk, Goto, Unregister, Mod, Resource, params, driver
<1>7. CASE ExitCipher
  BY <1>7 DEF TypeOK, ExitCipher, Goto, Mod, Resource, params, driver
<1>8. CASE ExitDisk
  BY <1>8 DEF TypeOK, ExitDisk, Goto, Mod, Resource, params, driver
<1>9. CASE ExitRest
  BY <1>9 DEF TypeOK, ExitRest, Goto, Unregister, Mod, Resource, params, driver
<1> QED
  BY <1>2, <1>3, <1>4, <1>5, <1>6, <1>7, <1>8, <1>9 DEF Module

\* A free request struct has the type of a request.
LEMMA NoRqType == NoRq \in Rq
BY DEF NoRq, Rq

\* Those who use the disk and sysfs keep the types.
LEMMA TypeUser ==
  ASSUME TypeOK, User
  PROVE  TypeOK'
<1>1. CASE Open \/ Close
  BY <1>1 DEF TypeOK, Open, Close, params, driver
<1>2. CASE FreeKey
  BY <1>2 DEF TypeOK, FreeKey, module, driver
<1>3. CASE \E k \in Key : StoreKey(k)
  BY <1>3 DEF TypeOK, StoreKey, module, driver
<1>4. CASE \E n \in KeyLen : StoreLen(n)
  BY <1>4 DEF TypeOK, StoreLen, module, driver
<1>5. ASSUME NEW r \in Request, NEW new \in Rq, SubmitRq(r, new)
      PROVE  TypeOK'
  BY <1>5 DEF TypeOK, SubmitRq, module, params
<1>6. ASSUME NEW r \in Request, SubmitOther(r)
      PROVE  TypeOK'
  <2>1. [NoRq EXCEPT !.state = "queued", !.fs = FALSE] \in Rq
    BY NoRqType DEF NoRq, Rq
  <2> QED
    BY <2>1, <1>5, <1>6 DEF SubmitOther
<1>7. ASSUME NEW r \in Request, NEW pos \in 0 .. nsectors, NEW n \in 1 .. nsectors,
             NEW cur \in 1 .. n, NEW write \in BOOLEAN, NEW val \in Val \cup {Junk},
             Submit(r, pos, n, cur, write, val)
      PROVE  TypeOK'
  <2>0. pos \in Nat /\ n \in Nat /\ cur \in Nat
    BY ConstantsAssumption
  <2>1. [NoRq EXCEPT !.state = "queued", !.pos = pos, !.left = n, !.cur = cur,
                     !.write = write, !.val = val] \in Rq
    BY <2>0, NoRqType DEF NoRq, Rq
  <2> QED
    BY <2>1, <1>5, <1>7 DEF Submit
<1> QED
  BY <1>1, <1>2, <1>3, <1>4, <1>6, <1>7 DEF User

\* After a fetch there is a request, or the loop has ended.
LEMMA TypeFetch ==
  ASSUME NEW s \in [Request -> Rq], Fetch(s)
  PROVE  /\ rq' \in [Request -> Rq]
         /\ req' \in Request \cup {NULL}
         /\ pc' \in {"idle", "check"}
         /\ pc' # "idle" => req' \in Request
<1>1. ASSUME NEW r \in Request
      PROVE  [s EXCEPT ![r].state = "started"] \in [Request -> Rq]
  BY DEF Rq
<1> QED
  BY <1>1 DEF Fetch, Queued

\* The loop is in its body with a request.
HasReq == pc # "idle" => req \in Request

\* A product that has wrapped is a number still.
LEMMA ProductNat ==
  ASSUME NEW a \in Nat, NEW b \in Nat
  PROVE  (a * b) % ULONG \in Nat
<1>1. a * b \in Nat
  OBVIOUS
<1>2. ASSUME NEW m \in Nat
      PROVE  m % ULONG \in Nat
  BY ConstantsAssumption
<1> QED
  BY <1>1, <1>2

\* So offset and nbytes are.
LEMMA OffsetNat ==
  ASSUME TypeOK, req \in Request
  PROVE  Offset \in Nat /\ Nbytes \in Nat
<1>1. rq[req].pos \in Nat /\ rq[req].cur \in Nat
  BY DEF TypeOK, Rq
<1> QED
  BY <1>1, ProductNat, ConstantsAssumption DEF Offset, Nbytes

\* A transfer that stays in the device keeps its type, and that of the request.
LEMMA TypeTransfer ==
  ASSUME TypeOK, req \in Request, ~Stray, Transfer
  PROVE  data' \in [0 .. Size - 1 -> Cell] /\ rq' \in [Request -> Rq]
<1>1. CASE rq[req].write
  <2>1. rq[req].val \in Val \cup {Junk} /\ tfm \in Keys
    BY DEF TypeOK, Rq
  <2>2. Encrypt(tfm, rq[req].val) \in Cell
    BY <2>1 DEF Encrypt, Cell
  <2>3. \A u \in DOMAIN data : data[u] \in Cell
    BY DEF TypeOK
  <2>4. DOMAIN data = 0 .. Size - 1
    BY DEF TypeOK
  <2>5. rq' = rq /\ data' = [u \in DOMAIN data |->
                     IF u \in Offset .. Offset + Nbytes - 1
                     THEN Encrypt(tfm, rq[req].val) ELSE data[u]]
    BY <1>1 DEF Transfer
  <2> HIDE DEF Encrypt, Cell, Size, Offset, Nbytes
  <2>6. data' \in [0 .. Size - 1 -> Cell]
    BY <2>2, <2>3, <2>4, <2>5
  <2> QED
    BY <2>5, <2>6 DEF TypeOK
<1>2. CASE ~rq[req].write
  <2>1. Offset \in Nat /\ Nbytes \in Nat /\ Size \in Nat
    BY OffsetNat, ProductNat, ConstantsAssumption DEF Size
  <2>2. Offset + Nbytes <= Size
    BY <2>1 DEF Stray
  <2> DEFINE new == [i \in 1 .. Nbytes |-> Decrypt(tfm, data[Offset + i - 1])]
  <2>3. ASSUME NEW i \in 1 .. Nbytes
        PROVE  Decrypt(tfm, data[Offset + i - 1]) \in Val \cup {Junk}
    <3>1. Offset + i - 1 \in 0 .. Size - 1
      BY ONLY <2>1, <2>2, i \in 1 .. Nbytes
    <3>2. data[Offset + i - 1] \in Cell
      BY <3>1 DEF TypeOK
    <3> QED
      BY ONLY <3>2 DEF Decrypt, Cell
  <2>4. new \in Seq(Val \cup {Junk})
    BY ONLY <2>1, <2>3
  <2>5. rq[req].got \in Seq(Val \cup {Junk})
    BY DEF TypeOK, Rq
  <2>6. rq[req].got \o new \in Seq(Val \cup {Junk})
    BY ONLY <2>4, <2>5, ConcatProperties
  <2>7. rq' = [rq EXCEPT ![req].got = @ \o new] /\ data' = data
    BY <1>2 DEF Transfer
  <2> HIDE DEF new
  <2>8. rq' \in [Request -> Rq]
    BY <2>6, <2>7 DEF TypeOK, Rq
  <2> QED
    BY <2>7, <2>8 DEF TypeOK
<1> QED
  BY <1>1, <1>2

\* What is left of a request is a request.
LEMMA RestType ==
  ASSUME NEW q \in Rq, q.left - q.cur > 0, NEW n \in 1 .. q.left - q.cur
  PROVE  Rest(q, n) \in Rq
<1>1. q.pos \in Nat /\ q.cur \in Nat /\ q.left \in Nat
  BY DEF Rq
<1>2. q.pos + q.cur \in Nat /\ q.left - q.cur \in Nat /\ n \in Nat
  BY <1>1
<1> QED
  BY <1>2 DEF Rest, Rq

\* The request loop keeps the types, and has a request while it runs.
LEMMA TypeDriver ==
  ASSUME TypeOK, HasReq, Driver
  PROVE  TypeOK' /\ HasReq'
<1>0. SetKey \subseteq Keys
  BY DEF TypeOK, SetKey, Keys
<1>1. CASE Run
  <2>1. rq \in [Request -> Rq] /\ Fetch(rq)
    BY <1>1 DEF Run, TypeOK
  <2> QED
    BY <1>1, <2>1, TypeFetch DEF Run, TypeOK, HasReq, module, params
<1>2. CASE Refuse
  BY <1>2, NoRqType DEF Refuse, TypeOK, HasReq, module, params
<1>3. CASE RefuseAgain
  BY <1>3 DEF RefuseAgain, TypeOK, HasReq, module, params, driver
<1>4. CASE Check
  BY <1>0, <1>4 DEF Check, TypeOK, HasReq, module, params
<1>5. CASE Copy
  <2>1. req \in Request
    BY <1>5 DEF Copy, HasReq
  <2>2. data' \in [0 .. Size - 1 -> Cell] /\ rq' \in [Request -> Rq]
    BY <1>5, <2>1, TypeTransfer DEF Copy, TypeOK
  <2> QED
    BY <1>5, <2>1, <2>2 DEF Copy, TypeOK, HasReq, module, params
<1>6. CASE End
  <2>1. req \in Request
    BY <1>6 DEF End, HasReq
  <2> DEFINE left == rq[req].left - rq[req].cur
  <2>2. rq[req] \in Rq
    BY <2>1 DEF TypeOK
  <2>3. CASE left > 0 /\ \E n \in 1 .. left :
                 /\ rq' = [rq EXCEPT ![req] = Rest(rq[req], n)]
                 /\ pc' = "check" /\ UNCHANGED req
    <3>1. PICK n \in 1 .. left :
                 /\ rq' = [rq EXCEPT ![req] = Rest(rq[req], n)]
                 /\ pc' = "check" /\ UNCHANGED req
      BY <2>3
    <3>2. Rest(rq[req], n) \in Rq
      BY <2>2, <2>3, RestType
    <3>3. rq' \in [Request -> Rq]
      BY <2>1, <3>1, <3>2 DEF TypeOK
    <3> QED
      BY <1>6, <2>1, <3>1, <3>3 DEF End, TypeOK, HasReq, module, params
  <2>4. CASE Fetch([rq EXCEPT ![req] = NoRq])
    <3>1. [rq EXCEPT ![req] = NoRq] \in [Request -> Rq]
      BY <2>1, NoRqType DEF TypeOK
    <3> QED
      BY <1>6, <2>4, <3>1, TypeFetch DEF End, TypeOK, HasReq, module, params
  <2> QED
    BY <1>6, <2>3, <2>4 DEF End
<1> QED
  BY <1>1, <1>2, <1>3, <1>4, <1>5, <1>6 DEF Driver

\* Type correctness of the driver.
THEOREM TypeCorrect == Spec => [](TypeOK /\ HasReq)
<1>1. Init => TypeOK /\ HasReq
  <2>1. NULL \in Keys /\ [key |-> NULL, val |-> Junk] \in Cell
    BY DEF Keys, Cell
  <2> QED
    <3> SUFFICES ASSUME Init
                 PROVE  TypeOK /\ HasReq
      OBVIOUS
    <3>1. data \in [0 .. Size - 1 -> Cell]
      BY <2>1 DEF Init
    <3>2. rq \in [Request -> Rq]
      BY NoRqType DEF Init
    <3> QED
      BY <2>1, <3>1, <3>2, ConstantsAssumption DEF Init, TypeOK, HasReq, Mod, Resource
<1>2. TypeOK /\ HasReq /\ [Next]_vars => (TypeOK /\ HasReq)'
  <2> SUFFICES ASSUME TypeOK, HasReq, [Next]_vars
               PROVE  TypeOK' /\ HasReq'
    OBVIOUS
  <2>1. CASE Module
    <3>1. UNCHANGED <<pc, req>>
      BY <2>1 DEF Module, InitData, InitQueue, InitMajor, InitCipher, InitDisk, ExitCipher,
                  ExitDisk, ExitRest, driver
    <3> QED
      BY <2>1, <3>1, TypeModule DEF HasReq
  <2>2. CASE User
    <3>1. UNCHANGED <<pc, req>>
      BY <2>2 DEF User, Open, Close, FreeKey, StoreKey, StoreLen, SubmitOther, Submit,
                  SubmitRq, driver
    <3> QED
      BY <2>2, <3>1, TypeUser DEF HasReq
  <2>3. CASE Driver
    BY <2>3, TypeDriver
  <2>4. CASE UNCHANGED vars
    BY <2>4 DEF TypeOK, HasReq, vars, module, params, driver
  <2> QED
    BY <2>1, <2>2, <2>3, <2>4 DEF Next
<1> QED
  BY <1>1, <1>2, PTL DEF Spec

-----------------------------------------------------------------------------
(* What the module holds at every point of its life. *)

LifeInv ==
  /\ mod = "start" => held = {}
  /\ mod = "queue" => held = {"data"}
  /\ mod = "major" => held = {"data", "queue"}
  /\ mod = "cipher" => held = {"data", "queue", "major"}
  /\ mod = "disk" => held = {"data", "queue", "major", "cipher"}
  /\ mod = "live" => held = Resource
  /\ mod \in {"exit", "deleted"} => held = Resource \ {"cipher"}
  /\ mod = "failed" => /\ held \cap {"data", "gd"} = {}
                       /\ "cipher" \in held /\ MajorParam = 0 => "major" \notin held
  /\ mod = "unloaded" => held \subseteq {"data"} \cup IF MajorParam = 0 THEN {} ELSE {"major"}
  /\ mod \in {"start", "queue", "major"} => major_num = MajorParam
  /\ mod \in {"cipher", "disk", "live", "exit", "deleted"} /\ MajorParam = 0 => major_num = 1

\* Initialisation and exit keep LifeInv.
LEMMA LifeModule ==
  ASSUME TypeOK, LifeInv, Module
  PROVE  LifeInv'
<1>1. CASE InitData
  BY <1>1 DEF LifeInv, InitData, Goto
<1>2. CASE InitQueue
  BY <1>2 DEF LifeInv, InitQueue, Goto
<1>3. CASE InitMajor
  BY <1>3 DEF LifeInv, InitMajor, Goto
<1>4. CASE InitCipher
  BY <1>4 DEF LifeInv, InitCipher, Goto
<1>5. CASE InitDisk
  BY <1>5 DEF LifeInv, InitDisk, Goto, Unregister, Resource
<1>6. CASE ExitCipher
  BY <1>6 DEF LifeInv, ExitCipher, Goto
<1>7. CASE ExitDisk
  BY <1>7 DEF LifeInv, ExitDisk, Goto
<1>8. CASE ExitRest
  BY <1>8 DEF LifeInv, ExitRest, Goto, Unregister, Resource
<1> QED
  BY <1>1, <1>2, <1>3, <1>4, <1>5, <1>6, <1>7, <1>8 DEF Module

\* Only the module's own thread changes what it holds.
LEMMA OthersKeepLife ==
  ASSUME User \/ Driver
  PROVE  UNCHANGED <<mod, held, major_num>>
BY DEF User, Open, Close, FreeKey, StoreKey, StoreLen, SubmitOther, Submit, SubmitRq,
       Driver, Run, Refuse, RefuseAgain, Check, Copy, End, module

\* Every step keeps LifeInv.
LEMMA LifeStep ==
  ASSUME TypeOK, LifeInv, [Next]_vars
  PROVE  LifeInv'
<1>1. CASE Module
  BY <1>1, LifeModule
<1>2. CASE User \/ Driver \/ UNCHANGED vars
  <2>1. UNCHANGED <<mod, held, major_num>>
    BY <1>2, OthersKeepLife DEF vars, module
  <2> QED
    BY <2>1 DEF LifeInv
<1> QED
  BY <1>1, <1>2 DEF Next

\* Whatever fails, initialisation leaves no disk without its memory, its queue and
\* its number, a failed one leaves neither memory nor disk, and an exit leaves
\* nothing but the memory and a number given as a parameter.
THEOREM LeavesLittleBehind == Spec => []LeftBehind
<1>1. Init => LifeInv
  BY DEF Init, LifeInv
<1>2. TypeOK /\ LifeInv /\ [Next]_vars => LifeInv'
  BY LifeStep
<1>3. TypeOK /\ LifeInv => LeftBehind
  BY DEF TypeOK, LifeInv, LeftBehind, Mod, Resource
<1> QED
  BY <1>1, <1>2, <1>3, TypeCorrect, PTL DEF Spec

-----------------------------------------------------------------------------
(* The requests, those who have the disk open, and the module. *)

UseInv ==
  /\ opened => mod = "live"
  /\ \A r \in Request : rq[r].state # "free" => opened
  /\ StartedIsCurrent
  /\ oops # "freed"

\* If no request is started before a fetch, the one fetched is the only one after it.
LEMMA FetchCurrent ==
  ASSUME NEW s \in [Request -> Rq], \A r \in Request : s[r].state # "started", Fetch(s)
  PROVE  /\ StartedIsCurrent'
         /\ \A r \in Request : rq'[r].state # "free" => s[r].state # "free"
<1>1. CASE Queued(s) = {} /\ req' = NULL /\ pc' = "idle" /\ rq' = s
  BY <1>1 DEF StartedIsCurrent
<1>2. ASSUME NEW q \in Queued(s), req' = q, pc' = "check",
             rq' = [s EXCEPT ![q].state = "started"]
      PROVE  /\ StartedIsCurrent'
             /\ \A r \in Request : rq'[r].state # "free" => s[r].state # "free"
  <2>1. \A r \in Request : rq'[r].state = IF r = q THEN "started" ELSE s[r].state
    BY <1>2 DEF Queued, Rq
  <2> QED
    BY <1>2, <2>1 DEF StartedIsCurrent, Queued
<1> QED
  BY <1>1, <1>2 DEF Fetch

\* Initialisation and exit keep UseInv: they begin when nobody has the disk open.
LEMMA UseModule ==
  ASSUME UseInv, Module
  PROVE  UseInv'
<1>1. UNCHANGED <<opened, rq, req, pc>> /\ (oops' # "freed") /\ (opened => mod' = "live")
  BY DEF UseInv, Module, InitData, InitQueue, InitMajor, InitCipher, InitDisk, ExitCipher,
         ExitDisk, ExitRest, driver, MayUnload, Goto
<1> QED
  BY <1>1 DEF UseInv, StartedIsCurrent

\* Those who use the disk keep UseInv: they need the disk open, and it is closed when
\* no request is left.
LEMMA UseUser ==
  ASSUME TypeOK, UseInv, User
  PROVE  UseInv'
<1>1. CASE Open \/ Close
  BY <1>1 DEF UseInv, StartedIsCurrent, Open, Close, ModuleGet, driver
<1>2. CASE FreeKey \/ (\E k \in Key : StoreKey(k)) \/ (\E n \in KeyLen : StoreLen(n))
  BY <1>2 DEF UseInv, StartedIsCurrent, FreeKey, StoreKey, StoreLen, module, driver
<1>3. ASSUME NEW r \in Request, NEW new, new.state = "queued", SubmitRq(r, new)
      PROVE  UseInv'
  <2>1. \A q \in Request : rq'[q].state = IF q = r THEN "queued" ELSE rq[q].state
    BY <1>3 DEF SubmitRq, TypeOK
  <2>2. \A q \in Request : rq'[q].state # "started"
    BY <1>3, <2>1 DEF UseInv, StartedIsCurrent, SubmitRq
  <2> QED
    BY <1>3, <2>1, <2>2 DEF UseInv, StartedIsCurrent, SubmitRq, module
<1>4. ASSUME NEW r \in Request, SubmitOther(r)
      PROVE  UseInv'
  BY <1>3, <1>4 DEF SubmitOther, NoRq
<1>5. ASSUME NEW r \in Request, NEW pos, NEW n, NEW cur, NEW write, NEW val,
             Submit(r, pos, n, cur, write, val)
      PROVE  UseInv'
  BY <1>3, <1>5 DEF Submit, NoRq
<1> QED
  BY <1>1, <1>2, <1>4, <1>5 DEF User

\* The request loop keeps UseInv.
LEMMA UseDriver ==
  ASSUME TypeOK, HasReq, LifeInv, UseInv, Driver
  PROVE  UseInv'
<1>1. CASE Run
  <2>1. \A r \in Request : rq[r].state # "started"
    BY <1>1 DEF Run, UseInv, StartedIsCurrent
  <2>2. /\ StartedIsCurrent'
        /\ \A r \in Request : rq'[r].state # "free" => rq[r].state # "free"
    BY <1>1, <2>1, FetchCurrent DEF Run, TypeOK
  <2> QED
    BY <1>1, <2>2 DEF Run, UseInv, module
<1>2. CASE Refuse
  <2>1. req \in Request
    BY <1>2 DEF Refuse, HasReq
  <2>2. \A r \in Request : rq'[r].state = IF r = req THEN "free" ELSE rq[r].state
    BY <1>2, <2>1 DEF Refuse, TypeOK, NoRq
  <2> QED
    BY <1>2, <2>1, <2>2 DEF Refuse, UseInv, StartedIsCurrent, module
<1>3. CASE RefuseAgain
  BY <1>3 DEF RefuseAgain, UseInv, StartedIsCurrent, module, driver
<1>4. CASE Check \/ Copy
  <2>1. req \in Request /\ pc \in {"check", "copy"}
    BY <1>4 DEF Check, Copy, HasReq
  <2>2. "cipher" \in held
    BY <2>1 DEF UseInv, StartedIsCurrent, LifeInv, Resource
  <2>3. /\ UNCHANGED <<mod, opened, req>> /\ oops' # "freed"
        /\ pc' \in {"check", "copy", "end"}
    BY <1>4, <2>1, <2>2 DEF Check, Copy, module, UseInv
  <2>4. \A r \in Request : rq'[r].state = rq[r].state
    BY <1>4, <2>1 DEF Check, Copy, Transfer, TypeOK, Rq
  <2> QED
    BY <2>1, <2>3, <2>4 DEF UseInv, StartedIsCurrent
<1>5. CASE End
  <2>1. req \in Request /\ rq[req].state = "started"
    BY <1>5 DEF End, HasReq, UseInv, StartedIsCurrent
  <2>2. CASE Fetch([rq EXCEPT ![req] = NoRq])
    <3> DEFINE s == [rq EXCEPT ![req] = NoRq]
    <3>1. s \in [Request -> Rq] /\ \A r \in Request : s[r].state = IF r = req THEN "free" ELSE rq[r].state
      BY <2>1, NoRqType DEF TypeOK, NoRq
    <3>2. \A r \in Request : s[r].state # "started"
      BY <3>1 DEF UseInv, StartedIsCurrent
    <3> HIDE DEF s
    <3>3. Fetch(s)
      BY <2>2 DEF s
    <3>4. /\ StartedIsCurrent'
          /\ \A r \in Request : rq'[r].state # "free" => s[r].state # "free"
      BY <3>1, <3>2, <3>3, FetchCurrent
    <3> QED
      BY <1>5, <3>1, <3>4 DEF End, UseInv, module
  <2>3. ASSUME NEW n, rq' = [rq EXCEPT ![req] = Rest(rq[req], n)], pc' = "check", req' = req
        PROVE  UseInv'
    <3>1. Rest(rq[req], n).state = rq[req].state
      BY <2>1 DEF Rest, TypeOK, Rq
    <3>2. \A r \in Request : rq'[r].state = rq[r].state
      BY <2>1, <2>3, <3>1 DEF TypeOK
    <3> QED
      BY <1>5, <2>1, <2>3, <3>2 DEF End, UseInv, StartedIsCurrent, module
  <2> QED
    BY <1>5, <2>2, <2>3 DEF End
<1> QED
  BY <1>1, <1>2, <1>3, <1>4, <1>5 DEF Driver

\* Every step keeps UseInv.
LEMMA UseStep ==
  ASSUME TypeOK, HasReq, LifeInv, UseInv, [Next]_vars
  PROVE  UseInv'
<1>1. CASE UNCHANGED vars
  BY <1>1 DEF UseInv, StartedIsCurrent, vars, module, driver
<1> QED
  BY <1>1, UseModule, UseUser, UseDriver DEF Next

\* The conjunction that the rest of the proofs starts from.
BaseInv == TypeOK /\ HasReq /\ LifeInv /\ UseInv

\* Types, resources and users are as BaseInv says in every state, for any parameters.
THEOREM Base == Spec => []BaseInv
<1>1. Init => LifeInv /\ UseInv
  BY DEF Init, LifeInv, UseInv, StartedIsCurrent, NoRq
<1>2. TypeOK /\ HasReq /\ LifeInv /\ UseInv /\ [Next]_vars => LifeInv' /\ UseInv'
  BY LifeStep, UseStep
<1> QED
  BY <1>1, <1>2, TypeCorrect, PTL DEF Spec, BaseInv

\* The loop loses no request that it has fetched, and touches none that it has
\* ended, other than one that is not for the file system.
THEOREM NoRequestLost == Spec => []StartedIsCurrent
<1>1. BaseInv => StartedIsCurrent
  BY DEF BaseInv, UseInv
<1> QED
  BY <1>1, Base, PTL

-----------------------------------------------------------------------------
(* Where a request is. *)

\* A request of the file system is inside the device, its current segment is a
\* part of it, and only such requests are transferred.
Within(q) == q.cur \in 1 .. q.left /\ q.pos + q.left <= nsectors

WhereInv ==
  /\ \A r \in Request :
       /\ rq[r].state = "free" => rq[r] = NoRq
       /\ rq[r].state # "free" /\ rq[r].fs => Within(rq[r])
  /\ pc \in {"copy", "end"} => rq[req].fs

\* A blank request is free.
LEMMA NoRqFree == NoRq.state = "free"
BY DEF NoRq

\* A fetch moves no request.
LEMMA FetchWhere ==
  ASSUME NEW s \in [Request -> Rq],
         \A r \in Request : /\ s[r].state = "free" => s[r] = NoRq
                            /\ s[r].state # "free" /\ s[r].fs => Within(s[r]),
         Fetch(s)
  PROVE  WhereInv'
<1>1. CASE Queued(s) = {} /\ req' = NULL /\ pc' = "idle" /\ rq' = s
  BY <1>1 DEF WhereInv, Within
<1>2. ASSUME NEW q \in Queued(s), pc' = "check", rq' = [s EXCEPT ![q].state = "started"]
      PROVE  WhereInv'
  <2>1. q \in Request /\ s[q].state = "queued"
    BY DEF Queued
  <2>2. /\ rq'[q].state = "started" /\ rq'[q].fs = s[q].fs /\ rq'[q].cur = s[q].cur
        /\ rq'[q].left = s[q].left /\ rq'[q].pos = s[q].pos
    BY <1>2, <2>1 DEF Rq
  <2>3. \A r \in Request \ {q} : rq'[r] = s[r]
    BY <1>2
  <2> QED
    BY <1>2, <2>1, <2>2, <2>3 DEF WhereInv, Within
<1> QED
  BY <1>1, <1>2 DEF Fetch

\* What the block layer lets through is inside the device.
LEMMA WhereUser ==
  ASSUME TypeOK, WhereInv, User
  PROVE  WhereInv'
<1>1. CASE Open \/ Close \/ FreeKey \/ (\E k \in Key : StoreKey(k))
             \/ (\E n \in KeyLen : StoreLen(n))
  BY <1>1 DEF WhereInv, Within, Open, Close, FreeKey, StoreKey, StoreLen, driver
<1>2. ASSUME NEW r \in Request, NEW new, new.state = "queued", new.fs => Within(new),
             SubmitRq(r, new)
      PROVE  WhereInv'
  <2>1. \A q \in Request : rq'[q] = IF q = r THEN new ELSE rq[q]
    BY <1>2 DEF SubmitRq, TypeOK
  <2> QED
    BY <1>2, <2>1 DEF WhereInv, Within, SubmitRq
<1>3. ASSUME NEW r \in Request, SubmitOther(r)
      PROVE  WhereInv'
  BY <1>2, <1>3 DEF SubmitOther, NoRq
<1>4. ASSUME NEW r \in Request, NEW pos \in 0 .. nsectors, NEW n \in 1 .. nsectors,
             NEW cur \in 1 .. n, NEW write, NEW val, Submit(r, pos, n, cur, write, val)
      PROVE  WhereInv'
  <2> DEFINE new == [NoRq EXCEPT !.state = "queued", !.pos = pos, !.left = n, !.cur = cur,
                                 !.write = write, !.val = val]
  <2>1. new.state = "queued" /\ Within(new)
    BY <1>4 DEF NoRq, Within, Submit, Capacity
  <2> QED
    BY <1>2, <1>4, <2>1 DEF Submit
<1> QED
  BY <1>1, <1>3, <1>4 DEF User

\* The request loop keeps what is left of a request inside the device.
LEMMA WhereDriver ==
  ASSUME TypeOK, HasReq, UseInv, WhereInv, Driver
  PROVE  WhereInv'
<1>1. CASE Run
  <2>1. rq \in [Request -> Rq] /\ Fetch(rq)
    BY <1>1 DEF Run, TypeOK
  <2> QED
    BY <2>1, FetchWhere DEF WhereInv
<1>2. CASE Refuse
  <2>1. \A r \in Request : rq'[r] = IF r = req THEN NoRq ELSE rq[r]
    BY <1>2 DEF Refuse, TypeOK
  <2> QED
    BY <1>2, <2>1, NoRqFree DEF Refuse, WhereInv, Within
<1>3. CASE RefuseAgain
  BY <1>3 DEF RefuseAgain, WhereInv, Within, driver
<1>4. CASE Check
  BY <1>4 DEF Check, WhereInv, Within
<1>5. CASE Copy
  <2>1. req \in Request /\ rq[req].fs /\ rq[req].state = "started" /\ req' = req
    BY <1>5 DEF Copy, HasReq, WhereInv, UseInv, StartedIsCurrent
  <2>2. \A r \in Request \ {req} : rq'[r] = rq[r]
    BY <1>5, <2>1 DEF Copy, Transfer, TypeOK
  <2>3. /\ rq'[req].state = "started" /\ rq'[req].fs /\ rq'[req].cur = rq[req].cur
        /\ rq'[req].left = rq[req].left /\ rq'[req].pos = rq[req].pos
    BY <1>5, <2>1 DEF Copy, Transfer, TypeOK, Rq
  <2> QED
    BY <2>1, <2>2, <2>3 DEF WhereInv, Within
<1>6. CASE End
  <2>1. req \in Request /\ rq[req].fs /\ rq[req].state = "started" /\ rq[req] \in Rq
    BY <1>6 DEF End, HasReq, WhereInv, UseInv, StartedIsCurrent, TypeOK
  <2>2. CASE Fetch([rq EXCEPT ![req] = NoRq])
    <3> DEFINE s == [rq EXCEPT ![req] = NoRq]
    <3>1. s \in [Request -> Rq] /\ \A r \in Request : s[r] = IF r = req THEN NoRq ELSE rq[r]
      BY <2>1, NoRqType DEF TypeOK
    <3> HIDE DEF s
    <3>2. \A r \in Request : /\ s[r].state = "free" => s[r] = NoRq
                             /\ s[r].state # "free" /\ s[r].fs => Within(s[r])
      BY <3>1 DEF WhereInv, NoRq
    <3> QED
      BY <2>2, <3>1, <3>2, FetchWhere DEF s
  <2>3. ASSUME rq[req].left - rq[req].cur > 0, NEW n \in 1 .. rq[req].left - rq[req].cur,
               rq' = [rq EXCEPT ![req] = Rest(rq[req], n)], pc' = "check"
        PROVE  WhereInv'
    <3>1. Within(rq[req])
      BY <2>1 DEF WhereInv
    <3>2. Within(Rest(rq[req], n)) /\ Rest(rq[req], n).state = "started"
      BY <2>1, <3>1, ConstantsAssumption DEF Within, Rest, Rq
    <3>3. \A r \in Request : rq'[r] = IF r = req THEN Rest(rq[req], n) ELSE rq[r]
      BY <2>1, <2>3 DEF TypeOK
    <3> QED
      BY <2>3, <3>2, <3>3 DEF WhereInv, Within
  <2> QED
    BY <1>6, <2>2, <2>3 DEF End
<1> QED
  BY <1>1, <1>2, <1>3, <1>4, <1>5, <1>6 DEF Driver

\* Every request is inside the device, with its current segment inside what is left of
\* it, for any parameters.
THEOREM Where == Spec => []WhereInv
<1>1. Init => WhereInv
  BY DEF Init, WhereInv, NoRq
<1>2. BaseInv /\ WhereInv /\ [Next]_vars => WhereInv'
  <2> SUFFICES ASSUME BaseInv, WhereInv, [Next]_vars
               PROVE  WhereInv'
    OBVIOUS
  <2>1. CASE Module
    <3>1. UNCHANGED driver
      BY <2>1 DEF Module, InitData, InitQueue, InitMajor, InitCipher, InitDisk, ExitCipher,
                  ExitDisk, ExitRest
    <3> QED
      BY <3>1 DEF WhereInv, Within, driver
  <2>2. CASE UNCHANGED vars
    BY <2>2 DEF WhereInv, Within, vars, driver
  <2> QED
    BY <2>1, <2>2, WhereUser, WhereDriver DEF BaseInv, Next
<1> QED
  BY <1>1, <1>2, Base, PTL DEF Spec

-----------------------------------------------------------------------------
(* Numbers.  In a device whose size does not wrap no offset does. *)

\* Multiplication is monotone.
LEMMA Monotone ==
  ASSUME NEW a \in Nat, NEW b \in Nat, NEW c \in Nat, a <= b
  PROVE  a * c <= b * c /\ c * a <= c * b
OBVIOUS

\* A number below ULONG does not wrap.
LEMMA NoWrap ==
  ASSUME NEW a \in Nat, a < ULONG
  PROVE  a % ULONG = a
BY ConstantsAssumption

\* For a request inside the device no product and no sum wraps.
LEMMA Exact ==
  ASSUME Fits, NEW q \in Rq, Within(q), NEW B, B = logical_block_size
  PROVE  /\ (q.pos * B) % ULONG = q.pos * B
         /\ (q.cur * B) % ULONG = q.cur * B
         /\ Size = nsectors * B
         /\ q.pos * B + q.cur * B <= nsectors * B
         /\ (q.pos * B + q.cur * B) % ULONG = q.pos * B + q.cur * B
         /\ q.pos * B \in Nat /\ q.cur * B \in Nat
<1>1. /\ q.pos \in Nat /\ q.cur \in Nat /\ q.left \in Nat /\ nsectors \in Nat /\ B \in Nat
      /\ ULONG \in Nat
  BY ConstantsAssumption DEF Rq
<1>2. q.pos + q.cur <= nsectors /\ q.pos + q.cur \in Nat
  BY <1>1 DEF Within
<1>3. (q.pos + q.cur) * B <= nsectors * B
  BY <1>1, <1>2, Monotone
<1>4. (q.pos + q.cur) * B = q.pos * B + q.cur * B
  BY <1>1
<1>5. q.pos * B \in Nat /\ q.cur * B \in Nat /\ nsectors * B \in Nat
  BY <1>1
<1>6. nsectors * B < ULONG
  BY DEF Fits
<1> DEFINE p == q.pos * B
           c == q.cur * B
           m == nsectors * B
<1>7. p \in Nat /\ c \in Nat /\ m \in Nat /\ p + c <= m /\ m < ULONG
  BY <1>3, <1>4, <1>5, <1>6
<1> HIDE DEF p, c, m
<1>8. p + c \in Nat /\ p < ULONG /\ c < ULONG /\ p + c < ULONG
  BY <1>1, <1>7
<1>9. p % ULONG = p /\ c % ULONG = c /\ m % ULONG = m /\ (p + c) % ULONG = p + c
  BY <1>7, <1>8, NoWrap
<1> QED
  BY <1>7, <1>9 DEF Size, p, c, m

\* In a transfer, and before it.  Blocks that are no larger than sectors fit into the
\* buffer of the request.
LEMMA ExactHere ==
  ASSUME Fits, BaseInv, WhereInv, pc \in {"check", "copy", "end"}, rq[req].fs
  PROVE  /\ Offset = rq[req].pos * logical_block_size
         /\ Nbytes = rq[req].cur * logical_block_size
         /\ Offset + Nbytes <= Size /\ Offset \in Nat /\ Nbytes \in Nat
         /\ ~BeyondEnd /\ (logical_block_size <= SECTOR => ~Stray)
<1>1. req \in Request /\ rq[req].state = "started" /\ rq[req] \in Rq
  BY DEF BaseInv, HasReq, UseInv, StartedIsCurrent, TypeOK
<1>2. Within(rq[req])
  BY <1>1 DEF WhereInv
<1> DEFINE q == rq[req]
<1>3. /\ Offset = q.pos * logical_block_size /\ Nbytes = q.cur * logical_block_size
      /\ Offset + Nbytes <= Size
      /\ (Offset + Nbytes) % ULONG = Offset + Nbytes /\ Offset \in Nat /\ Nbytes \in Nat
  BY <1>1, <1>2, Exact DEF Offset, Nbytes
<1>4. Size \in Nat
  BY ProductNat, ConstantsAssumption DEF Size
<1>5. ~BeyondEnd
  BY <1>3, <1>4 DEF BeyondEnd
<1>6. ASSUME logical_block_size <= SECTOR PROVE ~Stray
  <2>1. q.cur \in Nat /\ logical_block_size \in Nat /\ SECTOR \in Nat
    BY <1>1, ConstantsAssumption DEF Rq
  <2>2. q.cur * logical_block_size <= q.cur * SECTOR
    BY <2>1, <1>6, Monotone
  <2>3. q.cur * logical_block_size \in Nat /\ q.cur * SECTOR \in Nat
    BY <2>1
  <2> QED BY <2>2, <2>3, <1>3, <1>4 DEF Stray
<1> QED
  BY <1>3, <1>5, <1>6

NoStray == oops # "stray"

\* In a device whose size does not wrap, with blocks no larger than a sector of the
\* kernel, no transfer uses a cipher that has been freed, or memory outside the device
\* and the buffer.
THEOREM AlwaysLive == Fits /\ logical_block_size <= SECTOR => (Spec => []UsesAreLive)
<1> SUFFICES ASSUME Fits, logical_block_size <= SECTOR
             PROVE  Spec => []UsesAreLive
  OBVIOUS
<1>1. Init => NoStray
  BY DEF Init, NoStray
<1>2. BaseInv /\ WhereInv /\ NoStray /\ [Next]_vars => NoStray'
  <2> SUFFICES ASSUME BaseInv, WhereInv, oops # "stray", [Next]_vars
               PROVE  oops' # "stray"
    BY DEF NoStray
  <2>1. CASE Copy
    <3>1. ~Stray
      BY <2>1, ExactHere DEF Copy, WhereInv
    <3> QED
      BY <2>1, <3>1 DEF Copy
  <2>2. CASE Module
    BY <2>2 DEF Module, InitData, InitQueue, InitMajor, InitCipher, InitDisk, ExitCipher,
                ExitDisk, ExitRest
  <2>3. CASE User
    BY <2>3 DEF User, Open, Close, FreeKey, StoreKey, StoreLen, SubmitOther, Submit, SubmitRq
  <2>4. CASE Run \/ Refuse \/ RefuseAgain \/ Check \/ End \/ UNCHANGED vars
    BY <2>4 DEF Run, Refuse, RefuseAgain, Check, End, vars
  <2> QED
    BY <2>1, <2>2, <2>3, <2>4 DEF Next, Driver
<1>3. BaseInv /\ NoStray => UsesAreLive
  BY DEF NoStray, BaseInv, UseInv, UsesAreLive
<1> QED
  BY <1>1, <1>2, <1>3, Base, Where, PTL DEF Spec

-----------------------------------------------------------------------------
(* The refinement. *)

Jobs == [r \in Request |-> JobOf(r)]

\* A step that changes the job of one request, as a change of the function of jobs.
LEMMA JobsExcept ==
  ASSUME NEW r \in Request, \A q \in Request \ {r} : JobOf(q)' = JobOf(q)
  PROVE  Jobs' = [Jobs EXCEPT ![r] = JobOf(r)']
BY DEF Jobs

\* A fetch changes no job.
LEMMA FetchJobs ==
  ASSUME NEW s \in [Request -> Rq], Fetch(s), NEW r \in Request
  PROVE  JobOf(r)' = Job(s[r], FALSE)
<1>1. pc' # "end"
  BY DEF Fetch
<1>2. CASE rq' = s
  BY <1>1, <1>2 DEF JobOf
<1>3. ASSUME NEW q \in Queued(s), rq' = [s EXCEPT ![q].state = "started"]
      PROVE  JobOf(r)' = Job(s[r], FALSE)
  <2>1. CASE r # q
    BY <1>1, <1>3, <2>1 DEF JobOf
  <2>2. CASE r = q
    <3>1. s[q].state = "queued" /\ s[q] \in Rq
      BY DEF Queued
    <3>2. rq'[q] = [s[q] EXCEPT !.state = "started"]
      BY <1>3 DEF Queued
    <3>3. Job(rq'[q], FALSE) = Job(s[q], FALSE)
      BY <3>1, <3>2 DEF Job, Rq
    <3> QED
      BY <1>1, <2>2, <3>3 DEF JobOf
  <2> QED
    BY <2>1, <2>2
<1> QED
  BY <1>2, <1>3 DEF Fetch

\* A step that leaves the requests alone changes no job.
LEMMA SameDriverSameJobs ==
  ASSUME UNCHANGED driver
  PROVE  Jobs' = Jobs
BY DEF driver, Jobs, JobOf

\* A step of the module's own thread may set the key.
LEMMA RefineModule ==
  ASSUME TypeOK, TypeOK', Module
  PROVE  [Disk!Next]_(Disk!vars)
<1>1. UNCHANGED <<driver, data>> /\ tfm' \in Keys
  BY DEF Module, InitData, InitQueue, InitMajor, InitCipher, InitDisk, ExitCipher,
         ExitDisk, ExitRest, TypeOK
<1>2. Jobs' = Jobs
  BY <1>1, SameDriverSameJobs
<1> QED
  BY <1>1, <1>2 DEF Jobs, Disk!Next, Disk!SetKey

\* Users of the disk begin jobs.
LEMMA RefineUser ==
  ASSUME TypeOK, User
  PROVE  [Disk!Next]_(Disk!vars)
<1>1. CASE Open \/ Close \/ FreeKey \/ (\E k \in Key : StoreKey(k))
             \/ (\E n \in KeyLen : StoreLen(n))
  <2>1. UNCHANGED <<driver, data, tfm>>
    BY <1>1 DEF Open, Close, FreeKey, StoreKey, StoreLen
  <2> QED
    BY <2>1, SameDriverSameJobs DEF Jobs, Disk!vars
<1>2. ASSUME NEW r \in Request, NEW new, new.state = "queued", SubmitRq(r, new)
      PROVE  [Disk!Next]_(Disk!vars)
  <2>1. \A q \in Request : rq'[q] = IF q = r THEN new ELSE rq[q]
    BY <1>2 DEF SubmitRq, TypeOK
  <2>2. UNCHANGED <<req, pc, data, tfm>> /\ rq[r].state = "free"
    BY <1>2 DEF SubmitRq, NoRq
  <2>3. \A q \in Request \ {r} : JobOf(q)' = JobOf(q)
    BY <2>1, <2>2 DEF JobOf
  <2>4. JobOf(r).state = "none" /\ JobOf(r)'.state = "begun"
    BY <1>2, <2>1, <2>2 DEF JobOf, Job
  <2>5. Jobs' = [Jobs EXCEPT ![r] = Jobs'[r]] /\ Jobs[r] = JobOf(r) /\ Jobs'[r] = JobOf(r)'
    BY <2>3, JobsExcept DEF Jobs
  <2>6. Disk!Begin(r)
    BY <2>2, <2>4, <2>5 DEF Disk!Begin, Jobs
  <2> QED
    BY <2>6 DEF Disk!Next
<1>3. ASSUME NEW r \in Request, SubmitOther(r)
      PROVE  [Disk!Next]_(Disk!vars)
  BY <1>2, <1>3 DEF SubmitOther, NoRq
<1>4. ASSUME NEW r \in Request, NEW pos, NEW n, NEW cur, NEW write, NEW val,
             Submit(r, pos, n, cur, write, val)
      PROVE  [Disk!Next]_(Disk!vars)
  BY <1>2, <1>4 DEF Submit, NoRq
<1> QED
  BY <1>1, <1>3, <1>4 DEF User

\* A job before and after its current segment.
LEMMA JobAdvance ==
  ASSUME NEW q \in Rq, q.state # "free", NEW g
  PROVE  /\ Job(q, TRUE) = [Job(q, FALSE) EXCEPT !.pos = @ + q.cur]
         /\ Job([q EXCEPT !.got = g], TRUE) =
              [[Job(q, FALSE) EXCEPT !.pos = @ + q.cur] EXCEPT !.got = g]
<1>1. Job(q, TRUE) = [Job(q, FALSE) EXCEPT !.pos = @ + q.cur]
  BY DEF Job
<1>2. Job([q EXCEPT !.got = g], TRUE) = [Job(q, TRUE) EXCEPT !.got = g]
  BY DEF Job, Rq
<1> QED
  BY <1>1, <1>2

\* The end of a segment changes no job: it was counted when it was copied.
LEMMA JobRest ==
  ASSUME NEW q \in Rq, q.state # "free", NEW n
  PROVE  Job(Rest(q, n), FALSE) = Job(q, TRUE)
<1> DEFINE s == Rest(q, n)
<1>1. /\ s.state = q.state /\ s.fs = q.fs /\ s.write = q.write /\ s.val = q.val
      /\ s.got = q.got /\ s.pos = q.pos + q.cur /\ s.left = q.left - q.cur
  BY DEF Rest, Rq
<1>2. s.pos + s.left = q.pos + q.left
  BY <1>1 DEF Rq
<1> HIDE DEF s
<1>3. Job(s, FALSE) = Job(q, TRUE)
  BY <1>1, <1>2 DEF Job
<1> QED
  BY <1>3 DEF s

\* A segment is copied: the one step that carries something out.
LEMMA RefineCopy ==
  ASSUME Geometry, BaseInv, WhereInv, Copy
  PROVE  [Disk!Next]_(Disk!vars)
<1>1. PICK r \in Request : r = req /\ rq[r] \in Rq /\ rq[r].state = "started" /\ rq[r].fs
  BY DEF Copy, BaseInv, HasReq, UseInv, StartedIsCurrent, TypeOK, WhereInv
<1>2. /\ Offset = rq[r].pos * SECTOR /\ Nbytes = rq[r].cur * SECTOR
      /\ ~Stray
  BY <1>1, ExactHere, ConstantsAssumption DEF Copy, Geometry
<1>3. "cipher" \in held
  BY <1>1 DEF BaseInv, UseInv, LifeInv, Resource
<1>4. Transfer /\ pc' = "end" /\ tfm' = tfm /\ req' = r /\ pc = "copy"
  BY <1>1, <1>2, <1>3 DEF Copy
<1>5. rq \in [Request -> Rq]
  BY DEF BaseInv, TypeOK
<1> DEFINE n == rq[r].cur
           j == Job(rq[r], FALSE)
           rest == [j EXCEPT !.pos = @ + n]
<1>6. Jobs[r] = j
  BY <1>1, <1>4 DEF Jobs, JobOf
<1>7. j.state = "begun" /\ j.fs /\ n \in 1 .. j.end - j.pos /\ j.pos = rq[r].pos
      /\ j.val = rq[r].val /\ j.write = rq[r].write
  <2>1. /\ j.state = "begun" /\ j.fs = rq[r].fs /\ j.write = rq[r].write
        /\ j.val = rq[r].val /\ j.pos = rq[r].pos /\ j.end = rq[r].pos + rq[r].left
    BY <1>1 DEF Job
  <2>2. n \in 1 .. rq[r].left /\ rq[r].pos \in Nat /\ rq[r].left \in Nat
    BY <1>1 DEF WhereInv, Within, Rq
  <2> HIDE DEF j
  <2>3. j.end - j.pos = rq[r].left
    BY <2>1, <2>2
  <2> QED
    BY <1>1, <2>1, <2>2, <2>3
<1>8. ASSUME \A q \in Request \ {r} : rq'[q] = rq[q]
      PROVE  Jobs' = [Jobs EXCEPT ![r] = Job(rq'[r], TRUE)]
  <2>1. \A q \in Request \ {r} : JobOf(q)' = JobOf(q)
    BY <1>1, <1>4, <1>8 DEF JobOf
  <2>2. JobOf(r)' = Job(rq'[r], TRUE)
    BY <1>4 DEF JobOf
  <2> QED
    BY <2>1, <2>2, JobsExcept
<1>9. Disk!Segment(r, n)
  <2>1. CASE rq[r].write
    <3>1. rq' = rq /\ data' = [u \in DOMAIN data |->
                       IF u \in Offset .. Offset + Nbytes - 1
                       THEN Encrypt(tfm, rq[r].val) ELSE data[u]]
      BY <1>1, <1>4, <2>1 DEF Transfer
    <3>2. data' = [u \in DOMAIN data |->
                       IF u \in j.pos * SECTOR .. j.pos * SECTOR + n * SECTOR - 1
                       THEN Disk!Seal(tfm, j.val) ELSE data[u]]
      BY <1>2, <1>7, <3>1 DEF Encrypt, Disk!Seal
    <3>3. Jobs' = [Jobs EXCEPT ![r] = rest]
      BY <1>1, <1>8, <3>1, JobAdvance
    <3> QED
      BY <1>6, <1>7, <2>1, <3>2, <3>3 DEF Disk!Segment, Jobs
  <2>2. CASE ~rq[r].write
    <3> DEFINE new == [i \in 1 .. Nbytes |-> Decrypt(tfm, data[Offset + i - 1])]
    <3>1. rq' = [rq EXCEPT ![r].got = @ \o new] /\ data' = data
      BY <1>1, <1>4, <2>2 DEF Transfer
    <3>2. new = [i \in 1 .. n * SECTOR |-> Disk!Unseal(tfm, data[j.pos * SECTOR + i - 1])]
      BY <1>2, <1>7 DEF Decrypt, Disk!Unseal
    <3> DEFINE got == rq[r].got \o new
    <3>3. /\ rq'[r] = [rq[r] EXCEPT !.got = got]
          /\ \A q \in Request \ {r} : rq'[q] = rq[q]
      BY <1>1, <1>5, <3>1
    <3> HIDE DEF new, got
    <3>4. Job([rq[r] EXCEPT !.got = got], TRUE) = [rest EXCEPT !.got = got]
      BY <1>1, JobAdvance
    <3>5. rest.got = rq[r].got
      BY <1>1 DEF Job
    <3>6. Jobs' = [Jobs EXCEPT ![r] = [rest EXCEPT !.got = got]]
      BY <1>8, <3>3, <3>4
    <3>7. Jobs' = [Jobs EXCEPT ![r] = [rest EXCEPT !.got = @ \o new]]
      BY <3>5, <3>6 DEF got
    <3> QED
      BY <1>6, <1>7, <2>2, <3>1, <3>2, <3>7 DEF Disk!Segment, Jobs
  <2> QED
    BY <2>1, <2>2
<1>10. Disk!Apply(r)
  BY <1>4, <1>6, <1>7, <1>9 DEF Disk!Apply, Jobs
<1> QED
  BY <1>10 DEF Disk!Next

\* The end of a segment is a stutter, and that of a request the end of its job.
LEMMA RefineEnd ==
  ASSUME BaseInv, WhereInv, End
  PROVE  [Disk!Next]_(Disk!vars)
<1>1. PICK r \in Request : r = req /\ rq[r] \in Rq /\ rq[r].state = "started" /\ rq[r].fs
  BY DEF End, BaseInv, HasReq, UseInv, StartedIsCurrent, TypeOK, WhereInv
<1>2. rq \in [Request -> Rq] /\ pc = "end" /\ UNCHANGED <<data, tfm>>
  BY DEF End, BaseInv, TypeOK
<1>3. ASSUME NEW n, rq' = [rq EXCEPT ![r] = Rest(rq[r], n)], pc' = "check", req' = req
      PROVE  [Disk!Next]_(Disk!vars)
  <2>1. Job(Rest(rq[r], n), FALSE) = Job(rq[r], TRUE)
    BY <1>1, JobRest
  <2>2. \A q \in Request : JobOf(q)' = JobOf(q)
    BY <1>1, <1>2, <1>3, <2>1 DEF JobOf
  <2>3. Jobs' = Jobs
    BY <2>2 DEF Jobs
  <2> QED
    BY <1>2, <2>3 DEF Jobs, Disk!vars
<1>4. ASSUME rq[r].left - rq[r].cur = 0, Fetch([rq EXCEPT ![r] = NoRq])
      PROVE  [Disk!Next]_(Disk!vars)
  <2> DEFINE s == [rq EXCEPT ![r] = NoRq]
  <2>1. s \in [Request -> Rq] /\ \A q \in Request : s[q] = IF q = r THEN NoRq ELSE rq[q]
    BY <1>1, <1>2, NoRqType
  <2> HIDE DEF s
  <2>2. \A q \in Request : JobOf(q)' = Job(s[q], FALSE)
    BY <1>4, <2>1, FetchJobs DEF s
  <2>3. \A q \in Request \ {r} : JobOf(q)' = JobOf(q)
    BY <1>1, <2>1, <2>2 DEF JobOf
  <2>4. JobOf(r)' = Disk!NoJob
    BY <2>1, <2>2, NoRqFree DEF Job, Disk!NoJob
  <2>5. Jobs' = [Jobs EXCEPT ![r] = Disk!NoJob]
    BY <2>3, <2>4, JobsExcept
  <2>6. Jobs[r].state = "begun" /\ Jobs[r].pos = Jobs[r].end
    BY <1>1, <1>2, <1>4 DEF Jobs, JobOf, Job, Rq
  <2>7. Disk!End(r)
    BY <1>2, <2>5, <2>6 DEF Disk!End, Jobs
  <2> QED
    BY <2>7 DEF Disk!Next
<1> QED
  BY <1>1, <1>3, <1>4 DEF End

\* A request that is refused is a job that ends.
LEMMA RefineRefuse ==
  ASSUME BaseInv, Refuse
  PROVE  [Disk!Next]_(Disk!vars)
<1>1. PICK r \in Request : r = req /\ rq[r].state = "started" /\ ~rq[r].fs
  BY DEF Refuse, BaseInv, HasReq, UseInv, StartedIsCurrent
<1>2. UNCHANGED <<req, data, tfm>> /\ pc = "check" /\ pc' = "again"
  BY DEF Refuse
<1>3. \A q \in Request : rq'[q] = IF q = r THEN NoRq ELSE rq[q]
  BY <1>1 DEF Refuse, BaseInv, TypeOK
<1>4. \A q \in Request \ {r} : JobOf(q)' = JobOf(q)
  BY <1>2, <1>3 DEF JobOf
<1>5. JobOf(r)' = Disk!NoJob
  BY <1>3, NoRqFree DEF JobOf, Job, Disk!NoJob
<1>6. Jobs' = [Jobs EXCEPT ![r] = Disk!NoJob]
  BY <1>4, <1>5, JobsExcept
<1>7. Jobs[r].state = "begun" /\ ~Jobs[r].fs
  BY <1>1 DEF Jobs, JobOf, Job
<1>8. Disk!End(r)
  BY <1>2, <1>6, <1>7 DEF Disk!End, Jobs
<1> QED
  BY <1>8 DEF Disk!Next

\* A fetch is a stutter, and the check sets the key.
LEMMA RefineRunCheck ==
  ASSUME Geometry, BaseInv, BaseInv', WhereInv, Run \/ RefuseAgain \/ Check
  PROVE  [Disk!Next]_(Disk!vars)
<1>1. CASE Run
  <2>1. rq \in [Request -> Rq] /\ Fetch(rq) /\ UNCHANGED <<data, tfm>> /\ pc = "idle"
    BY <1>1 DEF Run, BaseInv, TypeOK
  <2>2. \A r \in Request : JobOf(r)' = JobOf(r)
    BY <2>1, FetchJobs DEF JobOf
  <2>3. Jobs' = Jobs
    BY <2>2 DEF Jobs
  <2> QED
    BY <2>1, <2>3 DEF Jobs, Disk!vars
<1>2. CASE RefuseAgain
  BY <1>2, SameDriverSameJobs DEF RefuseAgain, Jobs, Disk!vars
<1>3. CASE Check
  <2>1. ~BeyondEnd
    BY <1>3, ExactHere DEF Check, Geometry
  <2>2. UNCHANGED <<data, rq, req>> /\ pc # "end" /\ pc' # "end" /\ tfm' \in Keys
    BY <1>3, <2>1 DEF Check, BaseInv, TypeOK
  <2>3. Jobs' = Jobs
    BY <2>2 DEF Jobs, JobOf
  <2> QED
    BY <2>2, <2>3 DEF Jobs, Disk!Next, Disk!SetKey
<1> QED
  BY <1>1, <1>2, <1>3

\* With a sector of the kernel for a block the driver is an encrypted disk: every segment of a
\* request is carried out once, on the sectors it is for, under one key, whatever
\* is stored in sysfs meanwhile, and a request is not over before.
THEOREM IsEncryptedDisk == Geometry => (Spec => ImplementsDisk)
<1> SUFFICES ASSUME Geometry
             PROVE  Spec => ImplementsDisk
  OBVIOUS
<1>1. Init => Disk!Init
  <2> SUFFICES ASSUME Init
               PROVE  Jobs = [r \in Request |-> Disk!NoJob]
    BY DEF Disk!Init, Jobs
  <2>1. \A r \in Request : JobOf(r) = Disk!NoJob
    BY NoRqFree DEF Init, JobOf, Job, Disk!NoJob
  <2> QED
    BY <2>1 DEF Jobs
<1>2. BaseInv /\ BaseInv' /\ WhereInv /\ [Next]_vars => [Disk!Next]_(Disk!vars)
  <2> SUFFICES ASSUME BaseInv, BaseInv', WhereInv, [Next]_vars
               PROVE  [Disk!Next]_(Disk!vars)
    OBVIOUS
  <2>1. CASE Module
    BY <2>1, RefineModule DEF BaseInv
  <2>2. CASE User
    BY <2>2, RefineUser DEF BaseInv
  <2>3. CASE Driver
    BY <2>3, RefineCopy, RefineEnd, RefineRefuse, RefineRunCheck DEF Driver
  <2>4. CASE UNCHANGED vars
    BY <2>4, SameDriverSameJobs DEF vars, Jobs, Disk!vars
  <2> QED
    BY <2>1, <2>2, <2>3, <2>4 DEF Next
<1> QED
  BY <1>1, <1>2, Base, Where, PTL DEF Spec, ImplementsDisk, Disk!Spec
=============================================================================
