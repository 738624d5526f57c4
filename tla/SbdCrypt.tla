------------------------------ MODULE SbdCrypt ------------------------------
(***************************************************************************)
(* The encrypted RAM disk of kernel/project3/code/sbd.c: the request loop, *)
(* the transfer, the initialisation and the exit of the module, and the    *)
(* part of the kernel that calls them.                                     *)
(*                                                                         *)
(* Memory is measured in blocks of the cipher, which divide a sector.  The *)
(* request function runs with the queue lock, Device.lock, held from its   *)
(* first fetch until there is nothing more to fetch, so a request is       *)
(* submitted only while it does not run.  Initialisation, exit and the     *)
(* parameters in sysfs do not take that lock, and are interleaved with it. *)
(* A call that may fail does so at any time.  After an oops nothing more   *)
(* is modelled.                                                            *)
(*                                                                         *)
(* AES is symbolic: a cell has the key and the value it was made from.     *)
(* sbd_crypt_getgeo, which changes nothing, is left out.                   *)
(***************************************************************************)
EXTENDS Integers, Sequences

CONSTANTS
  nsectors, logical_block_size,   \* the parameters of the module
  MajorParam,                     \* major_num as given to insmod (0)
  SECTOR,       \* KERNEL_SECTOR_SIZE
  ULONG,        \* 2^32: unsigned long is a number below
  Request,      \* the request structs of the queue
  Val,          \* what may be written
  Key, KeyLen,  \* the strings and the lengths that may be stored in sysfs
  ValidLen,     \* the key lengths of AES (16, 24 and 32 bytes)
  MaxStores,    \* bound: how often the parameters are stored
  Junk, NULL

ASSUME ConstantsAssumption ==
  /\ nsectors \in Nat /\ logical_block_size \in Nat /\ MajorParam \in Nat
  /\ SECTOR \in Nat \ {0} /\ ULONG \in Nat \ {0}
  /\ NULL \notin Request /\ NULL \notin Key

VARIABLES
  mod,          \* how far sbd_crypt_init or sbd_crypt_exit is
  held,         \* what the module has got from the kernel and not given back
  major_num,
  opened,       \* somebody has the disk open
  crypt_key, crypt_keylen,
  stores,       \* how often they have been stored
  tfm,          \* the key expanded in crypt_cipher
  data,         \* the memory at Device.data
  rq,           \* the requests
  req, pc,      \* req of sbd_crypt_request, and where it is
  oops          \* why the kernel has oopsed, or "no"

module == <<mod, held, major_num, opened>>
params == <<crypt_key, crypt_keylen, stores>>
driver == <<rq, req, pc>>
vars == <<module, params, tfm, data, driver, oops>>

\* Device.size; an int product, which wraps.
Size == (nsectors * logical_block_size) % ULONG

Resource == {"data", "queue", "major", "cipher", "gd"}
Mod == {"start", "queue", "major", "cipher", "disk", "live", "exit", "deleted",
        "failed", "unloaded"}

\* A key as AES sees it, or NULL before the first setkey that succeeds.
Keys == (Key \X ValidLen) \cup {NULL}
Cell == [key : Keys, val : Val \cup {Junk}]

\* A request is for the sectors from pos, of which left are left and cur are in
\* the current segment; val is what is written, got what has been read.
Rq == [state : {"free", "queued", "started"}, fs : BOOLEAN, write : BOOLEAN,
       pos : Nat, left : Nat, cur : Nat,
       val : Val \cup {Junk}, got : Seq(Val \cup {Junk})]

NoRq == [state |-> "free", fs |-> TRUE, write |-> FALSE, pos |-> 0, left |-> 0, cur |-> 0,
         val |-> Junk, got |-> <<>>]

TypeOK ==
  /\ mod \in Mod /\ held \in SUBSET Resource /\ opened \in BOOLEAN
  /\ major_num \in Nat
  /\ crypt_key \in Key \cup {NULL} /\ crypt_keylen \in KeyLen /\ stores \in Nat
  /\ tfm \in Keys
  /\ data \in [0 .. Size - 1 -> Cell]
  /\ rq \in [Request -> Rq]
  /\ req \in Request \cup {NULL} /\ pc \in {"idle", "check", "again", "copy", "end"}
  /\ oops \in {"no", "errptr", "freed", "stray", "print", "ended"}

\* vmalloc does not clear the memory, so at first there is anything in it.
Init ==
  /\ mod = "start" /\ held = {} /\ major_num = MajorParam /\ opened = FALSE
  /\ crypt_key \in Key /\ crypt_keylen \in KeyLen /\ stores = 0
  /\ tfm = NULL
  /\ data = [u \in 0 .. Size - 1 |-> [key |-> NULL, val |-> Junk]]
  /\ rq = [r \in Request |-> NoRq] /\ req = NULL /\ pc = "idle"
  /\ oops = "no"

-----------------------------------------------------------------------------
(* sbd_crypt_init.  Each of its calls succeeds, or jumps to out, which only *)
(* frees Device.data.                                                       *)

Goto(m, h) == mod' = m /\ held' = h

InitData ==
  /\ mod = "start"
  /\ \/ Size > 0 /\ Goto("queue", {"data"})
     \/ Goto("failed", {})
  /\ UNCHANGED <<major_num, opened, params, tfm, data, driver, oops>>

InitQueue ==
  /\ mod = "queue"
  /\ Goto("major", held \cup {"queue"}) \/ Goto("failed", held \ {"data"})
  /\ UNCHANGED <<major_num, opened, params, tfm, data, driver, oops>>

\* register_blkdev returns the number it has chosen if it was given 0, and 0 if
\* it was given a number.
InitMajor ==
  /\ mod = "major"
  /\ \/ Goto("cipher", held \cup {"major"}) /\ major_num' = IF major_num = 0 THEN 1 ELSE 0
     \/ Goto("failed", held \ {"data"}) /\ UNCHANGED major_num
  /\ UNCHANGED <<opened, params, tfm, data, driver, oops>>

\* What crypto_cipher_setkey may leave in the cipher.  Its result is not tested:
\* with a length that AES refuses the key stays what it was.  A string that
\* sysfs has freed may contain anything.
SetKey ==
  IF crypt_keylen \in ValidLen
  THEN {<<k, crypt_keylen>> : k \in IF crypt_key = NULL THEN Key ELSE {crypt_key}}
  ELSE {tfm}

\* crypto_alloc_cipher returns an error pointer if it fails, which is not what
\* the code tests for, and setkey dereferences it.
InitCipher ==
  /\ mod = "cipher"
  /\ \/ /\ Goto("disk", held \cup {"cipher"})
        /\ tfm' \in SetKey
        /\ UNCHANGED oops
     \/ /\ oops' = "errptr"
        /\ UNCHANGED <<mod, held, tfm>>
  /\ UNCHANGED <<major_num, opened, params, data, driver>>

\* unregister_blkdev(major_num) finds nothing to unregister if major_num is 0.
Unregister(h) == IF major_num # 0 THEN h \ {"major"} ELSE h

\* Mutant of InitDisk: a failure of alloc_disk jumps to out.
InitDiskNoUnregister ==
  /\ mod = "disk"
  /\ Goto("live", held \cup {"gd"}) \/ Goto("failed", held \ {"data"})
  /\ UNCHANGED <<major_num, opened, params, tfm, data, driver, oops>>

\* alloc_disk and add_disk.
InitDisk ==
  /\ mod = "disk"
  /\ Goto("live", held \cup {"gd"}) \/ Goto("failed", Unregister(held) \ {"data"})
  /\ UNCHANGED <<major_num, opened, params, tfm, data, driver, oops>>

-----------------------------------------------------------------------------
(* The disk is opened and closed, and parameters are stored in sysfs.  The *)
(* scan for partitions in add_disk is one of those who open it.            *)

\* The owner of sbd_crypt_ops is this module: the kernel counts those who have the
\* disk open as users of the module, and lets nobody in when it is going.
ModuleGet == mod = "live"
\* Mutant of MayUnload: no .owner.
MayUnloadAnyTime == TRUE
MayUnload == ~opened

Open ==
  /\ ModuleGet /\ ~opened
  /\ opened' = TRUE
  /\ UNCHANGED <<mod, held, major_num, params, tfm, data, driver, oops>>

\* The last close waits for all requests.
Close ==
  /\ opened /\ \A r \in Request : rq[r].state = "free"
  /\ opened' = FALSE
  /\ UNCHANGED <<mod, held, major_num, params, tfm, data, driver, oops>>

\* The files of the parameters are there from before the initialisation until the
\* module is gone.
Loaded == mod \notin {"failed", "unloaded"}

\* crypt_key is freed before it is set to the new string.
FreeKey ==
  /\ Loaded /\ crypt_key # NULL /\ stores < MaxStores
  /\ crypt_key' = NULL /\ stores' = stores + 1
  /\ UNCHANGED <<module, crypt_keylen, tfm, data, driver, oops>>

StoreKey(k) ==
  /\ Loaded /\ crypt_key = NULL
  /\ crypt_key' = k
  /\ UNCHANGED <<module, crypt_keylen, stores, tfm, data, driver, oops>>

StoreLen(n) ==
  /\ Loaded /\ stores < MaxStores
  /\ crypt_keylen' = n /\ stores' = stores + 1
  /\ UNCHANGED <<module, crypt_key, tfm, data, driver, oops>>

-----------------------------------------------------------------------------
(* sbd_crypt_request and sbd_crypt_transfer. *)

\* set_capacity: the block layer lets no request through that goes beyond.
Capacity == nsectors

SubmitRq(r, new) ==
  /\ opened /\ pc = "idle" /\ rq[r] = NoRq
  /\ rq' = [rq EXCEPT ![r] = new]
  /\ UNCHANGED <<module, params, tfm, data, req, pc, oops>>

Submit(r, pos, n, cur, write, val) ==
  /\ pos + n <= Capacity
  /\ SubmitRq(r, [NoRq EXCEPT !.state = "queued", !.pos = pos, !.left = n, !.cur = cur,
                              !.write = write, !.val = val])

\* A request that is not REQ_TYPE_FS.
SubmitOther(r) == SubmitRq(r, [NoRq EXCEPT !.state = "queued", !.fs = FALSE])

Queued(s) == {r \in Request : s[r].state = "queued"}

\* req = blk_fetch_request(q), s being the requests before; NULL ends the loop.
Fetch(s) ==
  \/ \E r \in Queued(s) :
       req' = r /\ pc' = "check" /\ rq' = [s EXCEPT ![r].state = "started"]
  \/ Queued(s) = {} /\ req' = NULL /\ pc' = "idle" /\ rq' = s

\* The block layer calls sbd_crypt_request.
Run ==
  /\ pc = "idle" /\ Queued(rq) # {}
  /\ Fetch(rq)
  /\ UNCHANGED <<module, params, tfm, data, oops>>

\* A request that is not for the file system is ended, and the loop goes on with it.
Refuse ==
  /\ pc = "check" /\ ~rq[req].fs
  /\ rq' = [rq EXCEPT ![req] = NoRq] /\ pc' = "again"
  /\ UNCHANGED <<module, params, tfm, data, req, oops>>

\* It reads cmd_type of a request that has been given back, and may end it again: what
\* comes of it is not defined, and is not followed.
RefuseAgain ==
  /\ pc = "again"
  /\ oops' = "ended"
  /\ UNCHANGED <<module, params, tfm, data, driver>>

Offset == (rq[req].pos * logical_block_size) % ULONG
Nbytes == (rq[req].cur * logical_block_size) % ULONG
BeyondEnd == (Offset + Nbytes) % ULONG > Size

\* The first part of sbd_crypt_transfer.
Check ==
  /\ pc = "check" /\ rq[req].fs
  /\ IF BeyondEnd THEN pc' = "end" /\ UNCHANGED <<tfm, oops>>
     ELSE IF "cipher" \in held THEN pc' = "copy" /\ tfm' \in SetKey /\ UNCHANGED oops
     ELSE oops' = "freed" /\ UNCHANGED <<pc, tfm>>
  /\ UNCHANGED <<module, params, data, rq, req>>

\* The loop would leave Device.data or the buffer of the request.
Stray == Offset + Nbytes > Size \/ Nbytes > rq[req].cur * SECTOR

Encrypt(k, v) == [key |-> k, val |-> v]
Decrypt(k, c) == IF c.key = k THEN c.val ELSE Junk

\* Mutant of Transfer: the last block is left out.
TransferShort ==
  IF rq[req].write
  THEN /\ data' = [u \in DOMAIN data |->
                     IF u \in Offset .. Offset + Nbytes - 2
                     THEN Encrypt(tfm, rq[req].val) ELSE data[u]]
       /\ UNCHANGED rq
  ELSE /\ rq' = [rq EXCEPT ![req].got = @ \o
                   [i \in 1 .. Nbytes |-> Decrypt(tfm, data[Offset + i - 1])]]
       /\ UNCHANGED data

\* The two loops.
Transfer ==
  IF rq[req].write
  THEN /\ data' = [u \in DOMAIN data |->
                     IF u \in Offset .. Offset + Nbytes - 1
                     THEN Encrypt(tfm, rq[req].val) ELSE data[u]]
       /\ UNCHANGED rq
  ELSE /\ rq' = [rq EXCEPT ![req].got = @ \o
                   [i \in 1 .. Nbytes |-> Decrypt(tfm, data[Offset + i - 1])]]
       /\ UNCHANGED data

\* The second part.  At its end the bytes at dest are printed, which is declared
\* u8, not u8 *: the lowest byte of an address, where nothing may be mapped.
Copy ==
  /\ pc = "copy"
  /\ IF "cipher" \in held /\ ~Stray
     THEN Transfer /\ pc' = "end" /\ oops' \in {"no", "print"}
     ELSE /\ oops' = IF Stray THEN "stray" ELSE "freed"
          /\ UNCHANGED <<pc, rq, data>>
  /\ UNCHANGED <<module, params, tfm, req>>

\* What is left of q after its current segment, the next one being of n sectors.
Rest(q, n) == [q EXCEPT !.pos = @ + q.cur, !.left = @ - q.cur, !.cur = n]

\* Mutant of End: the result of __blk_end_request_cur is taken for its opposite.
EndInverted ==
  LET left == rq[req].left - rq[req].cur
  IN  /\ pc = "end"
      /\ \/ /\ left > 0
            /\ \E n \in 1 .. left : Fetch([rq EXCEPT ![req] = Rest(rq[req], n)])
         \/ /\ left = 0
            /\ rq' = [rq EXCEPT ![req] = NoRq]
            /\ pc' = "check" /\ UNCHANGED req
      /\ UNCHANGED <<module, params, tfm, data, oops>>

\* Mutant of End: one request for every call of the request function.
EndReturns ==
  LET left == rq[req].left - rq[req].cur
  IN  /\ pc = "end"
      /\ \/ /\ left > 0
            /\ \E n \in 1 .. left : rq' = [rq EXCEPT ![req] = Rest(rq[req], n)]
            /\ pc' = "check" /\ UNCHANGED req
         \/ /\ left = 0
            /\ rq' = [rq EXCEPT ![req] = NoRq]
            /\ pc' = "idle" /\ req' = NULL
      /\ UNCHANGED <<module, params, tfm, data, oops>>

\* __blk_end_request_cur: the current segment is done, the next one is as long as
\* it may be, and with the last one the request is done.
End ==
  LET left == rq[req].left - rq[req].cur
  IN  /\ pc = "end"
      /\ \/ /\ left > 0
            /\ \E n \in 1 .. left : rq' = [rq EXCEPT ![req] = Rest(rq[req], n)]
            /\ pc' = "check" /\ UNCHANGED req
         \/ /\ left = 0
            /\ Fetch([rq EXCEPT ![req] = NoRq])
      /\ UNCHANGED <<module, params, tfm, data, oops>>

-----------------------------------------------------------------------------
(* sbd_crypt_exit.  It does not free Device.data. *)

ExitCipher ==
  /\ mod = "live" /\ MayUnload
  /\ Goto("exit", held \ {"cipher"})
  /\ UNCHANGED <<major_num, opened, params, tfm, data, driver, oops>>

\* del_gendisk
ExitDisk ==
  /\ mod = "exit"
  /\ Goto("deleted", held)
  /\ UNCHANGED <<major_num, opened, params, tfm, data, driver, oops>>

\* put_disk, unregister_blkdev and blk_cleanup_queue
ExitRest ==
  /\ mod = "deleted"
  /\ Goto("unloaded", Unregister(held) \ {"gd", "queue"})
  /\ UNCHANGED <<major_num, opened, params, tfm, data, driver, oops>>

-----------------------------------------------------------------------------
Module ==
  InitData \/ InitQueue \/ InitMajor \/ InitCipher \/ InitDisk
    \/ ExitCipher \/ ExitDisk \/ ExitRest

User ==
  \/ Open \/ Close \/ FreeKey
  \/ \E k \in Key : StoreKey(k)
  \/ \E n \in KeyLen : StoreLen(n)
  \/ \E r \in Request :
       \/ SubmitOther(r)
       \/ \E pos \in 0 .. nsectors, n \in 1 .. nsectors : \E cur \in 1 .. n :
            \/ Submit(r, pos, n, cur, FALSE, Junk)
            \/ \E v \in Val : Submit(r, pos, n, cur, TRUE, v)

Driver == Run \/ Refuse \/ RefuseAgain \/ Check \/ Copy \/ End

Next == oops = "no" /\ (Module \/ User \/ Driver)

Spec == Init /\ [][Next]_vars

\* The block layer calls the request function when there are requests, and it
\* goes on.
FairSpec == Spec /\ WF_vars(oops = "no" /\ Driver)

-----------------------------------------------------------------------------
\* No transfer uses the cipher after crypto_free_cipher, although the exit frees
\* it before it removes the disk, and none leaves the device or the buffer.
UsesAreLive == oops \notin {"freed", "stray"}

\* The requests that have been fetched and not ended are the one that the loop is
\* dealing with: it drops none halfway, and goes on with none that it has ended,
\* unless that was not for the file system.
StartedIsCurrent ==
  \A r \in Request :
    rq[r].state = "started" <=> pc \in {"check", "copy", "end"} /\ req = r

\* What initialisation and exit leave behind, if they fail or not: never a disk
\* without memory, after an exit only the memory (and a major number that was
\* given as a parameter).
LeftBehind ==
  /\ "gd" \in held => {"data", "queue", "major"} \subseteq held
  /\ mod = "live" => "cipher" \in held
  /\ mod = "failed" => /\ held \cap {"data", "gd"} = {}
                       /\ "cipher" \in held /\ MajorParam = 0 => "major" \notin held
  /\ mod = "unloaded" => held \subseteq {"data"} \cup IF MajorParam = 0 THEN {} ELSE {"major"}

\* Every request is ended, since the lock is not given back before, unless the
\* kernel oopses.
Served == \A r \in Request : rq[r].state = "queued" ~> rq[r].state = "free" \/ oops # "no"

\* What is still to be done for a request: the segment just copied is not.
Job(q, copied) ==
  IF q.state = "free" THEN [state |-> "none"]
  ELSE [state |-> "begun", fs |-> q.fs, write |-> q.write, val |-> q.val, got |-> q.got,
        pos |-> IF copied THEN q.pos + q.cur ELSE q.pos, end |-> q.pos + q.left]

JobOf(r) == Job(rq[r], pc = "end" /\ req = r)

Disk == INSTANCE EncryptedDisk
  WITH disk <- data, key <- tfm, job <- [r \in Request |-> JobOf(r)]

\* The module implements an encrypted disk: every segment of a request is carried
\* out once, on its own sectors, under one key, even if the parameters change
\* meanwhile, before the request is reported as done.
ImplementsDisk == Disk!Spec
=============================================================================
