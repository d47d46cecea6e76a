-------------------------------- MODULE Disk --------------------------------
(***************************************************************************)
(* What fs/fat32_vfs.c relies on when it calls ahci_read_sectors and       *)
(* ahci_write_sectors: one request at a time, nothing moves between disk   *)
(* and memory except for it, and a result of 0 means that all of it has    *)
(* moved.  A request whose time ran out ends the promise (broken).         *)
(***************************************************************************)
EXTENDS Integers

CONSTANTS
  Sector,   \* 0 .. n
  Buffer,
  Value,    \* contents of a sector
  Idle      \* no request

VARIABLES
  disk,     \* sector -> value
  mem,      \* buffer -> place of a sector in it -> value
  call,     \* the request under way, or Idle
  ret,      \* result of the last one
  broken    \* some request outlived its time

vars == <<disk, mem, call, ret, broken>>

Request == {r \in [op : {"read", "write"}, lba : Sector, count : 1 .. 2, buf : Buffer] :
              r.lba + r.count - 1 \in Sector}

Place == 0 .. 1

(* The sectors at the places K of a request's buffer have moved.           *)
DiskAfter(r, K) ==
  [s \in Sector |-> IF r.op = "write" /\ s - r.lba \in K THEN mem[r.buf][s - r.lba]
                    ELSE disk[s]]

MemAfter(r, K) ==
  [b \in Buffer |-> [k \in Place |->
     IF r.op = "read" /\ b = r.buf /\ k \in K THEN disk[r.lba + k] ELSE mem[b][k]]]

Done(r) == \A k \in 0 .. r.count - 1 : mem[r.buf][k] = disk[r.lba + k]

(* The caller uses its buffers between requests.                           *)
Fill(b, k, v) ==
  /\ call = Idle
  /\ mem' = [mem EXCEPT ![b][k] = v]
  /\ UNCHANGED <<disk, call, ret, broken>>

Submit(r) ==
  /\ call = Idle
  /\ call' = r
  /\ UNCHANGED <<disk, mem, ret, broken>>

Transfer(K) ==
  /\ call # Idle /\ K \subseteq 0 .. call.count - 1
  /\ disk' = DiskAfter(call, K)
  /\ mem' = MemAfter(call, K)
  /\ UNCHANGED <<call, ret, broken>>

Return(result) ==
  /\ result = 0 => call # Idle /\ Done(call)
  /\ call' = Idle
  /\ ret' = result
  /\ UNCHANGED <<disk, mem, broken>>

Expire ==
  /\ call # Idle
  /\ broken' = TRUE
  /\ UNCHANGED <<disk, mem, call, ret>>

Init ==
  /\ disk \in [Sector -> Value]
  /\ mem \in [Buffer -> [Place -> Value]]
  /\ call = Idle /\ ret = 0 /\ broken = FALSE

Next ==
  \/ \E b \in Buffer, k \in Place, v \in Value : Fill(b, k, v)
  \/ \E r \in Request : Submit(r)
  \/ \E K \in SUBSET Place : Transfer(K)
  \/ \E result \in {0, -1} : Return(result)
  \/ Expire
  \/ broken /\ broken'

Spec == Init /\ [][Next]_vars
=============================================================================
