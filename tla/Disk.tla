-------------------------------- MODULE Disk ---------------------------------
(***************************************************************************)
(* The block layer: kernel/fs/blockdev, which picks NVMe or ATA once at    *)
(* boot, kernel/fs/nvme with its submission and completion rings, and      *)
(* kernel/fs/ata.  Every wait is a bounded spin.  The driver's globals are *)
(* not protected: a kernel task that polls can be preempted by another     *)
(* caller, which DiskOverlap lets happen; a system call cannot.            *)
(*                                                                         *)
(* The controller (external) takes submitted commands in any order, moves  *)
(* their data and posts a completion with the phase of its current pass.   *)
(***************************************************************************)
EXTENDS Naturals, FiniteSets

CONSTANTS
  DiskUsers, Sectors,
  QUEUE_DEPTH,
  DiskOverlap,      \* callers may be preempted by callers
  MaxTimeouts,      \* bound: waits that run out
  MaxCommands       \* bound: commands issued

VARIABLES
  probe,       \* how far blockdev_init() is: a stage, "nvme" or "ata"
  asq, acq,    \* admin ring: tail, head and phase; completions
  iosq, iocq,  \* I/O ring: tail, head and phase; completions
  inflight,    \* commands the controller has not completed
  posted,      \* the controller's own completion index and phase
  ata,         \* the ATA registers: drive select and LBA, and the command
  caller,      \* each caller: pc, operation, sector, result, ghost served
  issued, timeouts, late

dvars == <<probe, asq, acq, iosq, iocq, inflight, posted, ata, caller, issued,
           timeouts, late>>

Ring == [tail |-> 0, head |-> 0, phase |-> 1]
Blank == [i \in 0 .. QUEUE_DEPTH - 1 |-> [phase |-> 0, ok |-> TRUE]]
Idle == [pc |-> "idle", op |-> "read", lba |-> CHOOSE l \in Sectors : TRUE,
         ok |-> TRUE, served |-> FALSE]
NoAta == [lba |-> CHOOSE l \in Sectors : TRUE, cmd |-> "none"]

DiskInit ==
  /\ probe = "reset"
  /\ asq = Ring /\ acq = Blank
  /\ iosq = Ring /\ iocq = Blank
  /\ inflight = {} /\ posted = [index |-> 0, phase |-> 1]
  /\ ata = NoAta
  /\ caller = [c \in DiskUsers |-> Idle]
  /\ issued = 0 /\ timeouts = 0 /\ late = FALSE

\* Ring indices and phases stay in range.
DiskTypeOK ==
  /\ probe \in {"reset", "enable", "create_cq", "create_sq", "nvme", "ata"}
  /\ \A r \in {asq, iosq} : /\ r.tail \in 0 .. QUEUE_DEPTH - 1
                            /\ r.head \in 0 .. QUEUE_DEPTH - 1
                            /\ r.phase \in 0 .. 1
  /\ \A c \in DiskUsers : caller[c].pc \in
       {"idle", "nvme", "command", "transfer", "flush", "done"}

-----------------------------------------------------------------------------
(***************************************************************************)
(* nvme_init(): reset, enable, create both queues through the admin ring.  *)
(* Whatever fails, the system uses ATA.                                    *)
(***************************************************************************)
FallBack ==
  /\ probe \notin {"nvme", "ata"}
  /\ probe' = "ata"
  /\ UNCHANGED <<asq, acq, iosq, iocq, inflight, posted, ata, caller, issued,
                 timeouts, late>>

nvme_wait_ready ==
  /\ probe \in {"reset", "enable"}
  /\ probe' = IF probe = "reset" THEN "enable" ELSE "create_cq"
  /\ UNCHANGED <<asq, acq, iosq, iocq, inflight, posted, ata, caller, issued,
                 timeouts, late>>

\* A ring after its head's completion is taken.
Taken(r) ==
  LET h == (r.head + 1) % QUEUE_DEPTH IN
  [r EXCEPT !.head = h, !.phase = IF h = 0 THEN 1 - @ ELSE @]

\* nvme_submit_admin() with the controller's answer: the command is put at
\* the tail, the completion is found at the head, in the driver's phase.
nvme_submit_admin ==
  LET c == [acq EXCEPT ![asq.head] = [phase |-> asq.phase, ok |-> TRUE]] IN
  /\ probe \in {"create_cq", "create_sq"}
  /\ acq' = c
  /\ asq' = Taken([asq EXCEPT !.tail = (@ + 1) % QUEUE_DEPTH])
  /\ probe' = IF probe = "create_cq" THEN "create_sq" ELSE "nvme"
  /\ UNCHANGED <<iosq, iocq, inflight, posted, ata, caller, issued, timeouts,
                 late>>

-----------------------------------------------------------------------------
Busy(c) == caller[c].pc \notin {"idle", "done"}
MayStart(c) ==
  /\ ~Busy(c) /\ issued < MaxCommands
  /\ DiskOverlap \/ \A d \in DiskUsers : ~Busy(d)
Goes(c, pc) == caller' = [caller EXCEPT ![c].pc = pc]
Returns(c, ok) == caller' = [caller EXCEPT ![c].pc = "done", ![c].ok = ok]

\* nvme_io_command() up to the doorbell.
nvme_submit(c, op, l) ==
  /\ probe = "nvme" /\ MayStart(c)
  /\ caller' = [caller EXCEPT ![c] = [pc |-> "nvme", op |-> op, lba |-> l,
                                      ok |-> TRUE, served |-> FALSE]]
  /\ inflight' = inflight \cup {[by |-> c, id |-> issued, lba |-> l]}
  /\ iosq' = [iosq EXCEPT !.tail = (@ + 1) % QUEUE_DEPTH]
  /\ issued' = issued + 1
  /\ UNCHANGED <<probe, asq, acq, iocq, posted, ata, timeouts, late>>

\* (External.)  The controller carries out a command, with or without error.
\* Data for a caller that has given up still moves.
Complete(k, ok) ==
  LET i == posted.index IN
  /\ k \in inflight
  /\ inflight' = inflight \ {k}
  /\ iocq' = [iocq EXCEPT ![i] = [phase |-> posted.phase, ok |-> ok]]
  /\ posted' = [index |-> (i + 1) % QUEUE_DEPTH,
                phase |-> IF (i + 1) % QUEUE_DEPTH = 0 THEN 1 - posted.phase
                          ELSE posted.phase]
  /\ caller' = [caller EXCEPT ![k.by].served =
                  @ \/ (ok /\ \A j \in inflight : j.by = k.by => j.id <= k.id)]
  /\ UNCHANGED <<probe, asq, acq, iosq, ata, issued, timeouts, late>>

\* (Mutant.) The phase is not flipped when the head wraps.
nvme_poll_phaseless(c) ==
  /\ caller[c].pc = "nvme"
  /\ iocq[iosq.head].phase = iosq.phase
  /\ Returns(c, iocq[iosq.head].ok)
  /\ iosq' = [iosq EXCEPT !.head = (@ + 1) % QUEUE_DEPTH]
  /\ UNCHANGED <<probe, asq, acq, iocq, inflight, posted, ata, issued,
                 timeouts, late>>

\* A turn of the loop that finds the phase at the head: the completion is
\* taken, whichever command it is for.
nvme_poll(c) ==
  /\ caller[c].pc = "nvme"
  /\ iocq[iosq.head].phase = iosq.phase
  /\ Returns(c, iocq[iosq.head].ok)
  /\ iosq' = Taken(iosq)
  /\ UNCHANGED <<probe, asq, acq, iocq, inflight, posted, ata, issued,
                 timeouts, late>>

-----------------------------------------------------------------------------
(***************************************************************************)
(* ATA: select drive and LBA, issue the command, move 256 words, and flush *)
(* after a write.                                                          *)
(***************************************************************************)
ata_setup(c, op, l) ==
  /\ probe = "ata" /\ MayStart(c)
  /\ caller' = [caller EXCEPT ![c] = [pc |-> "command", op |-> op, lba |-> l,
                                      ok |-> TRUE, served |-> FALSE]]
  /\ ata' = [ata EXCEPT !.lba = l]
  /\ issued' = issued + 1
  /\ UNCHANGED <<probe, asq, acq, iosq, iocq, inflight, posted, timeouts, late>>

ata_command(c) ==
  /\ caller[c].pc = "command"
  /\ ata' = [ata EXCEPT !.cmd = caller[c].op]
  /\ Goes(c, "transfer")
  /\ UNCHANGED <<probe, asq, acq, iosq, iocq, inflight, posted, issued,
                 timeouts, late>>

\* The data moved is that of the sector and command in the registers.
ata_transfer(c) ==
  /\ caller[c].pc = "transfer"
  /\ caller' = [caller EXCEPT
       ![c].served = ata = [lba |-> caller[c].lba, cmd |-> caller[c].op],
       ![c].pc = IF caller[c].op = "write" THEN "flush" ELSE "done"]
  /\ UNCHANGED <<probe, asq, acq, iosq, iocq, inflight, posted, ata, issued,
                 timeouts, late>>

ata_flush(c) ==
  /\ caller[c].pc = "flush"
  /\ Goes(c, "done")
  /\ UNCHANGED <<probe, asq, acq, iosq, iocq, inflight, posted, ata, issued,
                 timeouts, late>>

\* Any of the bounded spins runs out, or DRQ comes with an error: the call
\* fails.  An NVMe command or its completion stays behind.
SpinsOut(c) ==
  /\ Busy(c) /\ timeouts < MaxTimeouts
  /\ timeouts' = timeouts + 1
  /\ late' = (late \/ caller[c].pc = "nvme")
  /\ Returns(c, FALSE)
  /\ UNCHANGED <<probe, asq, acq, iosq, iocq, inflight, posted, ata, issued>>

DiskNext ==
  \/ FallBack \/ nvme_wait_ready \/ nvme_submit_admin
  \/ \E c \in DiskUsers :
       \/ \E op \in {"read", "write"}, l \in Sectors :
            nvme_submit(c, op, l) \/ ata_setup(c, op, l)
       \/ nvme_poll(c) \/ ata_command(c) \/ ata_transfer(c) \/ ata_flush(c)
       \/ SpinsOut(c)
  \/ \E k \in inflight, ok \in BOOLEAN : Complete(k, ok)

DiskSpec == DiskInit /\ [][DiskNext]_dvars

-----------------------------------------------------------------------------
\* A call that returns true moved the data of its own sector: as long as no
\* call overtook another and no NVMe wait ran out, the
\* completion found at the head is the caller's, across every wrap of the
\* ring and flip of the phase.
OkMeansServed ==
  ~late => \A c \in DiskUsers :
             caller[c].pc = "done" /\ caller[c].ok => caller[c].served

\* nvme.c: "this driver is always exactly one command in flight".
OneCommandInFlight == Cardinality(inflight) <= 1

=============================================================================
