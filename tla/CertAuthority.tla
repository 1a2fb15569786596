---------------------------- MODULE CertAuthority ----------------------------
(***************************************************************************)
(* The internal certificate authority (internal/ws/ca): the root and the   *)
(* serial numbers, the revocation cache over the JSON file of FileStorage, *)
(* and the process that starts, is killed and starts again.                *)
(*                                                                         *)
(* Handshakes ask IsRevoked and operators call Revoke at the same time, so *)
(* the look-up in the cache, the file operations under s.mu and the write  *)
(* back to the cache are actions of their own.  A write goes through a     *)
(* temporary file and a rename: the file is the old document or the new    *)
(* one whenever the process is killed.                                     *)
(***************************************************************************)
EXTENDS Naturals, FiniteSets

CONSTANTS Checks,      \* goroutines that call IsRevoked
          Revokers,    \* goroutines that call Revoke
          MaxSerial,   \* bound on the serial numbers of one run
          MaxStarts,   \* bound on the starts of the process
          None

ASSUME CaAssumption ==
  /\ Checks \cap Revokers = {}
  /\ None \notin Checks \cup Revokers
  /\ MaxSerial \in Nat \ {0}
  /\ MaxStarts \in Nat \ {0}

Callers == Checks \cup Revokers
Serials == 1 .. MaxSerial
NoRoot  == 0

\* fileStoreData.  A missing file and a first write stand for the empty one.
Document == [root : Nat, revoked : SUBSET Serials]
Empty    == [root |-> NoRoot, revoked |-> {}]

VARIABLES up,        \* the server runs
          starts,    \* how often it was started
          root,      \* ca.rootCert and rootKey
          serial,    \* ca.serial
          issued,    \* serials of the certificates agents hold
          cache,     \* ca.revoked
          disk,      \* the file
          mu,        \* FileStorage.mu: the revoker that holds it
          pc,        \* where a caller is
          of,        \* the serial it is about
          read,      \* what it has read from the file
          revoking,  \* serials Revoke was ever called with
          promised,  \* serials for which Revoke has returned nil
          misread    \* a document was made anew because a read failed

caVars   == <<root, serial, issued>>
callVars == <<pc, of, read>>
history  == <<revoking, promised>>
vars == <<up, starts, caVars, cache, disk, mu, callVars, history, misread>>

TypeOK ==
  /\ up \in BOOLEAN /\ misread \in BOOLEAN
  /\ starts \in 0 .. MaxStarts
  /\ root \in Nat
  /\ serial \in 0 .. MaxSerial
  /\ up => serial >= 1
  /\ issued \subseteq Serials \ {1}
  /\ cache \in [Serials -> {"absent", "valid", "revoked"}]
  /\ disk \in Document
  /\ mu \in Revokers \cup {None}
  /\ pc \in [Callers -> {"idle", "lookup", "keep", "add", "write"}]
  /\ of \in [Callers -> Serials]
  /\ read \in [Callers -> Document]
  /\ revoking \subseteq Serials
  /\ promised \subseteq Serials

Init ==
  /\ up = FALSE /\ misread = FALSE
  /\ starts = 0
  /\ root = NoRoot
  /\ serial = 0
  /\ issued = {}
  /\ cache = [s \in Serials |-> "absent"]
  /\ disk = Empty
  /\ mu = None
  /\ pc = [p \in Callers |-> "idle"]
  /\ of = [p \in Callers |-> 1]
  /\ read = [p \in Callers |-> Empty]
  /\ revoking = {}
  /\ promised = {}

Goto(p, l) == pc' = [pc EXCEPT ![p] = l]

\* The locals of a call end with it.
Return(p) ==
  /\ Goto(p, "idle")
  /\ of' = [of EXCEPT ![p] = 1]
  /\ read' = [read EXCEPT ![p] = Empty]

SetCache(s, v) == cache' = [cache EXCEPT ![s] = v]

-----------------------------------------------------------------------------
(* The process.                                                            *)

\* LoadRootCA finds a root: loadRoot, and loadRevoked loads nothing.
LoadRoot ==
  /\ disk.root # NoRoot
  /\ root' = disk.root
  /\ UNCHANGED <<disk, misread>>

\* Mutation: the error of StoreRootCA is ignored.
StoreRoot_ErrorIgnored ==
  \E first, second, stored \in BOOLEAN :
    /\ disk.root # NoRoot => ~first
    /\ root' = starts + 1
    /\ disk' = IF ~stored THEN disk
               ELSE [IF second THEN disk ELSE Empty EXCEPT !.root = starts + 1]
    /\ misread' = (misread \/ (disk # Empty /\ ~(first /\ second)))

\* LoadRootCA finds no root, or fails: a new one is stored in what StoreRootCA
\* reads, or in an empty document.  first, second: the reads succeed.
StoreRoot ==
  \E first, second \in BOOLEAN :
    /\ disk.root # NoRoot => ~first
    /\ root' = starts + 1
    /\ disk' = [IF second THEN disk ELSE Empty EXCEPT !.root = starts + 1]
    /\ misread' = (misread \/ (disk # Empty /\ ~(first /\ second)))

\* Mutation: the server's own certificate takes no serial.
Start_NoSerial ==
  /\ ~up
  /\ starts < MaxStarts
  /\ LoadRoot \/ StoreRoot
  /\ up' = TRUE
  /\ starts' = starts + 1
  /\ serial' = 0
  /\ cache' = [s \in Serials |-> "absent"]
  /\ UNCHANGED <<issued, mu, callVars, history>>

\* New: GenerateRoot, then SignServerCert takes the first serial.
Start ==
  /\ ~up
  /\ starts < MaxStarts
  /\ LoadRoot \/ StoreRoot
  /\ up' = TRUE
  /\ starts' = starts + 1
  /\ serial' = 1
  /\ cache' = [s \in Serials |-> "absent"]
  /\ UNCHANGED <<issued, mu, callVars, history>>

\* The file cannot be written: New returns the error and the process ends.
StartFails ==
  /\ ~up
  /\ starts < MaxStarts
  /\ starts' = starts + 1
  /\ UNCHANGED <<up, caVars, cache, disk, mu, callVars, history, misread>>

\* The process is killed, and every call with it.
Crash ==
  /\ up
  /\ up' = FALSE
  /\ mu' = None
  /\ pc' = [p \in Callers |-> "idle"]
  /\ of' = [p \in Callers |-> 1]
  /\ read' = [p \in Callers |-> Empty]
  /\ UNCHANGED <<starts, caVars, cache, disk, history, misread>>

\* SignCSR: the next serial of this run, whatever earlier runs have issued.
SignCSR ==
  /\ up
  /\ serial < MaxSerial
  /\ serial' = serial + 1
  /\ issued' = issued \cup {serial + 1}
  /\ UNCHANGED <<up, starts, root, cache, disk, mu, callVars, history, misread>>

-----------------------------------------------------------------------------
(* IsRevoked.                                                              *)

\* Answered from the cache, which changes nothing, or on to the file.
CheckCache(c, s) ==
  /\ up
  /\ pc[c] = "idle"
  /\ s \in issued
  /\ cache[s] = "absent"
  /\ of' = [of EXCEPT ![c] = s]
  /\ Goto(c, "lookup")
  /\ UNCHANGED <<up, starts, caVars, cache, disk, mu, read, history, misread>>

\* Mutation: a file that cannot be read revokes everything.
Lookup_FailClosed(c) ==
  /\ pc[c] = "lookup"
  /\ mu = None
  /\ \E d \in {disk, [Empty EXCEPT !.revoked = Serials]} : read' = [read EXCEPT ![c] = d]
  /\ Goto(c, "keep")
  /\ UNCHANGED <<up, starts, caVars, cache, disk, mu, of, history, misread>>

\* FileStorage.IsRevoked: a file that cannot be read revokes nothing.
Lookup(c) ==
  /\ pc[c] = "lookup"
  /\ mu = None
  /\ \E d \in {disk, Empty} : read' = [read EXCEPT ![c] = d]
  /\ Goto(c, "keep")
  /\ UNCHANGED <<up, starts, caVars, cache, disk, mu, of, history, misread>>

\* The answer, cached over whatever Revoke has cached meanwhile.
Keep(c) ==
  /\ pc[c] = "keep"
  /\ SetCache(of[c], IF of[c] \in read[c].revoked THEN "revoked" ELSE "valid")
  /\ Return(c)
  /\ UNCHANGED <<up, starts, caVars, disk, mu, history, misread>>

-----------------------------------------------------------------------------
(* Revoke.                                                                 *)

CacheRevoked(r, s) ==
  /\ up
  /\ pc[r] = "idle"
  /\ s \in issued
  /\ of' = [of EXCEPT ![r] = s]
  /\ SetCache(s, "revoked")
  /\ revoking' = revoking \cup {s}
  /\ Goto(r, "add")
  /\ UNCHANGED <<up, starts, caVars, disk, mu, read, promised, misread>>

\* Revoke returns nil.
Promise(r) == promised' = promised \cup {of[r]}

\* Mutation: AddRevoked does not take s.mu.
ReadDocument_Unlocked(r) ==
  /\ pc[r] = "add"
  /\ \E d \in {disk, Empty} :
       /\ misread' = (misread \/ d # disk)
       /\ IF of[r] \in d.revoked
          THEN Promise(r) /\ Return(r) /\ UNCHANGED mu
          ELSE /\ mu' = r
               /\ read' = [read EXCEPT ![r] = d]
               /\ Goto(r, "write")
               /\ UNCHANGED <<of, promised>>
  /\ UNCHANGED <<up, starts, caVars, cache, disk, revoking>>

\* AddRevoked reads the file, or begins an empty document when it cannot; it
\* returns at once for a serial that is there.
ReadDocument(r) ==
  /\ pc[r] = "add"
  /\ mu = None
  /\ \E d \in {disk, Empty} :
       /\ misread' = (misread \/ d # disk)
       /\ IF of[r] \in d.revoked
          THEN Promise(r) /\ Return(r) /\ UNCHANGED mu
          ELSE /\ mu' = r
               /\ read' = [read EXCEPT ![r] = d]
               /\ Goto(r, "write")
               /\ UNCHANGED <<of, promised>>
  /\ UNCHANGED <<up, starts, caVars, cache, disk, revoking>>

\* Mutation: the lock is kept when the write fails.
WriteDocument_KeepsLock(r) ==
  /\ pc[r] = "write"
  /\ \/ /\ disk' = [read[r] EXCEPT !.revoked = @ \cup {of[r]}]
        /\ Promise(r)
        /\ mu' = None
     \/ UNCHANGED <<disk, promised, mu>>
  /\ Return(r)
  /\ UNCHANGED <<up, starts, caVars, cache, revoking, misread>>

\* It writes the document and renames it into place, or reports that it could not.
WriteDocument(r) ==
  /\ pc[r] = "write"
  /\ \/ disk' = [read[r] EXCEPT !.revoked = @ \cup {of[r]}] /\ Promise(r)
     \/ UNCHANGED <<disk, promised>>
  /\ mu' = None
  /\ Return(r)
  /\ UNCHANGED <<up, starts, caVars, cache, revoking, misread>>

Next ==
  \/ Start \/ StartFails \/ Crash \/ SignCSR
  \/ \E c \in Checks : (\E s \in Serials : CheckCache(c, s)) \/ Lookup(c) \/ Keep(c)
  \/ \E r \in Revokers :
       (\E s \in Serials : CacheRevoked(r, s)) \/ ReadDocument(r) \/ WriteDocument(r)

Spec == Init /\ [][Next]_vars

\* Goroutines are scheduled and file operations return; a sync.Mutex hands itself to
\* whoever has waited too long, hence strong fairness for those who wait for s.mu.
FairSpec ==
  /\ Spec
  /\ \A c \in Checks   : SF_vars(Lookup(c)) /\ WF_vars(Keep(c))
  /\ \A r \in Revokers : SF_vars(ReadDocument(r)) /\ WF_vars(WriteDocument(r))

-----------------------------------------------------------------------------
(* Properties.                                                             *)

\* A serial for which Revoke has returned nil is in the file, through crashes and
\* concurrent revocations, unless a document was made anew after a failed read
\* (AddRevoked, StoreRootCA).
PromisedIsStored == misread \/ promised \subseteq disk.revoked

\* Nobody is refused by IsRevoked, now or after a restart, whose serial was never
\* given to Revoke.
RefusedWasRevoked ==
  disk.revoked \cup {s \in Serials : cache[s] = "revoked"} \subseteq revoking

\* A running server signs with the root it will find again when it starts
\* (GenerateRoot, and AddRevoked, which writes the root back).
RootIsStored == up => misread \/ root = disk.root

\* Every call of IsRevoked and Revoke returns, whatever file operation fails: s.mu
\* is given back on every path.
CallsReturn == \A p \in Callers : pc[p] # "idle" ~> pc[p] = "idle"

==============================================================================
