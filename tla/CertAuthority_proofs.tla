------------------------- MODULE CertAuthority_proofs -------------------------
(***************************************************************************)
(* Proofs about CertAuthority, for any number of callers, serials and      *)
(* starts.                                                                 *)
(***************************************************************************)
EXTENDS CertAuthority, TLAPS

\* A server that is down runs no call.
DownIsQuiet == ~up => mu = None /\ \A p \in Callers : pc[p] = "idle"

\* Who writes holds s.mu, and its document is the file it read, plus nothing.
WriterHolds ==
  \A r \in Revokers : pc[r] = "write" => mu = r /\ (misread \/ read[r] = disk)

\* What a call has read or is to add was given to Revoke.
Justified ==
  /\ \A p \in Callers : read[p].revoked \subseteq revoking
  /\ \A r \in Revokers : pc[r] \in {"add", "write"} => of[r] \in revoking

Inv ==
  /\ TypeOK
  /\ DownIsQuiet
  /\ WriterHolds
  /\ Justified
  /\ PromisedIsStored
  /\ RefusedWasRevoked
  /\ RootIsStored

LEMMA EmptyIsDocument == Empty \in Document /\ Empty.revoked = {} /\ Empty.root = NoRoot
<1>1. Empty = [root |-> 0, revoked |-> {}]
  BY DEF Empty, NoRoot
<1> QED BY <1>1 DEF Document, NoRoot

LEMMA SerialOne == 1 \in Serials
BY CaAssumption DEF Serials

LEMMA InitInv == Init => Inv
<1> SUFFICES ASSUME Init PROVE Inv
  OBVIOUS
<1> USE DEF Init
<1>1. TypeOK
  <2>1. up \in BOOLEAN /\ misread \in BOOLEAN /\ ~up /\ issued \subseteq Serials \ {1}
        /\ revoking \subseteq Serials /\ promised \subseteq Serials
    OBVIOUS
  <2>2. starts \in 0 .. MaxStarts /\ serial \in 0 .. MaxSerial /\ root \in Nat
    BY CaAssumption DEF NoRoot
  <2>3. cache \in [Serials -> {"absent", "valid", "revoked"}] /\ mu \in Revokers \cup {None}
    OBVIOUS
  <2>4. /\ disk \in Document
        /\ pc \in [Callers -> {"idle", "lookup", "keep", "add", "write"}]
        /\ of \in [Callers -> Serials] /\ read \in [Callers -> Document]
    BY EmptyIsDocument, SerialOne
  <2> HIDE DEF Init
  <2> QED BY <2>1, <2>2, <2>3, <2>4 DEF TypeOK
<1>2. DownIsQuiet /\ WriterHolds /\ Justified
  BY EmptyIsDocument DEF DownIsQuiet, WriterHolds, Justified, Callers
<1>3. PromisedIsStored /\ RefusedWasRevoked /\ RootIsStored
  BY EmptyIsDocument DEF PromisedIsStored, RefusedWasRevoked, RootIsStored
<1> QED BY <1>1, <1>2, <1>3 DEF Inv

-----------------------------------------------------------------------------
(* One lemma per operation.                                                *)

LEMMA ReturnType ==
  ASSUME TypeOK, NEW p \in Callers, Return(p)
  PROVE  /\ pc' \in [Callers -> {"idle", "lookup", "keep", "add", "write"}]
         /\ of' \in [Callers -> Serials]
         /\ read' \in [Callers -> Document]
         /\ pc'[p] = "idle" /\ read'[p] = Empty
         /\ \A q \in Callers \ {p} : pc'[q] = pc[q] /\ of'[q] = of[q] /\ read'[q] = read[q]
BY EmptyIsDocument, SerialOne DEF TypeOK, Return, Goto

LEMMA StartInv == ASSUME Inv, Start PROVE Inv'
<1> USE DEF Inv, Start, callVars, history
<1>1. /\ root' \in Nat /\ disk' \in Document /\ misread' \in BOOLEAN
      /\ misread => misread'
      /\ root' = disk'.root
      /\ disk'.revoked \subseteq disk.revoked
      /\ disk'.revoked = disk.revoked \/ misread'
  <2>1. CASE LoadRoot
    BY <2>1 DEF LoadRoot, TypeOK, Document
  <2>2. CASE StoreRoot
    <3>1. PICK first, second \in BOOLEAN :
            /\ root' = starts + 1
            /\ disk' = [IF second THEN disk ELSE Empty EXCEPT !.root = starts + 1]
            /\ misread' = (misread \/ (disk # Empty /\ ~(first /\ second)))
      BY <2>2 DEF StoreRoot
    <3>2. starts + 1 \in Nat
      BY CaAssumption DEF TypeOK
    <3>3. CASE second
      BY <3>1, <3>2, <3>3 DEF TypeOK, Document
    <3>4. CASE ~second
      <4>1. disk' = [Empty EXCEPT !.root = starts + 1]
        BY <3>1, <3>4
      <4>2. disk'.root = starts + 1 /\ disk'.revoked = {} /\ disk' \in Document
        BY <4>1, <3>2 DEF Empty, Document
      <4>3. disk = Empty \/ misread'
        BY <3>1, <3>4
      <4> QED BY <3>1, <3>2, <4>2, <4>3, EmptyIsDocument DEF TypeOK
    <3> QED BY <3>3, <3>4
  <2> QED BY <2>1, <2>2
<1>2. TypeOK'
  <2>1. serial' = 1 /\ 1 \in 0 .. MaxSerial /\ starts + 1 \in 0 .. MaxStarts
    BY CaAssumption DEF TypeOK
  <2> QED BY <1>1, <2>1 DEF TypeOK
<1>3. DownIsQuiet' /\ WriterHolds' /\ Justified'
  <2>1. \A r \in Revokers : pc[r] = "idle"
    BY DEF DownIsQuiet, Callers
  <2> QED BY <2>1 DEF DownIsQuiet, WriterHolds, Justified
<1>4. PromisedIsStored' /\ RefusedWasRevoked' /\ RootIsStored'
  <2>1. \A s \in Serials : cache'[s] = "absent"
    OBVIOUS
  <2> QED BY <1>1, <2>1 DEF PromisedIsStored, RefusedWasRevoked, RootIsStored
<1> QED BY <1>2, <1>3, <1>4

LEMMA ProcessInv == ASSUME Inv, StartFails \/ Crash \/ SignCSR PROVE Inv'
<1> USE DEF Inv, callVars, history, caVars
<1>1. CASE StartFails
  BY <1>1, CaAssumption DEF StartFails, TypeOK, DownIsQuiet, WriterHolds, Justified, PromisedIsStored,
     RefusedWasRevoked, RootIsStored
<1>2. CASE Crash
  <2>1. TypeOK'
    BY <1>2, EmptyIsDocument, SerialOne DEF Crash, TypeOK
  <2>2. DownIsQuiet' /\ WriterHolds' /\ Justified'
    BY <1>2, EmptyIsDocument DEF Crash, DownIsQuiet, WriterHolds, Justified, Callers
  <2>3. PromisedIsStored' /\ RefusedWasRevoked' /\ RootIsStored'
    BY <1>2 DEF Crash, PromisedIsStored, RefusedWasRevoked, RootIsStored
  <2> QED BY <2>1, <2>2, <2>3
<1>3. CASE SignCSR
  <2>1. serial + 1 \in 0 .. MaxSerial /\ serial + 1 \in Serials \ {1} /\ serial + 1 >= 1
    BY <1>3, CaAssumption DEF SignCSR, TypeOK, Serials
  <2>2. TypeOK'
    BY <1>3, <2>1 DEF SignCSR, TypeOK
  <2>3. /\ DownIsQuiet' /\ WriterHolds' /\ Justified' /\ PromisedIsStored'
        /\ RefusedWasRevoked' /\ RootIsStored'
    BY <1>3 DEF SignCSR, DownIsQuiet, WriterHolds, Justified, PromisedIsStored,
       RefusedWasRevoked, RootIsStored
  <2> QED BY <2>2, <2>3
<1> QED BY <1>1, <1>2, <1>3

LEMMA CheckInv ==
  ASSUME Inv, NEW c \in Checks,
         (\E s \in Serials : CheckCache(c, s)) \/ Lookup(c) \/ Keep(c)
  PROVE  Inv'
<1> USE DEF Inv, callVars, history, caVars
<1>0. c \in Callers /\ c \notin Revokers /\ (~up => pc[c] = "idle") /\ Revokers \subseteq Callers
  BY CaAssumption DEF Callers, DownIsQuiet
<1>1. CASE \E s \in Serials : CheckCache(c, s)
  <2>1. PICK s \in Serials : CheckCache(c, s)
    BY <1>1
  <2>2. TypeOK'
    BY <2>1, <1>0 DEF CheckCache, Goto, TypeOK
  <2>3. DownIsQuiet' /\ WriterHolds' /\ Justified'
    BY <2>1, <1>0 DEF CheckCache, Goto, TypeOK, DownIsQuiet, WriterHolds, Justified
  <2>4. PromisedIsStored' /\ RefusedWasRevoked' /\ RootIsStored'
    BY <2>1 DEF CheckCache, PromisedIsStored, RefusedWasRevoked, RootIsStored
  <2> QED BY <2>2, <2>3, <2>4
<1>2. CASE Lookup(c)
  <2>1. PICK d \in {disk, Empty} : read' = [read EXCEPT ![c] = d]
    BY <1>2 DEF Lookup
  <2>2. d \in Document /\ d.revoked \subseteq revoking
    BY <2>1, EmptyIsDocument DEF TypeOK, RefusedWasRevoked
  <2>3. TypeOK'
    BY <1>2, <2>1, <2>2, <1>0 DEF Lookup, Goto, TypeOK
  <2>4. DownIsQuiet' /\ WriterHolds' /\ Justified'
    BY <1>2, <2>1, <2>2, <1>0 DEF Lookup, Goto, TypeOK, DownIsQuiet, WriterHolds, Justified
  <2>5. PromisedIsStored' /\ RefusedWasRevoked' /\ RootIsStored'
    BY <1>2 DEF Lookup, PromisedIsStored, RefusedWasRevoked, RootIsStored
  <2> QED BY <2>3, <2>4, <2>5
<1>3. CASE Keep(c)
  <2>1. /\ Return(c)
        /\ cache' = [cache EXCEPT ![of[c]] =
                       IF of[c] \in read[c].revoked THEN "revoked" ELSE "valid"]
        /\ UNCHANGED <<up, starts, root, serial, issued, disk, mu, revoking, promised, misread>>
    BY <1>3 DEF Keep, SetCache
  <2>2. TypeOK'
    BY <2>1, <1>0, ReturnType DEF TypeOK
  <2>3. DownIsQuiet' /\ WriterHolds' /\ Justified'
    BY <2>1, <1>0, ReturnType, EmptyIsDocument DEF TypeOK, DownIsQuiet, WriterHolds, Justified
  <2>4. read[c].revoked \subseteq revoking /\ of[c] \in Serials
    BY <1>0 DEF Justified, TypeOK
  <2>5. RefusedWasRevoked'
    BY <2>1, <2>4 DEF RefusedWasRevoked, TypeOK
  <2>6. PromisedIsStored' /\ RootIsStored'
    BY <2>1 DEF PromisedIsStored, RootIsStored
  <2> QED BY <2>2, <2>3, <2>5, <2>6
<1> QED BY <1>1, <1>2, <1>3

LEMMA RevokeInv ==
  ASSUME Inv, NEW r \in Revokers,
         (\E s \in Serials : CacheRevoked(r, s)) \/ ReadDocument(r) \/ WriteDocument(r)
  PROVE  Inv'
<1> USE DEF Inv, callVars, history, caVars
<1>0. r \in Callers /\ r # None /\ Revokers \subseteq Callers /\ of[r] \in Serials
  BY CaAssumption DEF Callers, TypeOK
<1>1. CASE \E s \in Serials : CacheRevoked(r, s)
  <2>1. PICK s \in Serials : CacheRevoked(r, s)
    BY <1>1
  <2>2. TypeOK'
    BY <2>1, <1>0 DEF CacheRevoked, SetCache, Goto, TypeOK
  <2>3. DownIsQuiet' /\ WriterHolds'
    BY <2>1, <1>0 DEF CacheRevoked, Goto, TypeOK, DownIsQuiet, WriterHolds
  <2>4. Justified'
    BY <2>1, <1>0 DEF CacheRevoked, Goto, TypeOK, Justified
  <2>5. RefusedWasRevoked'
    BY <2>1 DEF CacheRevoked, SetCache, RefusedWasRevoked, TypeOK
  <2>6. PromisedIsStored' /\ RootIsStored'
    BY <2>1 DEF CacheRevoked, PromisedIsStored, RootIsStored
  <2> QED BY <2>2, <2>3, <2>4, <2>5, <2>6
<1>2. CASE ReadDocument(r)
  <2>1. PICK d \in {disk, Empty} :
          /\ misread' = (misread \/ d # disk)
          /\ IF of[r] \in d.revoked
             THEN Promise(r) /\ Return(r) /\ UNCHANGED mu
             ELSE /\ mu' = r
                  /\ read' = [read EXCEPT ![r] = d]
                  /\ Goto(r, "write")
                  /\ UNCHANGED <<of, promised>>
    BY <1>2 DEF ReadDocument
  <2>2. /\ d \in Document /\ d.revoked \subseteq revoking
        /\ misread' \in BOOLEAN /\ (misread => misread') /\ (misread' \/ d = disk)
    BY <2>1, EmptyIsDocument DEF TypeOK, RefusedWasRevoked
  <2>3. /\ pc[r] = "add" /\ mu = None
        /\ UNCHANGED <<up, starts, root, serial, issued, cache, disk, revoking>>
    BY <1>2 DEF ReadDocument
  <2>4. up /\ of[r] \in revoking
    BY <2>3, <1>0 DEF DownIsQuiet, Justified
  <2>5. \A q \in Revokers : pc[q] # "write"
    BY <2>3, CaAssumption DEF WriterHolds
  <2>6. RefusedWasRevoked' /\ RootIsStored'
    BY <2>2, <2>3 DEF RefusedWasRevoked, RootIsStored
  <2>7. CASE of[r] \in d.revoked
    <3>1. Return(r) /\ UNCHANGED mu /\ promised' = promised \cup {of[r]}
      BY <2>1, <2>7 DEF Promise
    <3>2. TypeOK'
      BY <2>2, <2>3, <3>1, <1>0, ReturnType DEF TypeOK
    <3>3. DownIsQuiet' /\ WriterHolds' /\ Justified'
      BY <2>2, <2>3, <2>4, <2>5, <3>1, <1>0, ReturnType, EmptyIsDocument
         DEF DownIsQuiet, WriterHolds, Justified
    <3>4. PromisedIsStored'
      BY <2>2, <2>3, <2>7, <3>1 DEF PromisedIsStored
    <3> QED BY <2>6, <3>2, <3>3, <3>4
  <2>8. CASE of[r] \notin d.revoked
    <3>1. /\ mu' = r
          /\ read' = [read EXCEPT ![r] = d]
          /\ pc' = [pc EXCEPT ![r] = "write"]
          /\ UNCHANGED <<of, promised>>
      BY <2>1, <2>8 DEF Goto
    <3>2. TypeOK'
      BY <2>2, <2>3, <3>1, <1>0 DEF TypeOK
    <3>3. DownIsQuiet' /\ Justified'
      BY <2>2, <2>3, <2>4, <3>1, <1>0 DEF TypeOK, DownIsQuiet, Justified
    <3>4. WriterHolds'
      BY <2>2, <2>3, <2>5, <3>1, <1>0 DEF TypeOK, WriterHolds
    <3>5. PromisedIsStored'
      BY <2>2, <2>3, <3>1 DEF PromisedIsStored
    <3> QED BY <2>6, <3>2, <3>3, <3>4, <3>5
  <2> QED BY <2>7, <2>8
<1>3. CASE WriteDocument(r)
  <2>1. /\ pc[r] = "write" /\ mu' = None /\ Return(r)
        /\ UNCHANGED <<up, starts, root, serial, issued, cache, revoking, misread>>
    BY <1>3 DEF WriteDocument
  <2>2. /\ mu = r /\ (misread \/ read[r] = disk) /\ of[r] \in revoking /\ up
        /\ read[r] \in Document /\ read[r].revoked \subseteq revoking
    BY <2>1, <1>0 DEF WriterHolds, Justified, DownIsQuiet, TypeOK
  <2>3. /\ disk' \in Document /\ disk'.revoked \subseteq revoking
        /\ promised' \subseteq Serials
        /\ misread \/ (promised' \subseteq disk'.revoked /\ disk'.root = disk.root)
    <3>1. CASE disk' = [read[r] EXCEPT !.revoked = @ \cup {of[r]}] /\ Promise(r)
      <4>1. /\ disk' = [root |-> read[r].root, revoked |-> read[r].revoked \cup {of[r]}]
            /\ promised' = promised \cup {of[r]}
        BY <3>1, <2>2 DEF Promise, Document
      <4> QED BY <4>1, <2>2, <1>0 DEF Document, TypeOK, PromisedIsStored
    <3>2. CASE UNCHANGED <<disk, promised>>
      BY <3>2 DEF TypeOK, PromisedIsStored, RefusedWasRevoked
    <3> QED BY <1>3, <3>1, <3>2 DEF WriteDocument
  <2>4. \A q \in Revokers \ {r} : pc[q] # "write"
    BY <2>2 DEF WriterHolds
  <2>5. TypeOK'
    BY <2>1, <2>3, <1>0, ReturnType DEF TypeOK
  <2>6. DownIsQuiet' /\ WriterHolds' /\ Justified'
    BY <2>1, <2>2, <2>4, <1>0, ReturnType, EmptyIsDocument DEF DownIsQuiet, WriterHolds, Justified
  <2>7. PromisedIsStored' /\ RefusedWasRevoked' /\ RootIsStored'
    BY <2>1, <2>3 DEF PromisedIsStored, RefusedWasRevoked, RootIsStored
  <2> QED BY <2>5, <2>6, <2>7
<1> QED BY <1>1, <1>2, <1>3

-----------------------------------------------------------------------------

LEMMA NextInv == Inv /\ [Next]_vars => Inv'
<1> SUFFICES ASSUME Inv, [Next]_vars PROVE Inv'
  OBVIOUS
<1>1. CASE UNCHANGED vars
  BY <1>1 DEF vars, caVars, callVars, history, Inv, TypeOK, DownIsQuiet, WriterHolds, Justified,
     PromisedIsStored, RefusedWasRevoked, RootIsStored
<1>2. CASE Next
  BY <1>2, StartInv, ProcessInv, CheckInv, RevokeInv DEF Next
<1> QED BY <1>1, <1>2

LEMMA SpecInv == Spec => []Inv
BY InitInv, NextInv, PTL DEF Spec

\* The type invariant of the certificate authority.
THEOREM TypeCorrect == Spec => []TypeOK
<1>1. Inv => TypeOK
  BY DEF Inv
<1> QED BY <1>1, SpecInv, PTL

\* No promised revocation is lost to a crash or to a concurrent one (AddRevoked
\* under s.mu, and its rename).
THEOREM RevocationsKept == Spec => []PromisedIsStored
<1>1. Inv => PromisedIsStored
  BY DEF Inv
<1> QED BY <1>1, SpecInv, PTL

\* IsRevoked refuses no serial that was never revoked.
THEOREM NoneRefusedByMistake == Spec => []RefusedWasRevoked
<1>1. Inv => RefusedWasRevoked
  BY DEF Inv
<1> QED BY <1>1, SpecInv, PTL

\* GenerateRoot and AddRevoked keep the root the server signs with in the file.
THEOREM RootKept == Spec => []RootIsStored
<1>1. Inv => RootIsStored
  BY DEF Inv
<1> QED BY <1>1, SpecInv, PTL

==============================================================================
