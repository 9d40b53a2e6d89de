----------------------- MODULE TrustedCertificatesProofs -----------------------
(***************************************************************************)
(* For any number of calls, removals and processes: the pointer never      *)
(* names files that are gone unless a removal has taken them, no authority *)
(* stays trusted where nobody finds it, and a call that runs alone returns *)
(* a certificate that can be used.                                         *)
(*                                                                         *)
(* A call deletes the files of the certificate it has read from the        *)
(* pointer, after it has moved the pointer.  What makes this safe although *)
(* processes do not wait for each other is that every call publishes only  *)
(* its own certificate, once: what was read before cannot come back.  The  *)
(* other two hold because an operation that overlaps no stranger is the    *)
(* only one under way, so that its stage determines the pointer.           *)
(***************************************************************************)
EXTENDS TrustedCertificates, TLAPS

Past == {"cleaning", "done", "rejected"}
Replacing == {"untrusting", "distrusting", "writing"}
Trusting == {"validating", "checking", "asking", "installing", "verifying"}

\* A call that will not write the pointer any more.
Published(a) == a \in fresh /\ pc[a] \in Past

\* Only certificates of such calls are in the pointer or were read from it.
NamesArePublished ==
    /\ pointer # None => Published(pointer)
    /\ \A o \in Operations : previous[o] # None => Published(previous[o])

\* Until then nobody deletes the files of a call.
OwnFilesKept == \A c \in fresh : pc[c] \notin Past => Files(c) \subseteq files

\* A call replaces a certificate only by one of its own ...
ReplacersAreFresh == \A c \in Calls : pc[c] \in Replacing => c \in fresh

\* ... and otherwise looks at the one it has read.
ReusersHaveRead ==
    \A c \in Calls : pc[c] \in Trusting /\ c \notin fresh => previous[c] # None

\* What a call deletes is not current.
Superseded ==
    \A c \in Calls : pc[c] = "cleaning" /\ pointer # None => pointer # previous[c]

Names ==
    /\ NamesArePublished /\ OwnFilesKept /\ ReplacersAreFresh /\ ReusersHaveRead
    /\ Superseded /\ PointerIsWhole

IInv == TypeOK /\ Names

-----------------------------------------------------------------------------
LEMMA InitIInv == Init => IInv
<1> SUFFICES ASSUME Init PROVE IInv
  OBVIOUS
<1>1. TypeOK
  BY DEF Init, TypeOK, Awaits, Settled
<1>2. Names
  BY DEF Init, Names, NamesArePublished, OwnFilesKept, ReplacersAreFresh, ReusersHaveRead,
     Superseded, PointerIsWhole, Replacing, Trusting, Past, Operations
<1> QED
  BY <1>1, <1>2 DEF IInv

\* One operation goes on to another await, the others stay.
LEMMA GotoEffect ==
  ASSUME TypeOK, NEW o \in Operations, NEW w, Goto(o, w)
  PROVE  /\ pc'[o] = w
         /\ \A u \in Operations : u # o => pc'[u] = pc[u]
BY DEF TypeOK, Goto

LEMMA GotoType ==
  ASSUME TypeOK, NEW o \in Operations, NEW w \in Awaits, Goto(o, w)
  PROVE  pc' \in [Operations -> Awaits]
BY DEF TypeOK, Goto

\* Published calls stay published when an operation goes on, if one that is
\* published goes on within Past.
LEMMA StayPublished ==
  ASSUME TypeOK, NEW o \in Operations, NEW w, Goto(o, w), fresh \subseteq fresh',
         pc[o] \in Past => w \in Past,
         NEW a \in Operations, Published(a)
  PROVE  Published(a)'
BY GotoEffect DEF Published

\* A step that neither publishes nor deletes anything.
LEMMA MoveKeeps ==
  ASSUME IInv, NEW o \in Operations, NEW w, Goto(o, w),
         UNCHANGED <<pointer, files, previous, fresh>>,
         pc[o] \in Past => w \in Past,
         o \in Calls => /\ w # "cleaning"
                        /\ w \in Past \/ pc[o] \notin Past
                        /\ w \in Replacing => o \in fresh
                        /\ w \in Trusting /\ o \notin fresh => previous[o] # None
  PROVE  Names'
<1> USE GotoEffect, CertificatesAssumption DEF IInv, Names
<1>t. /\ pointer \in Calls \cup {None} /\ fresh \subseteq Calls
      /\ Calls \subseteq Operations
      /\ \A u \in Operations : previous[u] \in Calls \cup {None}
  BY DEF TypeOK, Operations
<1>1. NamesArePublished'
  BY <1>t, StayPublished DEF NamesArePublished
<1>2. OwnFilesKept'
  BY <1>t DEF OwnFilesKept, Files
<1>3. ReplacersAreFresh'
  BY <1>t DEF ReplacersAreFresh
<1>4. ReusersHaveRead'
  BY <1>t DEF ReusersHaveRead
<1>5. Superseded'
  BY <1>t DEF Superseded
<1>6. PointerIsWhole'
  BY DEF PointerIsWhole, Files
<1> QED
  BY <1>1, <1>2, <1>3, <1>4, <1>5, <1>6

\* The types of what every operation changes.
OthersTyped ==
    /\ pointer \in Calls \cup {None}
    /\ files \subseteq Calls \X {"authority", "leaf"}
    /\ expired \subseteq fresh /\ trusted \subseteq fresh /\ fresh \subseteq Calls
    /\ previous \in [Operations -> Calls \cup {None}]
    /\ known \subseteq Calls
    /\ killed \subseteq Processes
    /\ crowded \subseteq Operations /\ troubled \in BOOLEAN

LEMMA MoveTypes ==
  ASSUME TypeOK, NEW o \in Operations, NEW w \in Awaits, Goto(o, w), OthersTyped'
  PROVE  TypeOK'
BY GotoType DEF TypeOK, OthersTyped

-----------------------------------------------------------------------------
LEMMA BeginKeeps == ASSUME IInv, NEW o \in Operations, Begin(o) PROVE IInv'
<1> USE DEF Begin, store
<1>1. Goto(o, "reading") /\ pc[o] = "new"
  OBVIOUS
<1>2. OthersTyped'
  BY DEF IInv, TypeOK, OthersTyped, Strangers, Running
<1>3. TypeOK'
  BY <1>1, <1>2, MoveTypes DEF IInv, Awaits
<1>4. Names'
  BY <1>1, MoveKeeps DEF Past, Replacing, Trusting
<1> QED
  BY <1>3, <1>4 DEF IInv

LEMMA DeniedKeeps == ASSUME IInv, NEW o \in Operations, Denied(o) PROVE IInv'
<1> USE DEF Denied, store, Reject
<1>1. Goto(o, "rejected") /\ pc[o] \in {"reading", "validating", "checking"}
  OBVIOUS
<1>2. OthersTyped'
  BY DEF IInv, TypeOK, OthersTyped
<1>3. TypeOK'
  BY <1>1, <1>2, MoveTypes DEF IInv, Awaits, Settled
<1>4. Names'
  BY <1>1, MoveKeeps DEF Past, Replacing, Trusting
<1> QED
  BY <1>3, <1>4 DEF IInv

\* An operation that reads the pointer reads a published name, which is not its own.
LEMMA ReadCacheKeeps == ASSUME IInv, NEW o \in Operations, ReadCache(o) PROVE IInv'
<1> USE CertificatesAssumption DEF ReadCache, store, At
<1>1. ASSUME pointer = None PROVE IInv'
  <2>1. PICK w \in {"generating", "nothing"} :
           Goto(o, w) /\ UNCHANGED <<pointer, files, previous, fresh>> /\ pc[o] = "reading"
                      /\ (o \in Calls => w = "generating")
    BY <1>1
  <2>2. OthersTyped'
    BY <1>1 DEF IInv, TypeOK, OthersTyped
  <2>3. TypeOK'
    BY <2>1, <2>2, MoveTypes DEF IInv, Awaits, Settled
  <2>4. Names'
    BY <2>1, MoveKeeps DEF Past, Replacing, Trusting
  <2> QED
    BY <2>3, <2>4 DEF IInv
<1>2. ASSUME pointer # None PROVE IInv'
  <2>1. /\ Goto(o, "validating") /\ pc[o] = "reading"
        /\ previous' = [previous EXCEPT ![o] = pointer]
        /\ UNCHANGED <<pointer, files, fresh>>
    BY <1>2
  <2>t. /\ pointer \in Calls /\ fresh \subseteq Calls
        /\ Calls \subseteq Operations /\ Removals \subseteq Operations
        /\ previous \in [Operations -> Calls \cup {None}] /\ None \notin Calls
    BY <1>2 DEF IInv, TypeOK, Operations
  <2>p. /\ previous'[o] = pointer
        /\ \A u \in Operations : u # o => previous'[u] = previous[u]
    BY <2>1, <2>t
  <2>2. OthersTyped'
    BY <1>2, <2>t DEF IInv, TypeOK, OthersTyped
  <2>3. TypeOK'
    BY <2>1, <2>2, MoveTypes DEF IInv, Awaits, Settled
  <2>g. pc'[o] = "validating" /\ \A u \in Operations : u # o => pc'[u] = pc[u]
    BY <2>1, GotoEffect DEF IInv
  <2>4. NamesArePublished'
    <3>1. \A a \in Operations : Published(a) => Published(a)'
      BY <2>1, StayPublished DEF IInv, Past
    <3> QED
      BY <3>1, <2>1, <2>p, <2>t, <1>2 DEF IInv, Names, NamesArePublished
  <2>5. OwnFilesKept'
    BY <2>1, <2>g, <2>t DEF IInv, Names, OwnFilesKept, Files, Past
  <2>6. ReplacersAreFresh'
    BY <2>1, <2>g, <2>t DEF IInv, Names, ReplacersAreFresh, Replacing
  <2>7. ReusersHaveRead'
    BY <2>1, <2>g, <2>t, <2>p, <1>2 DEF IInv, Names, ReusersHaveRead, Trusting
  <2>8. Superseded'
    BY <2>1, <2>g, <2>t, <2>p DEF IInv, Names, Superseded
  <2>9. PointerIsWhole'
    BY <2>1, <2>p, <2>t DEF IInv, Names, PointerIsWhole, Files
  <2> QED
    BY <2>3, <2>4, <2>5, <2>6, <2>7, <2>8, <2>9 DEF IInv, Names
<1> QED
  BY <1>1, <1>2

LEMMA ValidateKeeps == ASSUME IInv, NEW c \in Calls, Validate(c) PROVE IInv'
<1> USE DEF Validate, store, At
<1>o. c \in Operations
  BY DEF Operations
<1>1. PICK w \in {"checking", "generating"} : Goto(c, w)
  OBVIOUS
<1>2. OthersTyped'
  BY DEF IInv, TypeOK, OthersTyped
<1>3. TypeOK'
  BY <1>o, <1>1, <1>2, MoveTypes DEF IInv, Awaits
<1>4. c \notin fresh => previous[c] # None
  BY DEF IInv, Names, ReusersHaveRead, Trusting, At
<1>5. Names'
  BY <1>o, <1>1, <1>4, MoveKeeps DEF Past, Replacing, Trusting
<1> QED
  BY <1>3, <1>5 DEF IInv

LEMMA CheckKeeps == ASSUME IInv, NEW c \in Calls, Check(c) PROVE IInv'
<1> USE DEF Check, store, At
<1>o. c \in Operations
  BY DEF Operations
<1>1. PICK w \in {"asking", "done", "generating"} : Goto(c, w)
  OBVIOUS
<1>2. OthersTyped'
  BY DEF IInv, TypeOK, OthersTyped
<1>3. TypeOK'
  BY <1>o, <1>1, <1>2, MoveTypes DEF IInv, Awaits, Settled
<1>4. c \notin fresh => previous[c] # None
  BY DEF IInv, Names, ReusersHaveRead, Trusting
<1>5. Names'
  BY <1>o, <1>1, <1>4, MoveKeeps DEF Past, Replacing, Trusting
<1> QED
  BY <1>3, <1>5 DEF IInv

\* A new certificate is all there when its call goes on; a call that fails
\* meanwhile publishes nothing.
LEMMA GenerateKeeps == ASSUME IInv, NEW c \in Calls, Generate(c) PROVE IInv'
<1> USE CertificatesAssumption DEF Generate, At
<1>1. PICK w \in {"asking", "writing", "rejected"} :
         /\ Goto(c, w) /\ pc[c] = "generating"
         /\ files \subseteq files' /\ UNCHANGED <<pointer, previous>>
         /\ \/ w = "rejected" /\ fresh' = fresh
            \/ w # "rejected" /\ fresh' = fresh \cup {c} /\ Files(c) \subseteq files'
  BY DEF Reject
<1>o. c \in Operations /\ Calls \subseteq Operations /\ Removals \subseteq Operations
  BY DEF Operations
<1>t. /\ pointer \in Calls \cup {None} /\ fresh \subseteq Calls
      /\ \A u \in Operations : previous[u] \in Calls \cup {None}
  BY DEF IInv, TypeOK
<1>g. pc'[c] = w /\ \A u \in Operations : u # c => pc'[u] = pc[u]
  BY <1>1, <1>o, GotoEffect DEF IInv
<1>2. OthersTyped'
  <2>1. \E written \in SUBSET Files(c) : files' = files \cup written
    BY DEF Reject
  <2>2. Files(c) \subseteq Calls \X {"authority", "leaf"}
    BY DEF Files
  <2>3. files' \subseteq Calls \X {"authority", "leaf"}
    BY <2>1, <2>2 DEF IInv, TypeOK
  <2>4. fresh \subseteq fresh' /\ fresh' \subseteq Calls
    BY <1>1, <1>t
  <2>5. troubled' \in BOOLEAN
    BY DEF IInv, TypeOK, Reject
  <2> QED
    BY <2>3, <2>4, <2>5 DEF IInv, TypeOK, OthersTyped
<1>3. TypeOK'
  BY <1>o, <1>1, <1>2, MoveTypes DEF IInv, Awaits, Settled
<1>4. NamesArePublished'
  <2>1. \A a \in Operations : Published(a) => Published(a)'
    BY <1>1, <1>g DEF Published, Past
  <2> QED
    BY <2>1, <1>1, <1>o, <1>t DEF IInv, Names, NamesArePublished
<1>5. OwnFilesKept'
  BY <1>1, <1>g, <1>t, <1>o DEF IInv, Names, OwnFilesKept, Files, Past
<1>6. ReplacersAreFresh'
  BY <1>1, <1>g, <1>o DEF IInv, Names, ReplacersAreFresh, Replacing
<1>7. ReusersHaveRead'
  BY <1>1, <1>g, <1>o DEF IInv, Names, ReusersHaveRead, Trusting
<1>8. Superseded'
  BY <1>1, <1>g, <1>o DEF IInv, Names, Superseded
<1>9. PointerIsWhole'
  BY <1>1 DEF IInv, Names, PointerIsWhole, Files
<1> QED
  BY <1>3, <1>4, <1>5, <1>6, <1>7, <1>8, <1>9 DEF IInv, Names

\* A call that has not made a certificate is after the trust of a published one.
LEMMA TargetIsFresh ==
  ASSUME IInv, NEW c \in Calls, pc[c] \in {"asking", "installing", "verifying"}
  PROVE  Target(c) \in fresh
<1>1. CASE c \in fresh
  BY <1>1 DEF Target
<1>2. CASE c \notin fresh
  <2>1. previous[c] # None /\ c \in Operations
    BY <1>2 DEF IInv, Names, ReusersHaveRead, Trusting, Operations
  <2> QED
    BY <1>2, <2>1 DEF IInv, Names, NamesArePublished, Published, Target
<1> QED
  BY <1>1, <1>2

LEMMA AskKeeps == ASSUME IInv, NEW c \in Calls, Ask(c) PROVE IInv'
<1> USE DEF Ask, store, At, TrustFails, TrustIsThere
<1>o. c \in Operations
  BY DEF Operations
<1>1. PICK w \in {"installing", "generating", "rejected", "done", "untrusting", "writing"} :
         Goto(c, w) /\ (w \in {"untrusting", "writing"} => c \in fresh)
  OBVIOUS
<1>2. OthersTyped'
  BY DEF IInv, TypeOK, OthersTyped
<1>3. TypeOK'
  BY <1>o, <1>1, <1>2, MoveTypes DEF IInv, Awaits, Settled
<1>4. c \notin fresh => previous[c] # None
  BY DEF IInv, Names, ReusersHaveRead, Trusting
<1>5. Names'
  BY <1>o, <1>1, <1>4, MoveKeeps DEF Past, Replacing, Trusting
<1> QED
  BY <1>3, <1>5 DEF IInv

LEMMA InstallKeeps == ASSUME IInv, NEW c \in Calls, Install(c) PROVE IInv'
<1> USE DEF Install, At, TrustFails
<1>o. c \in Operations
  BY DEF Operations
<1>1. PICK w \in {"verifying", "generating", "rejected"} : Goto(c, w)
  OBVIOUS
<1>t. Target(c) \in fresh
  BY TargetIsFresh
<1>2. OthersTyped'
  BY <1>t DEF IInv, TypeOK, OthersTyped
<1>3. TypeOK'
  BY <1>o, <1>1, <1>2, MoveTypes DEF IInv, Awaits, Settled
<1>4. c \notin fresh => previous[c] # None
  BY DEF IInv, Names, ReusersHaveRead, Trusting
<1>5. Names'
  BY <1>o, <1>1, <1>4, MoveKeeps DEF Past, Replacing, Trusting
<1> QED
  BY <1>3, <1>5 DEF IInv

LEMMA VerifyKeeps == ASSUME IInv, NEW c \in Calls, Verify(c) PROVE IInv'
<1> USE DEF Verify, store, At, TrustFails, TrustIsThere
<1>o. c \in Operations
  BY DEF Operations
<1>1. PICK w \in {"generating", "rejected", "done", "untrusting", "writing"} :
         Goto(c, w) /\ (w \in {"untrusting", "writing"} => c \in fresh)
  OBVIOUS
<1>2. OthersTyped'
  BY DEF IInv, TypeOK, OthersTyped
<1>3. TypeOK'
  BY <1>o, <1>1, <1>2, MoveTypes DEF IInv, Awaits, Settled
<1>5. Names'
  BY <1>o, <1>1, MoveKeeps DEF Past, Replacing, Trusting
<1> QED
  BY <1>3, <1>5 DEF IInv

LEMMA AskPreviousKeeps == ASSUME IInv, NEW o \in Operations, AskPrevious(o) PROVE IInv'
<1> USE DEF AskPrevious, store, At, Continue, Reject
<1>1. PICK w \in {"distrusting", "writing", "cleaning", "rejected"} :
         Goto(o, w) /\ (o \in Calls => w # "cleaning")
  OBVIOUS
<1>2. OthersTyped'
  BY DEF IInv, TypeOK, OthersTyped
<1>3. TypeOK'
  BY <1>1, <1>2, MoveTypes DEF IInv, Awaits, Settled
<1>4. o \in Calls => o \in fresh
  BY DEF IInv, Names, ReplacersAreFresh, Replacing
<1>5. Names'
  BY <1>1, <1>4, MoveKeeps DEF Past, Replacing, Trusting
<1> QED
  BY <1>3, <1>5 DEF IInv

LEMMA DistrustKeeps == ASSUME IInv, NEW o \in Operations, Distrust(o) PROVE IInv'
<1> USE DEF Distrust, At, Continue, Reject
<1>1. PICK w \in {"writing", "cleaning", "rejected"} :
         Goto(o, w) /\ (o \in Calls => w # "cleaning")
  OBVIOUS
<1>2. OthersTyped'
  BY DEF IInv, TypeOK, OthersTyped
<1>3. TypeOK'
  BY <1>1, <1>2, MoveTypes DEF IInv, Awaits, Settled
<1>4. o \in Calls => o \in fresh
  BY DEF IInv, Names, ReplacersAreFresh, Replacing
<1>5. Names'
  BY <1>1, <1>4, MoveKeeps DEF Past, Replacing, Trusting
<1> QED
  BY <1>3, <1>5 DEF IInv

-----------------------------------------------------------------------------
\* A call publishes its own certificate, which nobody has read yet and whose
\* files are all there.
LEMMA WritePointerKeeps == ASSUME IInv, NEW c \in Calls, WritePointer(c) PROVE IInv'
<1> USE CertificatesAssumption DEF WritePointer, At, Reject
<1>o. /\ c \in Operations /\ c # None
      /\ Calls \subseteq Operations /\ Removals \subseteq Operations
  BY DEF Operations
<1>1. PICK w \in {"cleaning", "done", "rejected"} :
         /\ Goto(c, w) /\ pc[c] = "writing" /\ UNCHANGED <<files, previous, fresh>>
         /\ \/ pointer' = c
            \/ pointer' = pointer /\ w = "rejected"
  OBVIOUS
<1>2. OthersTyped'
  BY DEF IInv, TypeOK, OthersTyped
<1>3. TypeOK'
  BY <1>o, <1>1, <1>2, MoveTypes DEF IInv, Awaits, Settled
<1>t. /\ fresh \subseteq Calls /\ \A u \in Operations : previous[u] \in Calls \cup {None}
  BY DEF IInv, TypeOK
<1>4. CASE pointer' = pointer /\ w = "rejected"
  BY <1>o, <1>1, <1>3, <1>4, MoveKeeps DEF IInv, Past, Replacing, Trusting
<1>5. CASE pointer' = c
  <2>g. pc'[c] = w /\ \A u \in Operations : u # c => pc'[u] = pc[u]
    BY <1>1, <1>o, GotoEffect DEF IInv
  <2>1. c \in fresh /\ Files(c) \subseteq files
    BY <1>1 DEF IInv, Names, ReplacersAreFresh, Replacing, OwnFilesKept, Past
  <2>2. \A u \in Operations : previous[u] # c
    BY <1>1, <1>o DEF IInv, Names, NamesArePublished, Published, Past
  <2>3. NamesArePublished'
    <3>1. \A a \in Operations : Published(a) => Published(a)'
      BY <1>1, <2>g DEF Published, Past
    <3>2. Published(c)'
      BY <1>1, <2>1, <2>g DEF Published, Past
    <3> QED
      BY <3>1, <3>2, <1>5, <1>1, <1>o, <1>t DEF IInv, Names, NamesArePublished
  <2>4. OwnFilesKept'
    BY <1>1, <2>g, <1>t, <1>o DEF IInv, Names, OwnFilesKept, Files, Past
  <2>5. ReplacersAreFresh'
    BY <1>1, <2>g, <1>o DEF IInv, Names, ReplacersAreFresh, Replacing
  <2>6. ReusersHaveRead'
    BY <1>1, <2>g, <1>o DEF IInv, Names, ReusersHaveRead, Trusting
  <2>7. Superseded'
    BY <1>5, <1>1, <2>2, <1>o DEF Superseded
  <2>8. PointerIsWhole'
    BY <1>5, <1>1, <2>1 DEF PointerIsWhole, Files
  <2> QED
    BY <1>3, <2>3, <2>4, <2>5, <2>6, <2>7, <2>8 DEF IInv, Names
<1> QED
  BY <1>1, <1>4, <1>5

\* An operation deletes the files it has read of, and the pointer: a call only
\* if they are not current, a removal in any case.
LEMMA DeleteKeeps ==
  ASSUME IInv, NEW o \in Operations, NEW w, Goto(o, w),
         files' \in {files, files \ Files(previous[o])},
         pointer' \in {pointer, None},
         UNCHANGED <<previous, fresh>>,
         o \in Calls => pc[o] = "cleaning" /\ w \in {"done", "rejected"}
  PROVE  Names'
<1> USE CertificatesAssumption
<1>o. Calls \subseteq Operations /\ Removals \subseteq Operations /\ None \notin Calls
  BY DEF Operations
<1>t. /\ pointer \in Calls \cup {None} /\ fresh \subseteq Calls
      /\ \A u \in Operations : previous[u] \in Calls \cup {None}
  BY DEF IInv, TypeOK
<1>g. pc'[o] = w /\ \A u \in Operations : u # o => pc'[u] = pc[u]
  BY GotoEffect DEF IInv
<1>f. \A a : a # previous[o] /\ Files(a) \subseteq files => Files(a) \subseteq files'
  BY DEF Files
<1>1. NamesArePublished'
  <2>1. \A a \in Calls : Published(a) => Published(a)'
    BY <1>g, <1>o DEF Published, Past
  <2> QED
    BY <2>1, <1>o, <1>t DEF IInv, Names, NamesArePublished
<1>2. OwnFilesKept'
  <2> SUFFICES ASSUME NEW d \in fresh, pc'[d] \notin Past PROVE Files(d) \subseteq files'
    BY DEF OwnFilesKept, Files
  <2>1. d # o /\ pc'[d] = pc[d]
    BY <1>g, <1>t, <1>o DEF Past
  <2>2. Files(d) \subseteq files /\ d # previous[o]
    BY <2>1, <1>t, <1>o DEF IInv, Names, OwnFilesKept, NamesArePublished, Published
  <2> QED
    BY <2>2, <1>f
<1>3. ReplacersAreFresh'
  BY <1>g, <1>o DEF IInv, Names, ReplacersAreFresh, Replacing
<1>4. ReusersHaveRead'
  BY <1>g, <1>o DEF IInv, Names, ReusersHaveRead, Trusting
<1>5. Superseded'
  BY <1>g, <1>o DEF IInv, Names, Superseded
<1>6. PointerIsWhole'
  <2> SUFFICES ASSUME pointer' # None,
                      \A r \in Removals : previous[r] # pointer
               PROVE  Files(pointer) \subseteq files'
    BY DEF PointerIsWhole, Files
  <2>1. pointer # None /\ Files(pointer) \subseteq files
    BY DEF IInv, Names, PointerIsWhole
  <2>2. pointer # previous[o]
    BY <2>1 DEF IInv, Names, Superseded, Operations
  <2> QED
    BY <2>1, <2>2, <1>f
<1> QED
  BY <1>1, <1>2, <1>3, <1>4, <1>5, <1>6 DEF Names

LEMMA CleanUpKeeps == ASSUME IInv, NEW c \in Calls, CleanUp(c) PROVE IInv'
<1> USE DEF CleanUp, At, Reject
<1>o. c \in Operations
  BY DEF Operations
<1>1. PICK w \in {"done", "rejected"} : Goto(c, w)
  OBVIOUS
<1>2. OthersTyped'
  BY DEF IInv, TypeOK, OthersTyped
<1>3. TypeOK'
  BY <1>o, <1>1, <1>2, MoveTypes DEF IInv, Awaits, Settled
<1>4. Names'
  BY <1>o, <1>1, DeleteKeeps
<1> QED
  BY <1>3, <1>4 DEF IInv

-----------------------------------------------------------------------------
LEMMA RemovalStepKeeps == ASSUME IInv, NEW r \in Removals, RemovalStep(r) PROVE IInv'
<1>o. r \in Operations /\ r \notin Calls
  BY CertificatesAssumption DEF Operations
<1>1. CASE ValidateRemoval(r)
  <2> USE <1>1 DEF ValidateRemoval, store, At, Reject
  <2>1. PICK w \in {"untrusting", "rejected"} : Goto(r, w)
    OBVIOUS
  <2>2. OthersTyped'
    BY DEF IInv, TypeOK, OthersTyped
  <2>3. TypeOK'
    BY <1>o, <2>1, <2>2, MoveTypes DEF IInv, Awaits, Settled
  <2>4. Names'
    BY <1>o, <2>1, MoveKeeps DEF Past
  <2> QED
    BY <2>3, <2>4 DEF IInv
<1>2. CASE RemoveFiles(r)
  <2> USE <1>2 DEF RemoveFiles
  <2>1. PICK w \in {"files removed", "done"} : Goto(r, w)
    OBVIOUS
  <2>2. OthersTyped'
    BY DEF IInv, TypeOK, OthersTyped
  <2>3. TypeOK'
    BY <1>o, <2>1, <2>2, MoveTypes DEF IInv, Awaits, Settled
  <2>4. Names'
    BY <1>o, <2>1, DeleteKeeps
  <2> QED
    BY <2>3, <2>4 DEF IInv
<1>3. CASE RemovePointer(r)
  <2> USE <1>3 DEF RemovePointer
  <2>1. PICK w \in {"pointer removed", "done"} : Goto(r, w)
    OBVIOUS
  <2>2. OthersTyped'
    BY DEF IInv, TypeOK, OthersTyped
  <2>3. TypeOK'
    BY <1>o, <2>1, <2>2, MoveTypes DEF IInv, Awaits, Settled
  <2>4. Names'
    BY <1>o, <2>1, DeleteKeeps
  <2> QED
    BY <2>3, <2>4 DEF IInv
<1>4. CASE RemoveFails(r)
  <2> USE <1>4 DEF RemoveFails, At, Reject
  <2>2. OthersTyped'
    BY DEF IInv, TypeOK, OthersTyped
  <2>3. TypeOK'
    BY <1>o, <2>2, MoveTypes DEF IInv, Awaits, Settled
  <2>4. Names'
    BY <1>o, DeleteKeeps
  <2> QED
    BY <2>3, <2>4 DEF IInv
<1> QED
  BY <1>1, <1>2, <1>3, <1>4 DEF RemovalStep

\* Steps of the environment and stuttering leave alone what Names is about.
LEMMA QuietStep ==
  ASSUME IInv, UNCHANGED <<pointer, files, pc, previous, fresh>> PROVE Names'
BY DEF IInv, Names, NamesArePublished, OwnFilesKept, ReplacersAreFresh, ReusersHaveRead,
   Superseded, PointerIsWhole, Published, Past, Replacing, Trusting, Files

LEMMA NextIInv == IInv /\ [Next]_vars => IInv'
<1> SUFFICES ASSUME IInv, [Next]_vars PROVE IInv'
  OBVIOUS
<1>1. ASSUME NEW o \in Operations,
             Begin(o) \/ ReadCache(o) \/ Denied(o) \/ AskPrevious(o) \/ Distrust(o)
      PROVE  IInv'
  BY <1>1, BeginKeeps, ReadCacheKeeps, DeniedKeeps, AskPreviousKeeps, DistrustKeeps
<1>2. ASSUME NEW c \in Calls, EnsureStep(c) PROVE IInv'
  BY <1>2, ValidateKeeps, CheckKeeps, GenerateKeeps, AskKeeps, InstallKeeps, VerifyKeeps,
     WritePointerKeeps, CleanUpKeeps DEF EnsureStep
<1>3. ASSUME NEW a \in Calls, Expire(a) PROVE IInv'
  <2> USE <1>3 DEF Expire, store
  <2>1. Names'
    BY QuietStep
  <2>2. TypeOK'
    BY DEF IInv, TypeOK
  <2> QED
    BY <2>1, <2>2 DEF IInv
<1>4. ASSUME NEW r \in Removals, RemovalStep(r) PROVE IInv'
  BY <1>4, RemovalStepKeeps
<1>5. ASSUME NEW p \in Processes, Kill(p) PROVE IInv'
  <2> USE <1>5 DEF Kill, store
  <2>1. Names'
    BY QuietStep
  <2>2. TypeOK'
    BY DEF IInv, TypeOK
  <2> QED
    BY <2>1, <2>2 DEF IInv
<1>6. CASE UNCHANGED vars
  <2> USE <1>6 DEF vars
  <2>1. Names'
    BY QuietStep
  <2>2. TypeOK'
    BY DEF IInv, TypeOK
  <2> QED
    BY <2>1, <2>2 DEF IInv
<1> QED
  BY <1>1, <1>2, <1>3, <1>4, <1>5, <1>6 DEF Next

\* The invariant holds for every number of calls, removals and processes.
LEMMA AlwaysIInv == Spec => []IInv
BY InitIInv, NextIInv, PTL DEF Spec

-----------------------------------------------------------------------------
(* The state of the directory, the trust store and the operations keeps its   *)
(* types; among them, only authorities that some call made are ever trusted.  *)
THEOREM TypeCorrect == Spec => []TypeOK
<1>1. IInv => TypeOK
  BY DEF IInv
<1> QED
  BY AlwaysIInv, <1>1, PTL

(* However many processes rotate the certificate of a directory, fail at any  *)
(* step or are killed, trusted-current.json does not name files that are gone *)
(* unless a removal read it.                                                  *)
THEOREM PointerStaysWhole == Spec => []PointerIsWhole
<1>1. IInv => PointerIsWhole
  BY DEF IInv, Names
<1> QED
  BY AlwaysIInv, <1>1, PTL
-----------------------------------------------------------------------------
(* Trust.  While no operation has overlapped a stranger, failed or been       *)
(* killed, one operation runs at a time, and its stage says what the pointer  *)
(* is and what the trust store no longer holds.                               *)
Calm == crowded = {} /\ ~troubled

\* The pointer is still the one that the operation has read.
Undecided == {"validating", "checking", "generating", "asking", "installing",
              "verifying", "untrusting", "distrusting", "writing", "files removed"}
Removing == {"cleaning", "files removed", "pointer removed"}

CallStage(c) ==
    /\ pc[c] \in {"validating", "checking"} => c \notin fresh
    /\ pc[c] \notin {"reading", "validating"} /\ previous[c] # None => c \in known
    /\ pc[c] = "cleaning" => pointer = c
    /\ pc[c] \in {"writing", "cleaning"} /\ c \in Installs => previous[c] \notin trusted

RemovalStage(r) ==
    /\ pc[r] = "cleaning" => previous[r] = pointer
    /\ pc[r] = "pointer removed" => pointer = None
    /\ pc[r] \in Removing => previous[r] \notin trusted

Stage(o) ==
    /\ pc[o] \in Undecided => previous[o] = pointer
    /\ o \in Calls => CallStage(o)
    /\ o \in Removals => RemovalStage(o)

\* Where an authority in the trust store can be found.
Findable(a) ==
    \/ a = pointer \/ a \in Running
    \/ \E o \in Running : previous[o] = a
    \/ \E c \in fresh \ Installs : previous[c] = a

Orderly ==
    /\ killed = {}
    /\ \A o, u \in Running : o = u
    /\ \A o \in Operations : pc[o] \in {"new", "reading"} =>
          previous[o] = None /\ o \notin fresh
    /\ \A o \in Running : Stage(o)
    /\ \A r \in Removals :
          r \notin Running /\ previous[r] # None => previous[r] # pointer
    /\ \A a \in trusted : Findable(a)

CalmInv == Calm => Orderly

LEMMA InitCalm == Init => CalmInv
BY DEF Init, CalmInv, Orderly, Running

\* An operation that is under way is the only one.
LEMMA SoloFacts ==
  ASSUME IInv, CalmInv, Calm, NEW o \in Operations, pc[o] \notin {"new"} \cup Settled
  PROVE  /\ Running = {o} /\ killed = {} /\ Stage(o)
         /\ pc[o] = "reading" => previous[o] = None /\ o \notin fresh
         /\ \A r \in Removals : r # o /\ previous[r] # None => previous[r] # pointer
         /\ \A a \in trusted : \/ a = pointer \/ a = o \/ previous[o] = a
                               \/ \E c \in fresh \ Installs : previous[c] = a
<1>1. Orderly
  BY DEF CalmInv
<1>2. o \in Running
  BY <1>1 DEF Orderly, Running
<1> QED
  BY <1>1, <1>2 DEF Orderly, Findable

\* It goes on to another await, or settles.
LEMMA SoloStep ==
  ASSUME IInv, CalmInv, Calm, NEW o \in Operations, pc[o] \notin {"new"} \cup Settled,
         NEW w, w \notin {"new", "reading"}, Goto(o, w), killed' = killed,
         fresh' \subseteq fresh \cup {o},
         \A u \in Operations : u # o => previous'[u] = previous[u],
         w \notin Settled => Stage(o)',
         \A r \in Removals : previous'[r] # None /\ (r = o => w \in Settled)
                                => previous'[r] # pointer',
         \A a \in trusted' :
            \/ a = pointer'
            \/ w \notin Settled /\ (a = o \/ previous'[o] = a)
            \/ \E c \in fresh' \ Installs : previous'[c] = a
  PROVE  CalmInv'
<1>1. /\ Running = {o} /\ killed = {}
      /\ Orderly
  BY SoloFacts DEF CalmInv
<1>2. pc'[o] = w /\ \A u \in Operations : u # o => pc'[u] = pc[u]
  BY GotoEffect DEF IInv
<1>3. Running' = IF w \in Settled THEN {} ELSE {o}
  <2>1. \A u \in Operations : u # o => u \notin Running'
    BY <1>1, <1>2 DEF Running
  <2>2. o \in Running' <=> w \notin Settled
    BY <1>1, <1>2 DEF Running
  <2> QED
    BY <2>1, <2>2 DEF Running
<1>4. \A u \in Operations : pc'[u] \in {"new", "reading"} =>
         previous'[u] = None /\ u \notin fresh'
  BY <1>1, <1>2 DEF Orderly
<1>5. \A r \in Removals :
         r \notin Running' /\ previous'[r] # None => previous'[r] # pointer'
  BY <1>3
<1>6. \A a \in trusted' : Findable(a)'
  BY <1>3 DEF Findable
<1> QED
  BY <1>1, <1>3, <1>4, <1>5, <1>6 DEF CalmInv, Orderly

\* A step that changes neither the pointer nor the trust store.
LEMMA SoloMove ==
  ASSUME IInv, CalmInv, Calm, NEW o \in Operations, pc[o] \notin {"new"} \cup Settled,
         NEW w, w \notin {"new", "reading"} \cup Settled, Goto(o, w),
         UNCHANGED <<killed, pointer, trusted, previous>>, fresh \subseteq fresh',
         fresh' \subseteq fresh \cup {o}, Stage(o)'
  PROVE  CalmInv'
BY SoloFacts, SoloStep

-----------------------------------------------------------------------------
LEMMA BeginCalm == ASSUME IInv, CalmInv, NEW o \in Operations, Begin(o) PROVE CalmInv'
<1> SUFFICES ASSUME Calm' PROVE Orderly'
  BY DEF CalmInv
<1> USE DEF Begin, store
<1>1. Calm /\ Strangers(o) = {} /\ Orderly
  BY DEF Calm, CalmInv
<1>2. Running = {}
  <2>1. ASSUME NEW u \in Running PROVE FALSE
    <3>1. u \notin Removals /\ o \notin Removals /\ ProcessOf[u] = ProcessOf[o]
      BY <1>1, <2>1 DEF Strangers
    <3>2. u \in Calls /\ o \in Calls
      BY <2>1, <3>1 DEF Running, Operations
    <3> QED
      BY <2>1, <3>1, <3>2
  <2> QED
    BY <2>1
<1>3. pc'[o] = "reading" /\ pc[o] = "new" /\ \A u \in Operations : u # o => pc'[u] = pc[u]
  BY GotoEffect DEF IInv
<1>4. Running' = {o}
  <2>1. \A u \in Operations : u # o => u \notin Running'
    BY <1>2, <1>3 DEF Running
  <2>2. o \in Running'
    BY <1>3 DEF Running, Settled
  <2> QED
    BY <2>1, <2>2 DEF Running
<1>5. previous[o] = None /\ o \notin fresh
  BY <1>1, <1>3 DEF Orderly
<1>6. Stage(o)'
  BY <1>3, <1>5 DEF Stage, CallStage, RemovalStage, Undecided, Removing
<1>7. \A u \in Operations : pc'[u] \in {"new", "reading"} =>
         previous'[u] = None /\ u \notin fresh'
  BY <1>1, <1>3, <1>5 DEF Orderly
<1>8. \A r \in Removals : previous'[r] # None => previous'[r] # pointer'
  BY <1>1, <1>2, <1>5 DEF Orderly
<1>9. \A a \in trusted' : Findable(a)'
  BY <1>1, <1>2, <1>4 DEF Orderly, Findable
<1> QED
  BY <1>1, <1>4, <1>6, <1>7, <1>8, <1>9 DEF Orderly

LEMMA ReadCacheCalm ==
  ASSUME IInv, CalmInv, NEW o \in Operations, ReadCache(o) PROVE CalmInv'
<1> SUFFICES ASSUME Calm' PROVE CalmInv'
  BY DEF CalmInv
<1> USE CertificatesAssumption DEF ReadCache, store, At
<1>1. /\ Calm /\ pc[o] = "reading" /\ pc[o] \notin {"new"} \cup Settled
      /\ previous \in [Operations -> Calls \cup {None}]
      /\ trusted \subseteq Calls /\ pointer \in Calls \cup {None}
      /\ Calls \cap Removals = {} /\ Calls \subseteq Operations /\ Removals \subseteq Operations
      /\ UNCHANGED <<killed, pointer, trusted, fresh>>
  BY DEF Calm, Settled, IInv, TypeOK, Operations
<1>2. /\ previous[o] = None /\ o \notin fresh
      /\ \A r \in Removals : r # o /\ previous[r] # None => previous[r] # pointer
      /\ \A a \in trusted : \/ a = pointer \/ a = o \/ previous[o] = a
                            \/ \E c \in fresh \ Installs : previous[c] = a
  BY <1>1, SoloFacts
<1>3. CASE pointer # None
  <2>1. /\ Goto(o, "validating")
        /\ previous'[o] = pointer
        /\ \A u \in Operations : u # o => previous'[u] = previous[u]
    BY <1>1, <1>3
  <2>2. pc'[o] = "validating"
    BY <2>1, GotoEffect DEF IInv
  <2>3. Stage(o)'
    BY <1>1, <1>2, <2>1, <2>2 DEF Stage, CallStage, RemovalStage, Undecided, Removing
  <2>4. \A a \in trusted' : \/ a = pointer' \/ a = o
                            \/ \E c \in fresh' \ Installs : previous'[c] = a
    <3>1. \A c \in fresh : c # o /\ c \in Operations
      BY <1>1, <1>2 DEF IInv, TypeOK
    <3>2. \A a \in trusted : a # None
      BY <1>1
    <3> QED
      BY <1>1, <1>2, <2>1, <3>1, <3>2
  <2>5. \A r \in Removals : previous'[r] # None /\ (r = o => "validating" \in Settled)
                               => previous'[r] # pointer'
    BY <1>1, <1>2, <2>1 DEF Settled
  <2> QED
    BY <1>1, <2>1, <2>3, <2>4, <2>5, SoloStep DEF Settled
<1>4. CASE pointer = None
  <2>1. UNCHANGED previous
    BY <1>4
  <2>2. CASE o \in Calls
    <3>1. Goto(o, "generating")
      BY <1>4, <2>2
    <3>2. pc'[o] = "generating"
      BY <3>1, GotoEffect DEF IInv
    <3>3. Stage(o)'
      BY <1>1, <1>2, <1>4, <2>1, <2>2, <3>2 DEF Stage, CallStage, RemovalStage, Undecided
    <3> QED
      BY <1>1, <2>1, <3>1, <3>3, SoloMove DEF Settled
  <2>3. CASE o \notin Calls
    <3>1. Goto(o, "nothing")
      BY <1>4, <2>3
    <3>2. \A a \in trusted' : a = pointer' \/ \E c \in fresh' \ Installs : previous'[c] = a
      BY <1>1, <1>2, <2>1, <2>3
    <3>3. \A r \in Removals : previous'[r] # None => previous'[r] # pointer'
      BY <1>1, <1>2, <2>1
    <3> QED
      BY <1>1, <2>1, <3>1, <3>2, <3>3, SoloStep DEF Settled
  <2> QED
    BY <2>2, <2>3
<1> QED
  BY <1>3, <1>4

LEMMA ValidateCalm == ASSUME IInv, CalmInv, NEW c \in Calls, Validate(c) PROVE CalmInv'
<1> SUFFICES ASSUME Calm' PROVE CalmInv'
  BY DEF CalmInv
<1> USE CertificatesAssumption DEF Validate, store, At
<1>1. /\ Calm /\ pc[c] = "validating" /\ pc[c] \notin {"new"} \cup Settled
      /\ c \in Operations /\ c \notin Removals
      /\ UNCHANGED <<killed, pointer, trusted, previous, fresh>>
  BY DEF Calm, Settled, Operations
<1>2. /\ Stage(c)
      /\ \A r \in Removals : r # c /\ previous[r] # None => previous[r] # pointer
  BY <1>1, SoloFacts
<1>3. previous[c] = pointer /\ c \notin fresh /\ previous[c] # None
  BY <1>1, <1>2 DEF Stage, CallStage, Undecided, IInv, Names, ReusersHaveRead, Trusting
<1>4. <<previous[c], "authority">> \in files
  BY <1>1, <1>2, <1>3 DEF IInv, Names, PointerIsWhole, Files
<1>5. PICK w \in {"checking", "generating"} : Goto(c, w) /\ known' = known \cup {c}
  BY <1>4
<1>6. pc'[c] = w
  BY <1>1, <1>5, GotoEffect DEF IInv
<1>7. Stage(c)'
  BY <1>1, <1>3, <1>5, <1>6 DEF Stage, CallStage, RemovalStage, Undecided
<1> QED
  BY <1>1, <1>5, <1>7, SoloMove DEF Settled

\* A call that reuses what it has read returns; all that is trusted is known.
LEMMA ReuseDone ==
  ASSUME IInv, CalmInv, Calm, NEW c \in Calls, pc[c] \in Trusting, c \notin fresh,
         Goto(c, "done"), UNCHANGED <<killed, pointer, trusted, previous, fresh>>
  PROVE  CalmInv'
<1> USE CertificatesAssumption
<1>1. /\ pc[c] \notin {"new"} \cup Settled /\ pc[c] \in Undecided
      /\ c \in Operations /\ c \notin Removals /\ trusted \subseteq fresh
  BY DEF Settled, Undecided, Trusting, Operations, IInv, TypeOK
<1>2. /\ previous[c] = pointer
      /\ \A r \in Removals : r # c /\ previous[r] # None => previous[r] # pointer
      /\ \A a \in trusted : \/ a = pointer \/ a = c \/ previous[c] = a
                            \/ \E d \in fresh \ Installs : previous[d] = a
  BY <1>1, SoloFacts DEF Stage
<1>3. \A r \in Removals : previous'[r] # None => previous'[r] # pointer'
  BY <1>1, <1>2
<1>4. \A a \in trusted' : a = pointer' \/ \E d \in fresh' \ Installs : previous'[d] = a
  BY <1>1, <1>2
<1> QED
  BY <1>1, <1>3, <1>4, SoloStep DEF Settled

LEMMA CheckCalm == ASSUME IInv, CalmInv, NEW c \in Calls, Check(c) PROVE CalmInv'
<1> SUFFICES ASSUME Calm' PROVE CalmInv'
  BY DEF CalmInv
<1> USE CertificatesAssumption DEF Check, store, At
<1>1. /\ Calm /\ pc[c] = "checking" /\ pc[c] \notin {"new"} \cup Settled
      /\ c \in Operations /\ c \notin Removals
      /\ UNCHANGED <<killed, pointer, trusted, previous, fresh, known>>
  BY DEF Calm, Settled, Operations
<1>2. Stage(c)
  BY <1>1, SoloFacts
<1>3. PICK w \in {"asking", "done", "generating"} : Goto(c, w)
  BY DEF Check
<1>4. CASE w = "done"
  <2>1. c \notin fresh
    BY <1>1, <1>2 DEF Stage, CallStage
  <2> QED
    BY <1>1, <1>3, <1>4, <2>1, ReuseDone DEF Trusting
<1>5. CASE w # "done"
  <2>1. pc'[c] = w
    BY <1>1, <1>3, GotoEffect DEF IInv
  <2>2. Stage(c)'
    BY <1>1, <1>2, <1>3, <1>5, <2>1 DEF Stage, CallStage, RemovalStage, Undecided
  <2> QED
    BY <1>1, <1>3, <1>5, <2>2, SoloMove DEF Settled
<1> QED
  BY <1>4, <1>5

\* A certificate that must not touch the trust store leaves the old authority
\* in it, under the name that the call has read.
LEMMA GenerateCalm == ASSUME IInv, CalmInv, NEW c \in Calls, Generate(c) PROVE CalmInv'
<1> SUFFICES ASSUME Calm' PROVE CalmInv'
  BY DEF CalmInv
<1> USE CertificatesAssumption DEF Generate, At, Reject
<1>1. /\ Calm /\ pc[c] = "generating" /\ pc[c] \notin {"new"} \cup Settled
      /\ c \in Operations /\ c \notin Removals
      /\ UNCHANGED <<killed, pointer, trusted, previous, known>>
      /\ fresh' = fresh \cup {c}
      /\ Goto(c, IF c \in Installs THEN "asking" ELSE "writing")
  BY DEF Calm, Settled, Operations
<1>2. Stage(c)
  BY <1>1, SoloFacts
<1>3. PICK w \in {"asking", "writing"} : Goto(c, w) /\ (w = "writing" => c \notin Installs)
  BY <1>1
<1>4. pc'[c] = w
  BY <1>1, <1>3, GotoEffect DEF IInv
<1>5. Stage(c)'
  BY <1>1, <1>2, <1>3, <1>4 DEF Stage, CallStage, RemovalStage, Undecided
<1> QED
  BY <1>1, <1>3, <1>5, SoloMove DEF Settled

-----------------------------------------------------------------------------
LEMMA TrustIsThereCalm ==
  ASSUME IInv, CalmInv, Calm, NEW c \in Calls, pc[c] \in {"asking", "verifying"},
         TrustIsThere(c), UNCHANGED <<killed, pointer, trusted, previous, fresh, known>>
  PROVE  CalmInv'
<1> USE CertificatesAssumption DEF TrustIsThere
<1>1. /\ pc[c] \notin {"new"} \cup Settled /\ pc[c] \in Trusting
      /\ c \in Operations /\ c \notin Removals
      /\ trusted \subseteq Calls
  BY DEF Settled, Operations, Trusting, IInv, TypeOK
<1>2. CASE c \notin fresh
  BY <1>1, <1>2, ReuseDone
<1>3. CASE c \in fresh
  <2>1. PICK w \in {"untrusting", "writing"} :
               Goto(c, w) /\ (w = "writing" => c \notin known)
    BY <1>3
  <2>2. Stage(c) /\ pc'[c] = w
    BY <1>1, <2>1, SoloFacts, GotoEffect DEF IInv
  <2>3. w = "writing" => previous[c] \notin trusted
    BY <1>1, <2>1, <2>2 DEF Stage, CallStage
  <2>4. Stage(c)'
    BY <1>1, <2>1, <2>2, <2>3 DEF Stage, CallStage, RemovalStage, Undecided
  <2> QED
    BY <1>1, <2>1, <2>4, SoloMove DEF Settled
<1> QED
  BY <1>2, <1>3

LEMMA AskCalm == ASSUME IInv, CalmInv, NEW c \in Calls, Ask(c) PROVE CalmInv'
<1> SUFFICES ASSUME Calm' PROVE CalmInv'
  BY DEF CalmInv
<1> USE CertificatesAssumption DEF Ask, store, At, TrustFails
<1>1. /\ Calm /\ pc[c] = "asking" /\ pc[c] \notin {"new"} \cup Settled
      /\ c \in Operations /\ c \notin Removals
      /\ UNCHANGED <<killed, pointer, trusted, previous, fresh, known>>
  BY DEF Calm, Settled, Operations, TrustIsThere
<1>2. CASE TrustIsThere(c)
  BY <1>1, <1>2, TrustIsThereCalm
<1>3. CASE Goto(c, "installing")
  <2>1. Stage(c) /\ pc'[c] = "installing"
    BY <1>1, <1>3, SoloFacts, GotoEffect DEF IInv
  <2>2. Stage(c)'
    BY <1>1, <2>1 DEF Stage, CallStage, RemovalStage, Undecided
  <2> QED
    BY <1>1, <1>3, <2>2, SoloMove DEF Settled
<1> QED
  BY <1>1, <1>2, <1>3 DEF Calm

\* What is installed is the call's own authority or the one it has read.
LEMMA InstallCalm == ASSUME IInv, CalmInv, NEW c \in Calls, Install(c) PROVE CalmInv'
<1> SUFFICES ASSUME Calm' PROVE CalmInv'
  BY DEF CalmInv
<1> USE CertificatesAssumption DEF Install, At, TrustFails
<1>1. /\ Calm /\ pc[c] = "installing" /\ pc[c] \notin {"new"} \cup Settled
      /\ c \in Operations /\ c \notin Removals
      /\ UNCHANGED <<killed, pointer, previous, fresh, known>>
      /\ trusted' = trusted \cup {Target(c)} /\ Goto(c, "verifying")
  BY DEF Calm, Settled, Operations
<1>2. /\ Stage(c)
      /\ \A r \in Removals : r # c /\ previous[r] # None => previous[r] # pointer
      /\ \A a \in trusted : \/ a = pointer \/ a = c \/ previous[c] = a
                            \/ \E d \in fresh \ Installs : previous[d] = a
  BY <1>1, SoloFacts
<1>3. pc'[c] = "verifying"
  BY <1>1, GotoEffect DEF IInv
<1>4. Stage(c)'
  BY <1>1, <1>2, <1>3 DEF Stage, CallStage, RemovalStage, Undecided
<1>5. \A a \in trusted' : \/ a = pointer' \/ a = c \/ previous'[c] = a
                          \/ \E d \in fresh' \ Installs : previous'[d] = a
  <2>1. Target(c) = c \/ Target(c) = previous[c]
    BY DEF Target
  <2> QED
    BY <1>1, <1>2, <2>1
<1>6. \A r \in Removals : previous'[r] # None => previous'[r] # pointer'
  BY <1>1, <1>2
<1> QED
  BY <1>1, <1>4, <1>5, <1>6, SoloStep DEF Settled

LEMMA VerifyCalm == ASSUME IInv, CalmInv, NEW c \in Calls, Verify(c) PROVE CalmInv'
<1> SUFFICES ASSUME Calm' PROVE CalmInv'
  BY DEF CalmInv
<1> USE DEF Verify, store, At, TrustFails
<1>1. /\ Calm /\ pc[c] = "verifying" /\ TrustIsThere(c)
      /\ UNCHANGED <<killed, pointer, trusted, previous, fresh, known>>
  BY DEF Calm, TrustIsThere
<1> QED
  BY <1>1, TrustIsThereCalm

-----------------------------------------------------------------------------
\* The previous authority is not trusted: a call publishes, a removal deletes.
LEMMA Distrusted ==
  ASSUME IInv, CalmInv, Calm, NEW o \in Operations, pc[o] \in {"untrusting", "distrusting"},
         Continue(o), trusted' \subseteq trusted, previous[o] \notin trusted',
         UNCHANGED <<killed, pointer, previous, fresh, known>>
  PROVE  CalmInv'
<1> USE CertificatesAssumption DEF Continue
<1>1. pc[o] \notin {"new"} \cup Settled
  BY DEF Settled
<1>2. /\ Stage(o)
      /\ \A r \in Removals : r # o /\ previous[r] # None => previous[r] # pointer
      /\ \A a \in trusted : \/ a = pointer \/ a = o \/ previous[o] = a
                            \/ \E d \in fresh \ Installs : previous[d] = a
  BY <1>1, SoloFacts
<1>3. PICK w \in {"writing", "cleaning"} :
             Goto(o, w) /\ (w = "writing" <=> o \in Calls) /\ pc'[o] = w
  BY GotoEffect DEF IInv
<1>4. Stage(o)'
  BY <1>2, <1>3 DEF Stage, CallStage, RemovalStage, Undecided, Removing, Operations
<1>5. \A a \in trusted' : \/ a = pointer' \/ a = o \/ previous'[o] = a
                          \/ \E d \in fresh' \ Installs : previous'[d] = a
  BY <1>2
<1>6. \A r \in Removals : previous'[r] # None /\ (r = o => w \in Settled)
                             => previous'[r] # pointer'
  BY <1>2, <1>3 DEF Settled
<1> QED
  BY <1>1, <1>3, <1>4, <1>5, <1>6, SoloStep DEF Settled

LEMMA AskPreviousCalm ==
  ASSUME IInv, CalmInv, NEW o \in Operations, AskPrevious(o) PROVE CalmInv'
<1> SUFFICES ASSUME Calm' PROVE CalmInv'
  BY DEF CalmInv
<1> USE DEF AskPrevious, store, At, Reject
<1>1. /\ Calm /\ pc[o] = "untrusting" /\ pc[o] \notin {"new"} \cup Settled
      /\ UNCHANGED <<killed, pointer, trusted, previous, fresh, known>>
  BY DEF Calm, Settled, Continue
<1>2. CASE Goto(o, "distrusting")
  <2>1. Stage(o) /\ pc'[o] = "distrusting"
    BY <1>1, <1>2, SoloFacts, GotoEffect DEF IInv
  <2>2. Stage(o)'
    BY <1>1, <2>1 DEF Stage, CallStage, RemovalStage, Undecided, Removing
  <2> QED
    BY <1>1, <1>2, <2>2, SoloMove DEF Settled
<1>3. CASE ~IsTrusted(previous[o]) /\ Continue(o)
  <2>1. previous[o] \notin trusted
    BY <1>3 DEF IsTrusted
  <2> QED
    BY <1>1, <1>3, <2>1, Distrusted
<1> QED
  BY <1>1, <1>2, <1>3 DEF Calm

LEMMA DistrustCalm ==
  ASSUME IInv, CalmInv, NEW o \in Operations, Distrust(o) PROVE CalmInv'
<1> SUFFICES ASSUME Calm' PROVE CalmInv'
  BY DEF CalmInv
<1> USE DEF Distrust, At, Reject
<1>1. /\ Calm /\ pc[o] = "distrusting"
      /\ UNCHANGED <<killed, pointer, previous, fresh, known>>
      /\ trusted' = trusted \ {previous[o]} /\ Continue(o)
  BY DEF Calm
<1> QED
  BY <1>1, Distrusted

\* The pointer moves: what it named was distrusted, or the call must not.
LEMMA WritePointerCalm ==
  ASSUME IInv, CalmInv, NEW c \in Calls, WritePointer(c) PROVE CalmInv'
<1> SUFFICES ASSUME Calm' PROVE CalmInv'
  BY DEF CalmInv
<1> USE CertificatesAssumption DEF WritePointer, At, Reject
<1>1. /\ Calm /\ pc[c] = "writing" /\ pc[c] \notin {"new"} \cup Settled
      /\ c \in Operations /\ c \notin Removals
      /\ Removals \subseteq Operations /\ trusted \subseteq Calls
      /\ UNCHANGED <<killed, trusted, previous, fresh, known>>
      /\ pointer' = c /\ Goto(c, IF c \in known THEN "cleaning" ELSE "done")
  BY DEF Calm, Settled, Operations, IInv, TypeOK
<1>2. /\ Stage(c)
      /\ \A a \in trusted : \/ a = pointer \/ a = c \/ previous[c] = a
                            \/ \E d \in fresh \ Installs : previous[d] = a
  BY <1>1, SoloFacts
<1>3. \A r \in Removals : previous'[r] # None => previous'[r] # pointer'
  BY <1>1 DEF IInv, Names, NamesArePublished, Published, Past
<1>4. previous[c] = pointer /\ (previous[c] # None => c \in known)
  BY <1>1, <1>2 DEF Stage, CallStage, Undecided
<1>5. CASE c \in known
  <2>1. Goto(c, "cleaning") /\ pc'[c] = "cleaning"
    BY <1>1, <1>5, GotoEffect DEF IInv
  <2>2. Stage(c)'
    BY <1>1, <1>2, <1>5, <2>1 DEF Stage, CallStage, RemovalStage, Undecided
  <2>3. \A a \in trusted' : \/ a = pointer' \/ previous'[c] = a
                            \/ \E d \in fresh' \ Installs : previous'[d] = a
    BY <1>1, <1>2, <1>4
  <2> QED
    BY <1>1, <1>3, <2>1, <2>2, <2>3, SoloStep DEF Settled
<1>6. CASE c \notin known
  <2>1. Goto(c, "done") /\ pointer = None /\ previous[c] = None
    BY <1>1, <1>4, <1>6
  <2>2. \A a \in trusted' : a = pointer' \/ \E d \in fresh' \ Installs : previous'[d] = a
    BY <1>1, <1>2, <2>1
  <2> QED
    BY <1>1, <1>3, <2>1, <2>2, SoloStep DEF Settled
<1> QED
  BY <1>5, <1>6

LEMMA CleanUpCalm == ASSUME IInv, CalmInv, NEW c \in Calls, CleanUp(c) PROVE CalmInv'
<1> SUFFICES ASSUME Calm' PROVE CalmInv'
  BY DEF CalmInv
<1> USE CertificatesAssumption DEF CleanUp, At, Reject
<1>1. /\ Calm /\ pc[c] = "cleaning" /\ pc[c] \notin {"new"} \cup Settled
      /\ c \in Operations /\ c \notin Removals
      /\ UNCHANGED <<killed, pointer, trusted, previous, fresh, known>>
      /\ Goto(c, "done")
  BY DEF Calm, Settled, Operations
<1>2. /\ Stage(c)
      /\ \A r \in Removals : r # c /\ previous[r] # None => previous[r] # pointer
      /\ \A a \in trusted : \/ a = pointer \/ a = c \/ previous[c] = a
                            \/ \E d \in fresh \ Installs : previous[d] = a
  BY <1>1, SoloFacts
<1>3. /\ pointer = c /\ (c \in Installs => previous[c] \notin trusted)
      /\ c \in fresh
  BY <1>1, <1>2 DEF Stage, CallStage, IInv, Names, NamesArePublished, Published
<1>4. \A a \in trusted' : a = pointer' \/ \E d \in fresh' \ Installs : previous'[d] = a
  BY <1>1, <1>2, <1>3
<1>5. \A r \in Removals : previous'[r] # None => previous'[r] # pointer'
  BY <1>1, <1>2
<1> QED
  BY <1>1, <1>4, <1>5, SoloStep DEF Settled

\* A removal deletes what nobody trusts any more, and the pointer to it.
LEMMA RemovalStepCalm ==
  ASSUME IInv, CalmInv, NEW r \in Removals, RemovalStep(r) PROVE CalmInv'
<1> SUFFICES ASSUME Calm' PROVE CalmInv'
  BY DEF CalmInv
<1> USE CertificatesAssumption DEF At, Reject
<1>1. /\ Calm /\ r \in Operations /\ r \notin Calls /\ trusted \subseteq Calls
      /\ Removals \subseteq Operations
      /\ previous \in [Operations -> Calls \cup {None}]
      /\ UNCHANGED <<killed, trusted, previous, fresh, known>>
  BY DEF RemovalStep, ValidateRemoval, RemoveFiles, RemovePointer, RemoveFails, Calm,
         Operations, store, IInv, TypeOK
<1>2. CASE ValidateRemoval(r)
  <2> USE <1>2 DEF ValidateRemoval, store
  <2>1. /\ pc[r] = "validating" /\ Goto(r, "untrusting") /\ UNCHANGED pointer
        /\ pc[r] \notin {"new"} \cup Settled
    BY DEF Calm, Settled
  <2>2. Stage(r) /\ pc'[r] = "untrusting"
    BY <1>1, <2>1, SoloFacts, GotoEffect DEF IInv
  <2>3. Stage(r)'
    BY <1>1, <2>1, <2>2 DEF Stage, RemovalStage, Undecided, Removing
  <2> QED
    BY <1>1, <2>1, <2>3, SoloMove DEF Settled
<1>3. CASE RemoveFiles(r) \/ RemovePointer(r)
  <2>1. PICK w \in {"files removed", "pointer removed", "done"} :
           /\ Goto(r, w) /\ pc[r] \in Removing
           /\ \/ w = "files removed" /\ pc[r] = "cleaning" /\ pointer' = pointer
              \/ w = "done" /\ pc[r] = "pointer removed" /\ pointer' = pointer
              \/ w \in {"pointer removed", "done"} /\ pointer' = None
    BY <1>3 DEF RemoveFiles, RemovePointer, Removing
  <2>2. pc[r] \notin {"new"} \cup Settled
    BY <2>1 DEF Removing, Settled
  <2>3. /\ Stage(r)
        /\ \A s \in Removals : s # r /\ previous[s] # None => previous[s] # pointer
        /\ \A a \in trusted : \/ a = pointer \/ a = r \/ previous[r] = a
                              \/ \E d \in fresh \ Installs : previous[d] = a
    BY <1>1, <2>2, SoloFacts
  <2>4. /\ previous[r] \notin trusted
        /\ pc[r] = "cleaning" => previous[r] = pointer
        /\ pc[r] = "files removed" => previous[r] = pointer
        /\ pc[r] = "pointer removed" => pointer = None
    BY <1>1, <2>1, <2>3 DEF Stage, RemovalStage, Undecided
  <2>5. pc'[r] = w
    BY <1>1, <2>1, GotoEffect DEF IInv
  <2>6. w \notin Settled => Stage(r)'
    BY <1>1, <2>1, <2>4, <2>5 DEF Stage, RemovalStage, Undecided, Removing, Settled
  <2>7. \A a \in trusted' : a = pointer' \/ \E d \in fresh' \ Installs : previous'[d] = a
    <3>1. pointer \notin trusted
      BY <1>1, <2>1, <2>4 DEF Removing
    <3> QED
      BY <1>1, <2>3, <2>4, <3>1
  <2>8. \A s \in Removals : previous'[s] # None /\ (s = r => w \in Settled)
                               => previous'[s] # pointer'
    BY <1>1, <2>1, <2>3, <2>4 DEF Settled
  <2>9. \A a \in trusted' : \/ a = pointer'
                            \/ w \notin Settled /\ (a = r \/ previous'[r] = a)
                            \/ \E d \in fresh' \ Installs : previous'[d] = a
    BY <2>7
  <2>10. /\ w \notin {"new", "reading"} /\ Goto(r, w) /\ UNCHANGED <<killed, fresh>>
         /\ \A u \in Operations : u # r => previous'[u] = previous[u]
    BY <1>1, <2>1
  <2>11. IInv /\ CalmInv /\ Calm /\ r \in Operations
    BY <1>1
  <2>12. /\ w \notin {"new", "reading"} /\ Goto(r, w) /\ killed' = killed
         /\ fresh' \subseteq fresh \cup {r}
    BY <2>10
  <2>13. \A u \in Operations : u # r => previous'[u] = previous[u]
    BY <2>10
  <2> QED
    BY ONLY <2>2, <2>6, <2>8, <2>9, <2>11, <2>12, <2>13, SoloStep
<1>4. CASE RemoveFails(r)
  BY <1>4 DEF RemoveFails, Calm
<1> QED
  BY <1>2, <1>3, <1>4 DEF RemovalStep

\* Stuttering, and certificates that come due.
LEMMA QuietCalm ==
  ASSUME CalmInv,
         UNCHANGED <<pointer, trusted, pc, previous, known, fresh, killed, crowded, troubled>>
  PROVE  CalmInv'
BY DEF CalmInv, Calm, Orderly, Findable, Running, Stage, CallStage, RemovalStage

LEMMA NextCalm == IInv /\ CalmInv /\ [Next]_vars => CalmInv'
<1> SUFFICES ASSUME IInv, CalmInv, [Next]_vars PROVE CalmInv'
  OBVIOUS
<1>1. ASSUME NEW o \in Operations, Denied(o) PROVE CalmInv'
  BY <1>1 DEF Denied, Reject, CalmInv, Calm
<1>2. ASSUME NEW o \in Operations,
             Begin(o) \/ ReadCache(o) \/ Denied(o) \/ AskPrevious(o) \/ Distrust(o)
      PROVE  CalmInv'
  BY <1>1, <1>2, BeginCalm, ReadCacheCalm, AskPreviousCalm, DistrustCalm
<1>3. ASSUME NEW c \in Calls, EnsureStep(c) PROVE CalmInv'
  BY <1>3, ValidateCalm, CheckCalm, GenerateCalm, AskCalm, InstallCalm, VerifyCalm,
     WritePointerCalm, CleanUpCalm DEF EnsureStep
<1>4. ASSUME NEW a \in Calls, Expire(a) PROVE CalmInv'
  BY <1>4, QuietCalm DEF Expire, store
<1>5. ASSUME NEW r \in Removals, RemovalStep(r) PROVE CalmInv'
  BY <1>5, RemovalStepCalm
<1>6. ASSUME NEW p \in Processes, Kill(p) PROVE CalmInv'
  BY <1>6 DEF Kill, CalmInv, Calm
<1>7. CASE UNCHANGED vars
  BY <1>7, QuietCalm DEF vars, store
<1> QED
  BY <1>2, <1>3, <1>4, <1>5, <1>6, <1>7 DEF Next

(* No authority stays in the trust store where nobody can find it to remove   *)
(* it, for any number of calls and removals in any order, unless operations   *)
(* overlapped or failed or a call that must not touch the trust store         *)
(* replaced its certificate: trusted.js, with certutil and with p11-kit.      *)
THEOREM TrustStaysKnown == Spec => []TrustIsKnown
<1>1. Spec => []CalmInv
  BY InitCalm, AlwaysIInv, NextCalm, PTL DEF Spec
<1>2. CalmInv => TrustIsKnown
  BY DEF CalmInv, Calm, Orderly, Findable, TrustIsKnown
<1> QED
  BY <1>1, <1>2, PTL

-----------------------------------------------------------------------------
(* Results.  A call that has run alone is the only operation under way, and   *)
(* its stage says what it may still rely on when it returns, whatever failed  *)
(* or was killed before it.                                                   *)
Alone(c) == c \in Running /\ c \notin crowded

Course(c) ==
    /\ pc[c] \in Undecided => previous[c] = pointer
    /\ pc[c] \in {"checking", "asking", "installing", "verifying"} /\ c \notin fresh =>
          ProfileOf[previous[c]] = ProfileOf[c]
    /\ pc[c] \in {"asking", "installing", "verifying"} /\ c \notin fresh =>
          Files(previous[c]) \subseteq files
    /\ pc[c] \in {"untrusting", "distrusting", "writing", "cleaning"} /\ c \in Installs =>
          c \in trusted
    /\ pc[c] = "cleaning" => pointer = c /\ Files(c) \subseteq files

\* Before these are over a call has made no authority.
Young == {"new", "reading", "validating", "checking"}

AloneInv ==
    \A c \in Calls :
        /\ pc[c] \in Young => c \notin fresh
        /\ pc[c] \in {"new", "reading"} => previous[c] = None
        /\ Alone(c) => Running = {c} /\ Course(c)

LEMMA InitAlone == Init => AloneInv
BY DEF Init, AloneInv, Alone, Running, Operations

\* A step of an operation under way: all that may be alone is the operation.
LEMMA AloneStep ==
  ASSUME IInv, AloneInv, NEW o \in Operations, o \in Running,
         NEW w, w \notin {"new", "reading"}, Goto(o, w), UNCHANGED <<killed, crowded>>,
         \A u \in Operations : u # o => previous'[u] = previous[u],
         w \in Young => pc[o] \in Young /\ fresh' = fresh,
         fresh' \subseteq fresh \cup {o},
         o \in Calls /\ Course(o) /\ Running = {o} /\ w \notin Settled => Course(o)'
  PROVE  AloneInv'
<1>1. pc'[o] = w /\ \A u \in Operations : u # o => pc'[u] = pc[u]
  BY GotoEffect DEF IInv
<1>2. Running' \subseteq Running /\ (o \in Running' => w \notin Settled)
  BY <1>1 DEF Running
<1>3. ASSUME NEW c \in Calls, Alone(c)'
      PROVE  Running' = {c} /\ Course(c)'
  <2>1. Alone(c)
    BY <1>2, <1>3 DEF Alone
  <2>2. Running = {c} /\ Course(c) /\ c = o
    BY <2>1 DEF AloneInv
  <2>3. Running' = {c}
    BY <1>2, <1>3, <2>2 DEF Alone
  <2> QED
    BY <1>2, <2>2, <2>3
<1>4. ASSUME NEW c \in Calls
      PROVE  /\ pc'[c] \in Young => c \notin fresh'
             /\ pc'[c] \in {"new", "reading"} => previous'[c] = None
  <2>1. c \in Operations
    BY DEF Operations
  <2>2. CASE c = o
    BY <1>1, <2>2 DEF AloneInv
  <2>3. CASE c # o
    BY <1>1, <2>1, <2>3 DEF AloneInv
  <2> QED
    BY <2>2, <2>3
<1> QED
  BY <1>3, <1>4 DEF AloneInv

LEMMA BeginAlone == ASSUME IInv, AloneInv, NEW o \in Operations, Begin(o) PROVE AloneInv'
<1> USE DEF Begin, store
<1>1. pc'[o] = "reading" /\ pc[o] = "new" /\ \A u \in Operations : u # o => pc'[u] = pc[u]
  BY GotoEffect DEF IInv
<1>2. /\ Running' \subseteq Running \cup {o}
      /\ \A u \in Running : u # o => u \in Running'
      /\ o \notin Running
  BY <1>1 DEF Running, Settled
<1>3. ASSUME NEW c \in Calls, Alone(c)'
      PROVE  Running' = {c} /\ Course(c)'
  <2>1. CASE c = o
    <3>1. Strangers(o) = {}
      BY <1>3, <2>1 DEF Alone
    <3>2. Running = {}
      <4>1. ASSUME NEW u \in Running PROVE FALSE
        <5>1. u \notin Removals /\ o \notin Removals /\ ProcessOf[u] = ProcessOf[o]
          BY <3>1, <4>1 DEF Strangers
        <5>2. u \in Calls /\ o \in Calls
          BY <4>1, <5>1 DEF Running, Operations
        <5> QED
          BY <4>1, <5>1, <5>2
      <4> QED
        BY <4>1
    <3>3. Running' = {c}
      BY <1>2, <1>3, <2>1, <3>2 DEF Alone
    <3>4. Course(c)'
      BY <1>1, <2>1 DEF Course, Undecided
    <3> QED
      BY <3>3, <3>4
  <2>2. CASE c # o
    <3>1. c \in Running /\ c \notin crowded
      BY <1>2, <1>3, <2>2 DEF Alone
    <3>2. c \in Strangers(o)
      <4>1. CASE o \in Calls
        BY <3>1, <4>1 DEF Strangers
      <4>2. CASE o \notin Calls
        BY <3>1, <4>2 DEF Strangers, Operations
      <4> QED
        BY <4>1, <4>2
    <3>3. c \in crowded'
      BY <3>2
    <3> QED
      BY <1>3, <3>3 DEF Alone
  <2> QED
    BY <2>1, <2>2
<1>4. ASSUME NEW c \in Calls
      PROVE  /\ pc'[c] \in Young => c \notin fresh'
             /\ pc'[c] \in {"new", "reading"} => previous'[c] = None
  <2>1. c \in Operations
    BY DEF Operations
  <2> QED
    BY <1>1, <2>1 DEF AloneInv, Young
<1> QED
  BY <1>3, <1>4 DEF AloneInv

LEMMA ReadCacheAlone ==
  ASSUME IInv, AloneInv, NEW o \in Operations, ReadCache(o) PROVE AloneInv'
<1> USE CertificatesAssumption DEF ReadCache, store, At
<1>1. /\ o \in Running /\ pc[o] = "reading"
      /\ UNCHANGED <<killed, crowded, fresh, pointer>>
      /\ previous \in [Operations -> Calls \cup {None}]
  BY DEF Running, Settled, IInv, TypeOK
<1>2. PICK w \in {"validating", "generating", "nothing"} : Goto(o, w)
  BY DEF ReadCache
<1>3. pc'[o] = w
  BY <1>2, GotoEffect DEF IInv
<1>4. \A u \in Operations : u # o => previous'[u] = previous[u]
  BY <1>1
<1>5. ASSUME o \in Calls
      PROVE  Course(o)'
  <2>1. previous[o] = None
    BY <1>1, <1>5 DEF AloneInv
  <2>2. previous'[o] = pointer
    BY <1>1, <2>1
  <2> QED
    BY <1>1, <1>2, <1>3, <2>2 DEF Course, Undecided
<1> QED
  BY <1>1, <1>2, <1>4, <1>5, AloneStep DEF Young

LEMMA DeniedAlone == ASSUME IInv, AloneInv, NEW o \in Operations, Denied(o) PROVE AloneInv'
<1>1. /\ o \in Running /\ Goto(o, "rejected")
      /\ UNCHANGED <<killed, crowded, fresh, previous>>
  BY DEF Denied, Reject, Running, Settled
<1> QED
  BY <1>1, AloneStep DEF Young, Settled

LEMMA ValidateAlone == ASSUME IInv, AloneInv, NEW c \in Calls, Validate(c) PROVE AloneInv'
<1> USE DEF Validate, store, At
<1>1. /\ c \in Running /\ c \in Operations /\ pc[c] = "validating"
      /\ UNCHANGED <<killed, crowded, fresh, previous, pointer, files>>
  BY DEF Running, Settled, Operations
<1>2. PICK w \in {"checking", "generating"} :
             /\ Goto(c, w)
             /\ w = "checking" => ProfileOf[previous[c]] = ProfileOf[c]
  BY DEF Validate
<1>3. pc'[c] = w
  BY <1>1, <1>2, GotoEffect DEF IInv
<1>4. Course(c) => Course(c)'
  BY <1>1, <1>2, <1>3 DEF Course, Undecided
<1> QED
  BY <1>1, <1>2, <1>4, AloneStep DEF Young

LEMMA CheckAlone == ASSUME IInv, AloneInv, NEW c \in Calls, Check(c) PROVE AloneInv'
<1> USE DEF Check, store, At
<1>1. /\ c \in Running /\ c \in Operations /\ pc[c] = "checking"
      /\ UNCHANGED <<killed, crowded, fresh, previous, pointer, files>>
  BY DEF Running, Settled, Operations
<1>2. PICK w \in {"asking", "done", "generating"} :
             Goto(c, w) /\ (w = "asking" => Files(previous[c]) \subseteq files)
  BY DEF Check
<1>3. pc'[c] = w
  BY <1>1, <1>2, GotoEffect DEF IInv
<1>4. Course(c) => Course(c)'
  BY <1>1, <1>2, <1>3 DEF Course, Undecided, Files
<1> QED
  BY <1>1, <1>2, <1>4, AloneStep DEF Young

LEMMA GenerateAlone == ASSUME IInv, AloneInv, NEW c \in Calls, Generate(c) PROVE AloneInv'
<1> USE DEF Generate, At, Reject
<1>1. /\ c \in Running /\ c \in Operations /\ pc[c] = "generating"
      /\ UNCHANGED <<killed, crowded, previous, pointer, trusted>>
      /\ fresh' \subseteq fresh \cup {c}
  BY DEF Running, Settled, Operations
<1>2. PICK w \in {"asking", "writing", "rejected"} :
             /\ Goto(c, w)
             /\ w = "writing" => c \notin Installs
             /\ w = "rejected" \/ c \in fresh'
  BY DEF Generate
<1>3. pc'[c] = w
  BY <1>1, <1>2, GotoEffect DEF IInv
<1>4. Course(c) => Course(c)' \/ w \in Settled
  BY <1>1, <1>2, <1>3 DEF Course, Undecided, Settled
<1> QED
  BY <1>1, <1>2, <1>4, AloneStep DEF Young

\* The authority is trusted, or its trust could not be had.
LEMMA TrustAlone ==
  ASSUME IInv, AloneInv, ~ByName, NEW c \in Calls, pc[c] \in {"asking", "verifying"},
         ProcessOf[c] \notin killed,
         \/ IsTrusted(Target(c)) /\ TrustIsThere(c)
         \/ Goto(c, "installing") /\ pc[c] = "asking"
         \/ TrustFails(c),
         UNCHANGED <<store, previous, fresh, killed, crowded>>
  PROVE  AloneInv'
<1> USE DEF store
<1>1. c \in Running /\ c \in Operations
  BY DEF Running, Settled, Operations
<1>2. PICK w \in {"installing", "generating", "rejected", "done", "untrusting", "writing"} :
             /\ Goto(c, w)
             /\ w \in {"untrusting", "writing"} => c \in fresh /\ IsTrusted(Target(c))
  BY DEF TrustIsThere, TrustFails
<1>3. pc'[c] = w
  BY <1>1, <1>2, GotoEffect DEF IInv
<1>4. w \in {"untrusting", "writing"} => c \in trusted
  BY <1>2 DEF IsTrusted, Target
<1>5. Course(c) => Course(c)' \/ w \in Settled
  BY <1>1, <1>2, <1>3, <1>4 DEF Course, Undecided, Settled, Files
<1> QED
  BY <1>1, <1>2, <1>5, AloneStep DEF Young

LEMMA AskAlone == ASSUME IInv, AloneInv, ~ByName, NEW c \in Calls, Ask(c) PROVE AloneInv'
BY TrustAlone DEF Ask, At

LEMMA VerifyAlone ==
  ASSUME IInv, AloneInv, ~ByName, NEW c \in Calls, Verify(c) PROVE AloneInv'
BY TrustAlone DEF Verify, At

LEMMA InstallAlone == ASSUME IInv, AloneInv, NEW c \in Calls, Install(c) PROVE AloneInv'
<1> USE DEF Install, At, TrustFails
<1>1. /\ c \in Running /\ c \in Operations /\ pc[c] = "installing"
      /\ UNCHANGED <<killed, crowded, fresh, previous, pointer, files>>
  BY DEF Running, Settled, Operations
<1>2. PICK w \in {"verifying", "generating", "rejected"} : Goto(c, w)
  BY DEF Install
<1>3. pc'[c] = w
  BY <1>1, <1>2, GotoEffect DEF IInv
<1>4. Course(c) => Course(c)'
  BY <1>1, <1>2, <1>3 DEF Course, Undecided, Files
<1> QED
  BY <1>1, <1>2, <1>4, AloneStep DEF Young

\* What a call has read is not its own certificate.
LEMMA OtherIsRead ==
  ASSUME IInv, NEW c \in Calls, pc[c] \notin Past
  PROVE  previous[c] # c
<1>1. c \in Operations /\ c # None
  BY CertificatesAssumption DEF Operations
<1> QED
  BY <1>1 DEF IInv, Names, NamesArePublished, Published

LEMMA AskPreviousAlone ==
  ASSUME IInv, AloneInv, NEW o \in Operations, AskPrevious(o) PROVE AloneInv'
<1> USE DEF AskPrevious, store, At, Continue, Reject
<1>1. /\ o \in Running /\ pc[o] = "untrusting"
      /\ UNCHANGED <<killed, crowded, fresh, previous, pointer, trusted>>
  BY DEF Running, Settled
<1>2. PICK w \in {"distrusting", "writing", "cleaning", "rejected"} :
             Goto(o, w) /\ (o \in Calls => w # "cleaning")
  BY DEF AskPrevious
<1>3. pc'[o] = w
  BY <1>2, GotoEffect DEF IInv
<1>4. o \in Calls /\ Course(o) => Course(o)'
  BY <1>1, <1>2, <1>3 DEF Course, Undecided
<1> QED
  BY <1>1, <1>2, <1>4, AloneStep DEF Young

LEMMA DistrustAlone ==
  ASSUME IInv, AloneInv, NEW o \in Operations, Distrust(o) PROVE AloneInv'
<1> USE DEF Distrust, At, Continue, Reject
<1>1. /\ o \in Running /\ pc[o] = "distrusting"
      /\ UNCHANGED <<killed, crowded, fresh, previous, pointer>>
      /\ trusted \ {previous[o]} \subseteq trusted'
  BY DEF Running, Settled
<1>2. PICK w \in {"writing", "cleaning", "rejected"} :
             Goto(o, w) /\ (o \in Calls => w # "cleaning")
  BY DEF Distrust
<1>3. pc'[o] = w
  BY <1>2, GotoEffect DEF IInv
<1>4. ASSUME o \in Calls, Course(o), w \notin Settled
      PROVE  Course(o)'
  <2>1. previous[o] # o
    BY <1>1, <1>4, OtherIsRead DEF Past
  <2>2. o \in Installs => o \in trusted'
    BY <1>1, <1>4, <2>1 DEF Course
  <2> QED
    BY <1>1, <1>2, <1>3, <1>4, <2>2 DEF Course, Undecided, Settled
<1> QED
  BY <1>1, <1>2, <1>4, AloneStep DEF Young

LEMMA WritePointerAlone ==
  ASSUME IInv, AloneInv, NEW c \in Calls, WritePointer(c) PROVE AloneInv'
<1> USE DEF WritePointer, At, Reject
<1>1. /\ c \in Running /\ c \in Operations /\ pc[c] = "writing"
      /\ UNCHANGED <<killed, crowded, fresh, previous, trusted, files>>
  BY DEF Running, Settled, Operations
<1>2. PICK w \in {"cleaning", "done", "rejected"} :
             Goto(c, w) /\ (w = "cleaning" => pointer' = c)
  BY DEF WritePointer
<1>3. pc'[c] = w
  BY <1>1, <1>2, GotoEffect DEF IInv
<1>4. Files(c) \subseteq files
  BY <1>1 DEF IInv, Names, ReplacersAreFresh, Replacing, OwnFilesKept, Past
<1>5. Course(c) => Course(c)' \/ w \in Settled
  BY <1>1, <1>2, <1>3, <1>4 DEF Course, Undecided, Settled, Files
<1> QED
  BY <1>1, <1>2, <1>5, AloneStep DEF Young

LEMMA CleanUpAlone == ASSUME IInv, AloneInv, NEW c \in Calls, CleanUp(c) PROVE AloneInv'
<1>1. /\ c \in Running /\ c \in Operations
      /\ UNCHANGED <<killed, crowded, fresh, previous>>
  BY DEF CleanUp, At, Running, Settled, Operations
<1>2. PICK w \in {"done", "rejected"} : Goto(c, w)
  BY DEF CleanUp, Reject
<1> QED
  BY <1>1, <1>2, AloneStep DEF Young, Settled

LEMMA RemovalStepAlone ==
  ASSUME IInv, AloneInv, NEW r \in Removals, RemovalStep(r) PROVE AloneInv'
<1> USE CertificatesAssumption
<1>1. /\ r \in Running /\ r \in Operations /\ r \notin Calls
      /\ UNCHANGED <<killed, crowded, fresh, previous>>
  BY DEF RemovalStep, ValidateRemoval, RemoveFiles, RemovePointer, RemoveFails, At, Running,
         Settled, Operations, store
<1>2. PICK w \in {"untrusting", "rejected", "files removed", "pointer removed", "done"} :
             Goto(r, w)
  BY DEF RemovalStep, ValidateRemoval, RemoveFiles, RemovePointer, RemoveFails, Reject
<1> QED
  BY <1>1, <1>2, AloneStep DEF Young

LEMMA NextAlone == ~ByName /\ IInv /\ AloneInv /\ [Next]_vars => AloneInv'
<1> SUFFICES ASSUME ~ByName, IInv, AloneInv, [Next]_vars PROVE AloneInv'
  OBVIOUS
<1>1. ASSUME NEW o \in Operations,
             Begin(o) \/ ReadCache(o) \/ Denied(o) \/ AskPrevious(o) \/ Distrust(o)
      PROVE  AloneInv'
  BY <1>1, BeginAlone, ReadCacheAlone, DeniedAlone, AskPreviousAlone, DistrustAlone
<1>2. ASSUME NEW c \in Calls, EnsureStep(c) PROVE AloneInv'
  BY <1>2, ValidateAlone, CheckAlone, GenerateAlone, AskAlone, InstallAlone, VerifyAlone,
     WritePointerAlone, CleanUpAlone DEF EnsureStep
<1>3. ASSUME NEW a \in Calls, Expire(a) PROVE AloneInv'
  BY <1>3 DEF Expire, store, AloneInv, Alone, Running, Course, Files
<1>4. ASSUME NEW r \in Removals, RemovalStep(r) PROVE AloneInv'
  BY <1>4, RemovalStepAlone
<1>5. ASSUME NEW p \in Processes, Kill(p) PROVE AloneInv'
  <2>1. /\ Running' \subseteq Running
        /\ UNCHANGED <<pointer, files, trusted, pc, previous, fresh, crowded>>
    BY <1>5 DEF Kill, store, Running
  <2>2. \A c \in Calls : Alone(c)' => Alone(c) /\ Running' = Running
    BY <2>1 DEF Alone, AloneInv
  <2> QED
    BY <2>1, <2>2 DEF AloneInv, Course, Files
<1>6. CASE UNCHANGED vars
  BY <1>6 DEF vars, store, AloneInv, Alone, Running, Course, Files
<1> QED
  BY <1>1, <1>2, <1>3, <1>4, <1>5, <1>6 DEF Next

\* The steps with which a call returns.
LEMMA ReturnUsable ==
  ASSUME ~ByName, IInv, AloneInv, [Next]_vars, NEW c \in Calls, Returns(c), c \notin crowded
  PROVE  Usable(c)'
<1>o. c \in Operations /\ c \notin Removals
  BY CertificatesAssumption DEF Operations
<1>1. \A o \in Operations : \A w : Goto(o, w) => o = c /\ w = "done"
  <2>1. ASSUME NEW o \in Operations, NEW w, Goto(o, w) PROVE o = c /\ w = "done"
    BY <1>o, <2>1, GotoEffect DEF Returns, IInv
  <2> QED
    BY <2>1
<1>a. c \in Running => Course(c)
  BY DEF AloneInv, Alone
<1>2. CASE Check(c)
  <2>1. /\ pc[c] = "checking" /\ c \in Running
        /\ UNCHANGED <<pointer, files, trusted, previous, fresh>>
    BY <1>o, <1>2 DEF Check, At, store, Running, Settled
  <2>2. Goto(c, "done") => Files(previous[c]) \subseteq files /\ c \notin Installs
    BY <1>1, <1>2, <1>o DEF Check
  <2>3. Goto(c, "done")
    BY <1>1, <1>2, <1>o DEF Check
  <2>4. Target(c)' = previous[c] /\ c \notin fresh
    BY <2>1 DEF AloneInv, Young, Target
  <2> QED
    BY <1>a, <2>1, <2>2, <2>3, <2>4 DEF Usable, Course, Undecided, Files
<1>3. CASE Ask(c) \/ Verify(c)
  <2>1. /\ pc[c] \in {"asking", "verifying"} /\ c \in Running
        /\ UNCHANGED <<pointer, files, trusted, previous, fresh>>
    BY <1>o, <1>3 DEF Ask, Verify, At, store, Running, Settled
  <2>2. IsTrusted(Target(c)) /\ TrustIsThere(c)
    BY <1>1, <1>3, <1>o DEF Ask, Verify, TrustFails
  <2>3. c \notin fresh
    BY <1>1, <1>o, <2>2 DEF TrustIsThere
  <2>4. Target(c)' = previous[c] /\ previous[c] \in trusted
    BY <2>1, <2>2, <2>3 DEF Target, IsTrusted
  <2> QED
    BY <1>a, <2>1, <2>3, <2>4 DEF Usable, Course, Undecided, Files
<1>4. CASE WritePointer(c)
  <2>1. /\ pc[c] = "writing" /\ c \in Running /\ pointer' = c
        /\ UNCHANGED <<files, trusted, previous, fresh>>
    BY <1>1, <1>4, <1>o DEF WritePointer, Reject, At, Running, Settled
  <2>2. c \in fresh /\ Files(c) \subseteq files
    BY <2>1 DEF IInv, Names, ReplacersAreFresh, Replacing, OwnFilesKept, Past
  <2> QED
    BY <1>a, <2>1, <2>2 DEF Usable, Target, Course, Files
<1>5. CASE CleanUp(c)
  <2>1. /\ pc[c] = "cleaning" /\ c \in Running
        /\ files' = files \ Files(previous[c])
        /\ UNCHANGED <<pointer, trusted, previous, fresh>>
    BY <1>1, <1>5, <1>o DEF CleanUp, Reject, At, Running, Settled
  <2>2. pointer = c /\ Files(c) \subseteq files /\ (c \in Installs => c \in trusted)
    BY <1>a, <2>1 DEF Course
  <2>3. c \in fresh /\ previous[c] # c
    BY <1>o, <2>1, <2>2, CertificatesAssumption
       DEF IInv, Names, NamesArePublished, Published, Superseded
  <2>4. Files(c) \subseteq files'
    BY <2>1, <2>2, <2>3 DEF Files
  <2> QED
    BY <2>1, <2>2, <2>3, <2>4 DEF Usable, Target, Files
<1>6. ASSUME NEW o \in Operations,
             Begin(o) \/ ReadCache(o) \/ Denied(o) \/ AskPrevious(o) \/ Distrust(o)
      PROVE  FALSE
  BY <1>1, <1>6, <1>o DEF Begin, ReadCache, Denied, AskPrevious, Distrust, Continue, Reject
<1>7. ASSUME NEW d \in Calls, Validate(d) \/ Generate(d) \/ Install(d)
      PROVE  FALSE
  <2>1. d \in Operations
    BY DEF Operations
  <2> QED
    BY <1>1, <1>7, <2>1 DEF Validate, Generate, Install, TrustFails, Reject
<1>8. ASSUME NEW d \in Calls, d # c, Check(d) \/ Ask(d) \/ Verify(d) \/ WritePointer(d) \/ CleanUp(d)
      PROVE  FALSE
  <2>1. d \in Operations
    BY DEF Operations
  <2> QED
    BY <1>1, <1>8, <2>1 DEF Check, Ask, Verify, WritePointer, CleanUp, TrustFails,
                            TrustIsThere, Reject
<1>9. ASSUME NEW r \in Removals, RemovalStep(r) PROVE FALSE
  <2>1. r \in Operations
    BY DEF Operations
  <2> QED
    BY <1>1, <1>9, <1>o, <2>1 DEF RemovalStep, ValidateRemoval, RemoveFiles, RemovePointer,
                                  RemoveFails, Reject
<1>10. ASSUME UNCHANGED pc PROVE FALSE
  BY <1>10 DEF Returns
<1> QED
  BY <1>2, <1>3, <1>4, <1>5, <1>6, <1>7, <1>8, <1>9, <1>10
     DEF Next, EnsureStep, Expire, Kill, vars

(* A call that runs alone returns the current certificate of the directory,   *)
(* for its own profile, with its files, and trusted if it was to be, however   *)
(* many processes called, failed or were killed before: trusted.js, where      *)
(* trust is looked up by the authority and not by its name, as p11-kit does.   *)
THEOREM ResultsAreUsable == ASSUME ~ByName PROVE Spec => ResultIsUsable
<1>1. Spec => []AloneInv
  BY InitAlone, AlwaysIInv, NextAlone, PTL DEF Spec
<1>2. IInv /\ AloneInv /\ [Next]_vars =>
         [\A c \in Calls : Returns(c) /\ c \notin crowded => Usable(c)']_vars
  BY ReturnUsable
<1> QED
  BY <1>1, <1>2, AlwaysIInv, PTL DEF Spec, ResultIsUsable
===============================================================================
