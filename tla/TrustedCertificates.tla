-------------------------- MODULE TrustedCertificates --------------------------
(***************************************************************************)
(* packages/dev-certificates/trusted.js: certificates for one directory,   *)
(* each signed by an authority of its own that is installed in the trust   *)
(* store of the operating system.                                          *)
(*                                                                         *)
(* A call of ensureTrustedDevelopmentCertificate makes at most one         *)
(* authority, which is named after the call.  The calls of a process are   *)
(* queued; removeTrustedDevelopmentCertificate is not, and neither knows   *)
(* of other processes.  Every file access and every command is an await,   *)
(* at which other operations run and the process may be killed.            *)
(***************************************************************************)
EXTENDS FiniteSets

CONSTANTS
    Calls,          \* calls of ensureTrustedDevelopmentCertificate
    Removals,       \* calls of removeTrustedDevelopmentCertificate
    Processes,
    ProcessOf,      \* the process of every operation
    ProfileOf,      \* the names and options each call asks for
    Installs,       \* calls without installTrust: false
    ByName,         \* p11-kit: trust is looked up by the name of the authority,
                    \* which all profiles share
    None            \* no authority

Operations == Calls \cup Removals

ASSUME CertificatesAssumption ==
    /\ Calls \cap Removals = {} /\ None \notin Calls
    /\ ProcessOf \in [Operations -> Processes]
    /\ DOMAIN ProfileOf = Calls
    /\ Installs \subseteq Calls
    /\ ByName \in BOOLEAN

VARIABLES
    \* The directory and the operating system.
    pointer,        \* trusted-current.json
    files,          \* <<authority, "authority" or "leaf">>: the certificate of the
                    \* authority; the server's certificate and its key
    trusted,        \* authorities in the trust store
    expired,        \* authorities whose certificates are due for renewal
    \* The operations.
    pc,             \* the await at which each stands
    previous,       \* the pointer it has read
    known,          \* calls that set previousAuthority
    fresh,          \* calls that made an authority
    killed,         \* processes that were killed
    \* History.
    crowded,        \* operations that overlapped one they are not queued with
    troubled        \* an operation was killed or failed

store == <<pointer, files, trusted>>
vars == <<pointer, files, trusted, expired, pc, previous, known, fresh, killed,
          crowded, troubled>>

Init ==
    /\ pointer = None /\ files = {} /\ trusted = {} /\ expired = {}
    /\ pc = [o \in Operations |-> "new"]
    /\ previous = [o \in Operations |-> None]
    /\ known = {} /\ fresh = {} /\ killed = {}
    /\ crowded = {} /\ troubled = FALSE

Files(a) == {<<a, "authority">>, <<a, "leaf">>}
Settled == {"done", "nothing", "rejected"}
Running == {o \in Operations : pc[o] \notin {"new"} \cup Settled /\ ProcessOf[o] \notin killed}
At(o, await) == pc[o] = await /\ ProcessOf[o] \notin killed
Goto(o, await) == pc' = [pc EXCEPT ![o] = await]

(* The operation is over and its promise rejected. *)
Reject(o) == Goto(o, "rejected") /\ troubled' = TRUE

\* The authority whose trust a call is after.
Target(c) == IF c \in fresh THEN c ELSE previous[c]

-----------------------------------------------------------------------------
(* Operations that are not in one queue with this one. *)
Strangers(o) ==
    {u \in Running : u \in Removals \/ o \in Removals \/ ProcessOf[u] # ProcessOf[o]}

(* Mutant: calls do not wait for each other. *)
BeginUnqueued(o) ==
    /\ pc[o] = "new" /\ ProcessOf[o] \notin killed
    /\ Goto(o, "reading")
    /\ crowded' = IF Strangers(o) = {} THEN crowded ELSE crowded \cup Strangers(o) \cup {o}
    /\ UNCHANGED <<store, expired, previous, known, fresh, killed, troubled>>

(* A call begins when the calls before it have settled, a removal at once.    *)
Begin(o) ==
    /\ pc[o] = "new" /\ ProcessOf[o] \notin killed
    /\ o \in Calls => \A u \in Running \cap Calls : ProcessOf[u] # ProcessOf[o]
    /\ Goto(o, "reading")
    /\ crowded' = IF Strangers(o) = {} THEN crowded ELSE crowded \cup Strangers(o) \cup {o}
    /\ UNCHANGED <<store, expired, previous, known, fresh, killed, troubled>>

(* readCache. *)
ReadCache(o) ==
    /\ At(o, "reading")
    /\ \/ /\ pointer # None
          /\ previous' = [previous EXCEPT ![o] = pointer]
          /\ Goto(o, "validating")
       \/ /\ pointer = None
          /\ Goto(o, IF o \in Calls THEN "generating" ELSE "nothing")
          /\ UNCHANGED previous
    /\ UNCHANGED <<store, expired, known, fresh, killed, crowded, troubled>>

(* A file or a directory is not accessible: such errors are not recovered.    *)
Denied(o) ==
    /\ pc[o] \in {"reading", "validating", "checking"} /\ ProcessOf[o] \notin killed
    /\ Reject(o)
    /\ UNCHANGED <<store, expired, previous, known, fresh, killed, crowded>>

(* validateCachedAuthority of a call, and the comparison of the profiles: an  *)
(* authority that is not there or does not fit is replaced.                   *)
Validate(c) ==
    /\ At(c, "validating")
    /\ \/ /\ <<previous[c], "authority">> \in files
          /\ known' = known \cup {c}
          /\ Goto(c, IF ProfileOf[previous[c]] = ProfileOf[c] THEN "checking" ELSE "generating")
       \/ /\ <<previous[c], "authority">> \notin files
          /\ Goto(c, "generating")
          /\ UNCHANGED known
    /\ UNCHANGED <<store, expired, previous, fresh, killed, crowded, troubled>>

(* readStoredCertificate. *)
Check(c) ==
    /\ At(c, "checking")
    /\ \/ /\ Files(previous[c]) \subseteq files /\ previous[c] \notin expired
          /\ Goto(c, IF c \in Installs THEN "asking" ELSE "done")
       \/ /\ ~(Files(previous[c]) \subseteq files) \/ previous[c] \in expired
          /\ Goto(c, "generating")
    /\ UNCHANGED <<store, expired, previous, known, fresh, killed, crowded, troubled>>

(* The new authority and its certificate are written under names of their own, *)
(* or only some of them.                                                      *)
Generate(c) ==
    /\ At(c, "generating")
    /\ \/ /\ files' = files \cup Files(c)
          /\ fresh' = fresh \cup {c}
          /\ Goto(c, IF c \in Installs THEN "asking" ELSE "writing")
          /\ UNCHANGED troubled
       \/ /\ \E written \in SUBSET Files(c) : files' = files \cup written
          /\ Reject(c)
          /\ UNCHANGED fresh
    /\ UNCHANGED <<pointer, trusted, expired, previous, known, killed, crowded>>

-----------------------------------------------------------------------------
(* authorityIsTrusted. *)
IsTrusted(a) == IF ByName THEN trusted # {} ELSE a \in trusted

(* An error of ensureAuthorityTrusted.  While a stored certificate is being   *)
(* reused it is taken for an unusable cache, unless access was denied.        *)
TrustFails(c) ==
    /\ troubled' = TRUE
    /\ \/ c \notin fresh /\ Goto(c, "generating")
       \/ Goto(c, "rejected")

TrustIsThere(c) ==
    /\ Goto(c, IF c \notin fresh THEN "done"
               ELSE IF c \in known THEN "untrusting" ELSE "writing")
    /\ UNCHANGED troubled

(* ensureAuthorityTrusted: is the authority trusted already? *)
Ask(c) ==
    /\ At(c, "asking")
    /\ \/ <<Target(c), "authority">> \in files /\ IsTrusted(Target(c)) /\ TrustIsThere(c)
       \/ /\ <<Target(c), "authority">> \in files /\ ~IsTrusted(Target(c))
          /\ Goto(c, "installing")
          /\ UNCHANGED troubled
       \/ TrustFails(c)
    /\ UNCHANGED <<store, expired, previous, known, fresh, killed, crowded>>

(* installAuthorityTrust, which fails if the user refuses to be elevated, and *)
(* may fail after it has changed the trust store.                            *)
Install(c) ==
    /\ At(c, "installing")
    /\ \/ trusted' = trusted \cup {Target(c)} /\ Goto(c, "verifying") /\ UNCHANGED troubled
       \/ trusted' \in {trusted, trusted \cup {Target(c)}} /\ TrustFails(c)
    /\ UNCHANGED <<pointer, files, expired, previous, known, fresh, killed, crowded>>

(* Did it help? *)
Verify(c) ==
    /\ At(c, "verifying")
    /\ \/ IsTrusted(Target(c)) /\ TrustIsThere(c)
       \/ TrustFails(c)
    /\ UNCHANGED <<store, expired, previous, known, fresh, killed, crowded>>

-----------------------------------------------------------------------------
(* removeAuthorityTrust of the previous authority, first its question ...      *)
Continue(o) == Goto(o, IF o \in Calls THEN "writing" ELSE "cleaning")

AskPrevious(o) ==
    /\ At(o, "untrusting")
    /\ \/ IsTrusted(previous[o]) /\ Goto(o, "distrusting") /\ UNCHANGED troubled
       \/ ~IsTrusted(previous[o]) /\ Continue(o) /\ UNCHANGED troubled
       \/ Reject(o)
    /\ UNCHANGED <<store, expired, previous, known, fresh, killed, crowded>>

(* Mutant: the trust of a replaced authority stays. *)
DistrustRemovalsOnly(o) ==
    /\ At(o, "distrusting")
    /\ trusted' = IF o \in Removals THEN trusted \ {previous[o]} ELSE trusted
    /\ Continue(o)
    /\ UNCHANGED <<pointer, files, expired, previous, known, fresh, killed, crowded, troubled>>

(* ... then its command. *)
Distrust(o) ==
    /\ At(o, "distrusting")
    /\ \/ trusted' = trusted \ {previous[o]} /\ Continue(o) /\ UNCHANGED troubled
       \/ trusted' \in {trusted, trusted \ {previous[o]}} /\ Reject(o)
    /\ UNCHANGED <<pointer, files, expired, previous, known, fresh, killed, crowded>>

(* writeAtomically. *)
WritePointer(c) ==
    /\ At(c, "writing")
    /\ \/ /\ pointer' = c
          /\ Goto(c, IF c \in known THEN "cleaning" ELSE "done")
          /\ UNCHANGED troubled
       \/ Reject(c) /\ UNCHANGED pointer
    /\ UNCHANGED <<files, trusted, expired, previous, known, fresh, killed, crowded>>

(* Mutant: the directory is cleared of everything else. *)
CleanUpOthers(c) ==
    /\ c \in Calls /\ At(c, "cleaning")
    /\ files' = files \cap Files(c)
    /\ Goto(c, "done")
    /\ UNCHANGED <<pointer, trusted, expired, previous, known, fresh, killed, crowded, troubled>>

(* The files of the replaced authority go. *)
CleanUp(c) ==
    /\ c \in Calls /\ At(c, "cleaning")
    /\ \/ files' = files \ Files(previous[c]) /\ Goto(c, "done") /\ UNCHANGED troubled
       \/ files' \in {files \ Files(previous[c]), files} /\ Reject(c)
    /\ UNCHANGED <<pointer, trusted, expired, previous, known, fresh, killed, crowded>>

-----------------------------------------------------------------------------
(* removeTrustedDevelopmentCertificate gives up on a cache that does not fit. *)
ValidateRemoval(r) ==
    /\ At(r, "validating")
    /\ \/ /\ <<previous[r], "authority">> \in files
          /\ Goto(r, "untrusting")
          /\ UNCHANGED troubled
       \/ <<previous[r], "authority">> \notin files /\ Reject(r)
    /\ UNCHANGED <<store, expired, previous, known, fresh, killed, crowded>>

(* The files and the pointer are removed, in any order. *)
RemoveFiles(r) ==
    /\ pc[r] \in {"cleaning", "pointer removed"} /\ ProcessOf[r] \notin killed
    /\ files' = files \ Files(previous[r])
    /\ Goto(r, IF pc[r] = "cleaning" THEN "files removed" ELSE "done")
    /\ UNCHANGED <<pointer, trusted, expired, previous, known, fresh, killed, crowded, troubled>>

RemovePointer(r) ==
    /\ pc[r] \in {"cleaning", "files removed"} /\ ProcessOf[r] \notin killed
    /\ pointer' = None
    /\ Goto(r, IF pc[r] = "cleaning" THEN "pointer removed" ELSE "done")
    /\ UNCHANGED <<files, trusted, expired, previous, known, fresh, killed, crowded, troubled>>

(* An error of one of these does not stop the others. *)
RemoveFails(r) ==
    /\ At(r, "cleaning")
    /\ files' \in {files, files \ Files(previous[r])}
    /\ pointer' \in {pointer, None}
    /\ Reject(r)
    /\ UNCHANGED <<trusted, expired, previous, known, fresh, killed, crowded>>

(* Certificates come due for renewal, and processes are killed.               *)
Expire(a) ==
    /\ a \in fresh \ expired
    /\ expired' = expired \cup {a}
    /\ UNCHANGED <<store, pc, previous, known, fresh, killed, crowded, troubled>>

Kill(p) ==
    /\ p \notin killed /\ \E o \in Running : ProcessOf[o] = p
    /\ killed' = killed \cup {p}
    /\ troubled' = TRUE
    /\ UNCHANGED <<store, expired, pc, previous, known, fresh, crowded>>

EnsureStep(c) ==
    \/ Validate(c) \/ Check(c) \/ Generate(c) \/ Ask(c) \/ Install(c) \/ Verify(c)
    \/ WritePointer(c) \/ CleanUp(c)
RemovalStep(r) == ValidateRemoval(r) \/ RemoveFiles(r) \/ RemovePointer(r) \/ RemoveFails(r)

Next ==
    \/ \E o \in Operations :
          Begin(o) \/ ReadCache(o) \/ Denied(o) \/ AskPrevious(o) \/ Distrust(o)
    \/ \E c \in Calls : EnsureStep(c) \/ Expire(c)
    \/ \E r \in Removals : RemovalStep(r)
    \/ \E p \in Processes : Kill(p)

Spec == Init /\ [][Next]_vars

-----------------------------------------------------------------------------
Awaits == {"new", "reading", "validating", "checking", "generating", "asking",
           "installing", "verifying", "untrusting", "distrusting", "writing", "cleaning",
           "files removed", "pointer removed"} \cup Settled

TypeOK ==
    /\ pointer \in Calls \cup {None}
    /\ files \subseteq Calls \X {"authority", "leaf"}
    /\ expired \subseteq fresh /\ trusted \subseteq fresh /\ fresh \subseteq Calls
    /\ pc \in [Operations -> Awaits]
    /\ previous \in [Operations -> Calls \cup {None}]
    /\ known \subseteq Calls
    /\ killed \subseteq Processes
    /\ crowded \subseteq Operations /\ troubled \in BOOLEAN

(* trusted-current.json never names files that are gone, however many         *)
(* processes rotate the certificate, fail or are killed; only a removal can   *)
(* leave it dangling.                                                        *)
PointerIsWhole ==
    pointer # None =>
        Files(pointer) \subseteq files \/ \E r \in Removals : previous[r] = pointer

(* Every authority in the trust store can be found again to be removed, or an *)
(* operation is busy with it, unless operations overlapped or failed or a     *)
(* call that must not touch the trust store replaced its certificate.         *)
TrustIsKnown ==
    crowded = {} /\ ~troubled =>
        \A a \in trusted :
            \/ a = pointer \/ a \in Running
            \/ \E o \in Running : previous[o] = a
            \/ \E c \in fresh \ Installs : previous[c] = a

(* A call that returns, and ran alone but for those it is queued with, returns *)
(* the current certificate, for its own profile, with its files and trusted   *)
(* if it was to be, whatever failed or was killed before.                     *)
Returns(c) == pc[c] # "done" /\ pc'[c] = "done"

Usable(c) ==
    LET a == Target(c) IN
    /\ a = pointer /\ Files(a) \subseteq files
    /\ ProfileOf[a] = ProfileOf[c]
    /\ c \in Installs => a \in trusted

ResultIsUsable == [][\A c \in Calls : Returns(c) /\ c \notin crowded => Usable(c)']_vars

(* packages/dev-certificates/README.md:86, "installs the CA in the operating   *)
(* system trust store".                                                      *)
InstallsAuthority == [][\A c \in Installs : Returns(c) => Target(c)' \in trusted']_vars
================================================================================
