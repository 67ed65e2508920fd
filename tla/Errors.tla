------------------------------- MODULE Errors -------------------------------
(***************************************************************************)
(* The errors of errors.go and what session.go, fsinfo.go and dirfs.go map *)
(* them to.  An error is the wrappers around its causes, outermost first,  *)
(* and the causes in the order errors.Is and errors.As meet them: one,     *)
(* except that permissionError joins two.  A cause has a kind:             *)
(*   "nt"    the erref.NtStatus of a reply (StatusToError),                *)
(*   "resp"  a *ResponseError, "smb" a *SMBError, which unwraps to one,    *)
(*   "errno" a syscall.Errno, which is a net.Error,                        *)
(*   "plain" a sentinel of os, io, net or context.                         *)
(* A name that ends in a description of what is wrong is a plausible bug   *)
(* in the operator below it.                                               *)
(***************************************************************************)
EXTENDS Naturals, Sequences, SequencesExt

Cause(kind, value) == [kind |-> kind, value |-> value]

Caused(causes) == [wraps |-> << >>, causes |-> causes]

Wrapped(w, e) == [e EXCEPT !.wraps = <<w>> \o @]

Wraps(e, w) == Contains(e.wraps, w)

\* The status errors.As finds for a type of cause; none when no cause has it.
\* *SMBError unwraps to a *ResponseError.
FirstOf(e, kinds) ==
  LET hits == {i \in DOMAIN e.causes : e.causes[i].kind \in kinds}
  IN  IF hits = {} THEN "none"
      ELSE e.causes[CHOOSE i \in hits : \A j \in hits : i <= j].value

AsNtStatus(e) == FirstOf(e, {"nt"})
AsResponseError(e) == FirstOf(e, {"resp", "smb"})
AsSMBError(e) == FirstOf(e, {"smb"})

\* errors.Is; a syscall.Errno is also os.ErrPermission when it is EPERM.
Is(e, value) ==
  \E i \in DOMAIN e.causes :
    \/ e.causes[i].value = value
    \/ e.causes[i] = Cause("errno", "EPERM") /\ value = "ErrPermission"

CarriesStatus(e, statuses) == AsResponseError(e) \in statuses \/ AsNtStatus(e) \in statuses

(***************************************************************************)
(* The predicates of errors.go.  *os.PathError unwraps, so their recursion *)
(* into one finds what errors.Is and errors.As have already looked at.     *)
(***************************************************************************)

\* net.Error: Timeout and Temporary.  context.DeadlineExceeded has them, the
\* wrappers of this package do not; *net.OpError passes Timeout on.
IsNetCause(c) == c.kind = "errno" \/ c.value \in {"DeadlineExceeded", "ErrClosed", "IOTimeout"}

NetCauseTimeout(c) == c.value \in {"DeadlineExceeded", "IOTimeout", "ETIMEDOUT"}

IsNetworkError(e) ==
  \/ Wraps(e, "op")
  \/ \E i \in DOMAIN e.causes : IsNetCause(e.causes[i])

IsTimeoutError(e) ==
  \/ Is(e, "DeadlineExceeded")
  \/ \E i \in DOMAIN e.causes :
       /\ NetCauseTimeout(e.causes[i])
       /\ \A j \in 1..(i - 1) : ~IsNetCause(e.causes[j])

IsTemporary(e) ==
  \/ \E errno \in {"ECONNREFUSED", "ETIMEDOUT", "EHOSTUNREACH", "ENETUNREACH", "ECONNABORTED"} : Is(e, errno)
  \/ IsTimeoutError(e)
  \/ CarriesStatus(e, {"PENDING", "RETRY", "DEVICE_NOT_READY", "TOO_MANY_SESSIONS", "NETWORK_BUSY"})

IsAuthError(e) ==
  CarriesStatus(e, {"LOGON_FAILURE", "ACCESS_DENIED", "INVALID_LOGON_HOURS", "INVALID_LOGON_TYPE",
                    "LOGON_TYPE_NOT_GRANTED", "LOGON_NOT_GRANTED", "ACCOUNT_DISABLED", "ACCOUNT_EXPIRED",
                    "PASSWORD_EXPIRED", "PASSWORD_MUST_CHANGE", "WRONG_PASSWORD", "NO_SUCH_USER",
                    "INVALID_ACCOUNT_NAME", "INVALID_WORKSTATION", "ACCOUNT_RESTRICTION",
                    "INSUFFICIENT_LOGON_INFO", "SMARTCARD_LOGON_REQUIRED"})

IsNotFoundError(e) ==
  \/ Is(e, "ErrNotExist")
  \/ CarriesStatus(e, {"NO_SUCH_FILE", "OBJECT_NAME_NOT_FOUND", "OBJECT_PATH_NOT_FOUND", "NOT_FOUND"})

IsPermissionError(e) ==
  \/ Is(e, "ErrPermission")
  \/ CarriesStatus(e, {"ACCESS_DENIED", "PRIVILEGE_NOT_HELD", "NETWORK_ACCESS_DENIED", "SHARING_VIOLATION"})

IsExistError(e) ==
  Is(e, "ErrExist") \/ CarriesStatus(e, {"OBJECT_NAME_COLLISION", "OBJECT_NAME_EXISTS"})

\* A *ResponseError decides alone; the NtStatus is looked at only without one.
IsSharingViolation(e) ==
  IF AsResponseError(e) # "none" THEN AsResponseError(e) = "SHARING_VIOLATION"
  ELSE AsNtStatus(e) = "SHARING_VIOLATION"

(***************************************************************************)
(* The mappings.                                                           *)
(***************************************************************************)

wrapErrorNetworkFirst(e) ==
  IF Wraps(e, "ctx") \/ Wraps(e, "transport") THEN e
  ELSE IF IsNetworkError(e) THEN Wrapped("transport", e)
  ELSE IF Is(e, "Canceled") \/ Is(e, "DeadlineExceeded") THEN Wrapped("ctx", e)
  ELSE e

wrapError(e) ==
  IF Wraps(e, "ctx") \/ Wraps(e, "transport") THEN e
  ELSE IF Is(e, "Canceled") \/ Is(e, "DeadlineExceeded") THEN Wrapped("ctx", e)
  ELSE IF IsNetworkError(e) THEN Wrapped("transport", e)
  ELSE e

permissionErrorBare(e) == Caused(<<Cause("plain", "ErrPermission")>>)

permissionError(e) ==
  IF IsSharingViolation(e)
  THEN Wrapped("fmt", Caused(<<Cause("plain", "ErrPermission"), Cause("resp", "SHARING_VIOLATION")>>))
  ELSE Caused(<<Cause("plain", "ErrPermission")>>)

Mapped(e, wrapper) ==
  Wrapped(wrapper,
    IF IsNotFoundError(e) THEN Caused(<<Cause("plain", "ErrNotExist")>>)
    ELSE IF IsPermissionError(e) THEN permissionError(e)
    ELSE wrapError(e))

mapSMBErrorToOSError(e) == Mapped(e, "path")

mapSMBErrorToLinkError(e) == Mapped(e, "link")

mapRemoveDirError(e) ==
  IF AsNtStatus(e) = "DIRECTORY_NOT_EMPTY"
  THEN Wrapped("path", Caused(<<Cause("resp", "DIRECTORY_NOT_EMPTY")>>))
  ELSE mapSMBErrorToOSError(e)

reshapeError(e) ==
  Wrapped("path", IF e.wraps # << >> /\ Head(e.wraps) = "path" THEN [e EXCEPT !.wraps = Tail(@)] ELSE e)

ntStatusOf(e) ==
  IF AsNtStatus(e) # "none" THEN AsNtStatus(e)
  ELSE IF AsResponseError(e) # "none" THEN AsResponseError(e)
  ELSE AsSMBError(e)

isUnsupportedLevelError(e) ==
  ntStatusOf(e) \in {"INVALID_LEVEL", "INVALID_INFO_CLASS", "NOT_SUPPORTED", "NOT_IMPLEMENTED", "INVALID_PARAMETER"}

(***************************************************************************)
(* The errors that reach the mappings: a cause, wrapped by the layers      *)
(* below and by the mappings themselves, again and again.                  *)
(***************************************************************************)

StatusCauses ==
  [kind: {"nt", "resp", "smb"},
   value: {"OBJECT_NAME_NOT_FOUND", "ACCESS_DENIED", "SHARING_VIOLATION", "OBJECT_NAME_COLLISION",
           "DIRECTORY_NOT_EMPTY", "NOT_SUPPORTED", "LOGON_FAILURE", "NETWORK_BUSY", "DISK_FULL"}]

NetCauses == [kind: {"errno"}, value: {"ECONNRESET", "ETIMEDOUT", "ECONNREFUSED", "EPERM"}]
               \cup [kind: {"plain"}, value: {"ErrClosed", "IOTimeout"}]

PlainCauses == [kind: {"plain"}, value: {"Canceled", "DeadlineExceeded", "EOF", "Other"}]

FirstErrors ==
  {Caused(<<c>>) : c \in StatusCauses \cup PlainCauses \cup NetCauses}
    \cup {Wrapped("op", Caused(<<c>>)) : c \in NetCauses}

\* fmt.Errorf with %w, *ConnectionError and *AuthenticationError unwrap and
\* have no class of their own, so one wrapper stands for the three.
Rewrapped(e) ==
  {Wrapped("fmt", e), wrapError(e), mapSMBErrorToOSError(e), mapSMBErrorToLinkError(e),
   mapRemoveDirError(e), reshapeError(e)}

Denied(e) == IsNotFoundError(e) \/ IsPermissionError(e)

\* os.IsTimeout looks through one *PathError or *LinkError only; a *PathError
\* asks the error it holds directly.
RECURSIVE HasTimeout(_)
HasTimeout(e) ==
  CASE e.wraps = << >> -> NetCauseTimeout(e.causes[1])
    [] Head(e.wraps) = "ctx" -> Is(e, "DeadlineExceeded")
    [] Head(e.wraps) \in {"path", "op"} -> HasTimeout([e EXCEPT !.wraps = Tail(@)])
    [] OTHER -> FALSE

OsIsTimeout(e) ==
  HasTimeout(IF e.wraps # << >> /\ Head(e.wraps) \in {"path", "link"} THEN [e EXCEPT !.wraps = Tail(@)] ELSE e)

KeepsClass(e, mapped) ==
  /\ IsNotFoundError(e) <=> IsNotFoundError(mapped)
  /\ IsPermissionError(e) /\ ~IsNotFoundError(e) <=> IsPermissionError(mapped)
  /\ ~IsNotFoundError(e) => (IsSharingViolation(e) <=> IsSharingViolation(mapped))
  /\ ~Denied(e) =>
       /\ IsExistError(e) <=> IsExistError(mapped)
       /\ IsAuthError(e) <=> IsAuthError(mapped)
       /\ IsNetworkError(e) <=> IsNetworkError(mapped)
       /\ IsTimeoutError(e) <=> IsTimeoutError(mapped)
       /\ IsTemporary(e) <=> IsTemporary(mapped)
       /\ ntStatusOf(e) = ntStatusOf(mapped)

\* What the public operations return keeps the class of what went wrong
\* below: the mapping of an error answers every predicate as the error does
\* (a permission failure keeps only its own predicates), however often it is
\* mapped; a cancelled context is a ContextError and never a TransportError,
\* os.IsTimeout sees its deadline, and mapping twice adds no second class.
ErrorKeepsClass(e) ==
  /\ \A mapped \in Rewrapped(e) : KeepsClass(e, mapped)
  /\ wrapError(wrapError(e)) = wrapError(e)
  /\ \A mapped \in {mapSMBErrorToOSError(e), mapSMBErrorToLinkError(e)} :
       /\ ~(Wraps(mapped, "ctx") /\ Wraps(mapped, "transport"))
       /\ Wraps(mapped, "ctx") <=> ~Denied(e) /\ (Is(e, "Canceled") \/ Is(e, "DeadlineExceeded"))
       /\ Wraps(mapped, "transport") <=> ~Denied(e) /\ IsNetworkError(e) /\ ~Wraps(mapped, "ctx")
  /\ ~Wraps(e, "ctx") /\ Is(e, "DeadlineExceeded") => OsIsTimeout(mapSMBErrorToOSError(e))
                                                  /\ OsIsTimeout(mapSMBErrorToLinkError(e))
  /\ isUnsupportedLevelError(e) => ~IsNetworkError(e) /\ ~Denied(e)
=============================================================================
