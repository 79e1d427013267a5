----------------------------- MODULE Recordings -----------------------------
(***************************************************************************)
(* Session recordings (internal/recordings): a row in Postgres and an      *)
(* object in a bucket that only the client writes, through a presigned URL.*)
(* CreateUpload is a SELECT, the local presigning and an INSERT; Complete  *)
(* is one conditional UPDATE.  Statements may fail with or without effect. *)
(***************************************************************************)
EXTENDS Integers

CONSTANTS
  Req,      \* CreateUpload requests in flight
  Org,      \* organizations
  Session,  \* sessions rows
  OrgOf,    \* sessions.org_id
  Rec,      \* recording ids (uuid.New)
  Size,     \* size_bytes a client may report, within bounds or not
  MaxSize,  \* MaxRecordingSizeBytes
  None,     \* nothing
  TTL,      \* RECORDING_URL_TTL
  MaxNow    \* bound: the last instant modelled

ASSUME OrgAssumption == OrgOf \in [Session -> Org]
ASSUME SizeAssumption == Size \subseteq Int /\ MaxSize \in Nat \ {0}
ASSUME TimeAssumption == TTL \in Nat \ {0} /\ MaxNow \in Nat

UserRole == {"admin", "agent", "viewer"}

\* The columns of a recordings row the properties are about.
Row == [session : Session, org : Org, status : {"pending", "available"}, size : 0..MaxSize]

ASSUME NoneAssumption == None \notin Rec /\ None \notin Row

VARIABLES
  now,     \* the time
  row,     \* row[x]: the recordings row, or None
  drawn,   \* ids drawn so far
  pending, \* pending[q]: the upload a request is about to insert, or None
  url,     \* url[x]: when the URL handed to a client expires, 0 without one
  object,  \* the objects in the bucket
  oks      \* oks[x]: Complete calls answered with success

recordingsVars == <<now, row, drawn, pending, url, object, oks>>

RecordingsInit ==
  /\ now = 0 /\ drawn = {} /\ object = {}
  /\ row = [x \in Rec |-> None]
  /\ pending = [q \in Req |-> None]
  /\ url = [x \in Rec |-> 0]
  /\ oks = [x \in Rec |-> 0]

MayWrite(role) == role # "viewer"

\* The session must exist in the caller's organization.
InOrg(s, o) == OrgOf[s] = o

\* SELECT EXISTS and PresignPut, whose URL counts its life from now.
CreateUploadCheck(q) ==
  /\ pending[q] = None
  /\ \E o \in Org, role \in UserRole, s \in Session, x \in Rec \ drawn :
       /\ MayWrite(role) /\ InOrg(s, o)
       /\ drawn' = drawn \cup {x}
       /\ pending' = [pending EXCEPT ![q] = [rec |-> x, session |-> s, org |-> o, exp |-> now + TTL]]
  /\ UNCHANGED <<now, row, url, object, oks>>

InsertRow(p) ==
  row' = [row EXCEPT ![p.rec] = [session |-> p.session, org |-> p.org,
                                 status |-> "pending", size |-> 0]]

\* The URL leaves the server only after the INSERT succeeded.
CreateUploadInsert(q) ==
  /\ pending[q] # None
  /\ InsertRow(pending[q])
  /\ url' = [url EXCEPT ![pending[q].rec] = pending[q].exp]
  /\ pending' = [pending EXCEPT ![q] = None]
  /\ UNCHANGED <<now, drawn, object, oks>>

HandOutAnyway(p) == url' = [url EXCEPT ![p.rec] = p.exp]
HandOutOnError(p) == UNCHANGED url

CreateUploadError(q) ==
  /\ pending[q] # None
  /\ UNCHANGED row \/ InsertRow(pending[q])
  /\ HandOutOnError(pending[q])
  /\ pending' = [pending EXCEPT ![q] = None]
  /\ UNCHANGED <<now, drawn, object, oks>>

\* The client PUTs the bytes; the store checks the signature and the expiry.
Put(x) ==
  /\ now < url[x]
  /\ object' = object \cup {x}
  /\ UNCHANGED <<now, row, drawn, pending, url, oks>>

ValidSize(n) == n > 0 /\ n <= MaxSize

\* WHERE id = $2 AND org_id = $3 AND status = 'pending'
MayCompleteAgain(x, o) == row[x] # None /\ row[x].org = o
MayComplete(x, o) == row[x] # None /\ row[x].org = o /\ row[x].status = "pending"

\* The client may call Complete whether or not it uploaded anything; the
\* answer may be lost.
Complete(x) ==
  /\ \E o \in Org, role \in UserRole, n \in Size :
       /\ MayWrite(role) /\ ValidSize(n) /\ MayComplete(x, o)
       /\ row' = [row EXCEPT ![x].status = "available", ![x].size = n]
  /\ oks' = [oks EXCEPT ![x] = @ + 1] \/ UNCHANGED oks
  /\ UNCHANGED <<now, drawn, pending, url, object>>

Tick ==
  /\ now < MaxNow
  /\ now' = now + 1
  /\ UNCHANGED <<row, drawn, pending, url, object, oks>>

RecordingsNext ==
  \/ \E q \in Req : CreateUploadCheck(q) \/ CreateUploadInsert(q) \/ CreateUploadError(q)
  \/ \E x \in Rec : Put(x) \/ Complete(x)
  \/ Tick

RecordingsSpec == RecordingsInit /\ [][RecordingsNext]_recordingsVars

-----------------------------------------------------------------------------
(* Properties. *)

RecordingsTypeOK ==
  /\ now \in 0..MaxNow /\ drawn \subseteq Rec /\ object \subseteq Rec
  /\ row \in [Rec -> {None} \cup Row]
  /\ pending \in [Req -> {None} \cup [rec : Rec, session : Session, org : Org,
                                      exp : 0..(MaxNow + TTL)]]
  /\ url \in [Rec -> 0..(MaxNow + TTL)]
  /\ oks \in [Rec -> Nat]

\* No object without metadata: whatever statement fails, everything in the
\* bucket belongs to a row of a session.
ObjectsAccounted == \A x \in object : row[x] # None

\* However many clients race or retry because an answer was lost, at most one
\* Complete of a recording is told it succeeded, and what is available has a
\* size within the bounds.
FinalizedOnce ==
  \A x \in Rec : /\ oks[x] <= 1
                 /\ row[x] # None /\ row[x].status = "available" => row[x].size \in 1..MaxSize
=============================================================================
