-------------------------------- MODULE Codecs --------------------------------
(***************************************************************************)
(* What is kept of a value that goes through a table or over the wire:     *)
(* the capnp messages of the tables of the arena and of the global cache,  *)
(* of the notifications between households, and of the control service.   *)
(*                                                                         *)
(* A capnp message has fields that were set and fields that were not; one  *)
(* that was not is read as the default of its type.  A type is a table     *)
(* from its variants to their fields, which to_bytes sets and from_bytes   *)
(* reads, and to the conversion each goes through; a plain struct has a    *)
(* single variant.  What is lost on the way is checked in MCDownloader.    *)
(***************************************************************************)
EXTENDS ByteRanges

CONSTANTS
  HashSize,  \* bytes of a hash
  Radix,     \* values of a byte
  Unset,     \* a field that was not set
  Invalid    \* ByteConversionError, capnp::Error

ASSUME CodecAssumption == HashSize \in Nat \ {0} /\ Radix \in Nat \ {0, 1}
-----------------------------------------------------------------------------
(* Ids and keys. *)

\* The bytes of an id, the smallest first, and the order of keys in a table.
ToLeBytes(n, width) == [i \in 1..width |-> (n \div Radix^(i - 1)) % Radix]
FromLeBytes(data) ==
  LET upTo[i \in 0..Len(data)] == IF i = 0 THEN 0 ELSE upTo[i - 1] + data[i] * Radix^(i - 1)
  IN upTo[Len(data)]
KeyBefore(data1, data2) == FromLeBytes(data1) < FromLeBytes(data2)

\* Zero stands for no id.
AsOptional(id) == IF id = 0 THEN Unset ELSE id
-----------------------------------------------------------------------------
(* Fields. *)

Time(secs, nsecs) == [secs |-> secs, nsecs |-> nsecs]

\* A path is the sequence of its parts; the empty string has one, empty part.
ParsePath(parts) ==
  IF \E i \in DOMAIN parts : parts[i] \in {"", ".", "..", "with:colon"} THEN Invalid ELSE parts

ParseHash(data) == IF Len(data) = HashSize THEN data ELSE Invalid

\* The field set for a value; an Option that is None sets nothing.
SetField(conversion, v) ==
  CASE conversion = "ranges" -> AsVec(v)
    [] conversion = "seconds" -> v.secs
    [] conversion = "maybe action" -> IF v = Unset THEN "None" ELSE v
    [] OTHER -> v

\* The value of a field, or of one that was not set.
Parse(conversion, field) ==
  LET set(default) == IF field = Unset THEN default ELSE field
  IN CASE conversion \in {"number", "index"} -> set(0)
       [] conversion = "text" -> set("")
       [] conversion = "time" -> set(Time(0, 0))
       [] conversion = "seconds" -> Time(set(0), 0)
       [] conversion = "hash" -> ParseHash(set(<<>>))
       [] conversion = "maybe hash" -> IF field = Unset THEN Unset ELSE ParseHash(field)
       [] conversion = "path" -> ParsePath(set(<<"">>))
       [] conversion = "maybe id" -> AsOptional(set(0))
       [] conversion = "maybe pair" -> field
       [] conversion = "ranges" -> FromRanges(set(<<>>))
       [] conversion = "mark" -> set("Watch")
       [] conversion = "assignment" -> set("File")
       [] conversion = "maybe action" -> IF set("None") = "None" THEN Unset ELSE field
       [] conversion = "action" -> IF set("None") = "None" THEN Invalid ELSE field
-----------------------------------------------------------------------------
(* Messages. *)

ToBytes(type, which, value) ==
  [which |-> which,
   fields |-> [f \in DOMAIN type[which] |-> SetField(type[which][f], value[f])]]

\* One field that cannot be read makes the message unreadable.
FromBytes(type, msg) ==
  IF msg.which \notin DOMAIN type THEN Invalid
  ELSE LET fields == type[msg.which]
           value == [f \in DOMAIN fields |-> Parse(fields[f], msg.fields[f])]
       IN IF \E f \in DOMAIN fields : value[f] = Invalid THEN Invalid ELSE value

\* A Holder keeps the bytes of a value and parses them on demand.
Held(type, which, value) == FromBytes(type, ToBytes(type, which, value))

Struct(fields) == [struct |-> fields]
-----------------------------------------------------------------------------
(* Tables of an arena and of the global cache. *)

BlobTableEntry == Struct([written_areas |-> "ranges", content_hash |-> "maybe hash"])

IndexedFileTableEntry ==
  Struct([size |-> "number", hash |-> "hash", outdated_by |-> "maybe hash", mtime |-> "time"])

HistoryTableEntry ==
  LET about == [path |-> "path", old_hash |-> "hash"]
  IN [Add |-> [path |-> "path"], Replace |-> about, Remove |-> about, Drop |-> about]

FailedJobTableEntry == Struct([failure_count |-> "number", backoff_until |-> "seconds"])

MarkTableEntry == Struct([mark |-> "mark"])

FileTableEntry ==
  Struct([parent |-> "number", path |-> "path", hash |-> "hash", blob |-> "maybe id",
          size |-> "number", mtime |-> "time"])

DirTableEntry ==
  [Regular |-> [inode |-> "number", assignment |-> "assignment"], Dot |-> [mtime |-> "time"]]

PeerTableEntry == Struct([uuid_hi |-> "number", uuid_lo |-> "number"])
-----------------------------------------------------------------------------
(* Notifications of a household, sent in send_notifications, read in do_notify. *)

NotificationMessage ==
  LET removed == [arena |-> "text", index |-> "index", path |-> "path", old_hash |-> "hash"]
  IN [Add |-> [arena |-> "text", index |-> "index", path |-> "path", size |-> "number",
               mtime |-> "time", hash |-> "hash"],
      Replace |-> [arena |-> "text", index |-> "index", path |-> "path", size |-> "number",
                   mtime |-> "time", hash |-> "hash", old_hash |-> "hash"],
      Remove |-> removed,
      Drop |-> removed,
      CatchupStart |-> [arena |-> "text"],
      Catchup |-> [arena |-> "text", path |-> "path", size |-> "number", mtime |-> "time",
                   hash |-> "hash"],
      CatchupComplete |-> [arena |-> "text", index |-> "index"],
      Connected |-> [arena |-> "text", hi |-> "number", lo |-> "number"]]
-----------------------------------------------------------------------------
(* Jobs and their notifications, between the control service and its clients. *)

JobMessage ==
  [Download |-> [path |-> "path", hash |-> "hash"],
   Realize |-> [path |-> "path", hash |-> "hash", index_hash |-> "maybe hash"],
   Unrealize |-> [path |-> "path", hash |-> "hash"]]

JobProgressMessage ==
  [Pending |-> <<>>, Running |-> <<>>, Done |-> <<>>, Abandoned |-> <<>>, Cancelled |-> <<>>,
   Failed |-> [message |-> "text"]]

\* The job of New, and the progress of Finish, are messages of their own.
ChurtenNotificationMessage ==
  LET job == [arena |-> "text", job_id |-> "number"]
  IN [New |-> job, Start |-> job, Finish |-> job,
      UpdateAction |-> [arena |-> "text", job_id |-> "number", action |-> "action",
                        index |-> "index"],
      UpdateByteCount |-> [arena |-> "text", job_id |-> "number", current_bytes |-> "number",
                           total_bytes |-> "number", index |-> "index"]]

\* So are the job and the progress of a JobInfo.
JobInfoMessage ==
  Struct([arena |-> "text", id |-> "number", action |-> "maybe action",
          byte_progress |-> "maybe pair", notification_index |-> "index"])

Types == <<BlobTableEntry, IndexedFileTableEntry, HistoryTableEntry, FailedJobTableEntry,
           MarkTableEntry, FileTableEntry, DirTableEntry, PeerTableEntry, NotificationMessage,
           JobMessage, JobProgressMessage, ChurtenNotificationMessage, JobInfoMessage>>
-----------------------------------------------------------------------------
(* Errors of a remote read, up to the caller of the file system. *)

IoKind == {"NotFound", "PermissionDenied", "ConnectionAborted", "NotADirectory", "IsADirectory",
           "InvalidInput", "ResourceBusy", "AlreadyExists", "Other"}

\* StorageError; an I/O error is known by its kind.
StorageError ==
  [type : {"Io"}, kind : IoKind]
    \cup [type : {"Database", "Path", "ByteConversion", "Unavailable", "NotFound", "NotADirectory",
                  "IsADirectory", "JoinError", "InvalidRsyncSignature", "UnknownArena",
                  "NoLocalStorage"}]

ReadErrno(err) ==
  CASE err.type = "Io" -> (CASE err.kind = "ConnectionAborted" -> "Aborted"
                             [] err.kind \in {"AlreadyExists", "Other"} -> "GenericIo"
                             [] OTHER -> err.kind)
    [] err.type \in {"Database", "ByteConversion", "Unavailable"} -> "Unavailable"
    [] err.type = "Path" -> "InvalidPath"
    [] err.type \in {"NotFound", "UnknownArena", "NoLocalStorage"} -> "NotFound"
    [] err.type \in {"NotADirectory", "IsADirectory"} -> err.type
    [] err.type = "JoinError" -> "Other"
    [] err.type = "InvalidRsyncSignature" -> "InvalidInput"

ErrnoToIoError(errno) ==
  CASE errno \in {"Other", "GenericIo", "Unavailable", "Closed"} -> "Other"
    [] errno = "Aborted" -> "ConnectionAborted"
    [] errno = "InvalidPath" -> "InvalidFilename"
    [] OTHER -> errno

IoToNfsstat3(kind) ==
  CASE kind = "NotFound" -> "NOENT"
    [] kind = "NotADirectory" -> "NOTDIR"
    [] kind = "IsADirectory" -> "ISDIR"
    [] kind = "PermissionDenied" -> "PERM"
    [] kind = "AlreadyExists" -> "EXIST"
    [] kind = "InvalidInput" -> "INVAL"
    [] OTHER -> "IO"

UnrealToNfsstat3(err) ==
  CASE err.type = "Io" -> IoToNfsstat3(err.kind)
    [] err.type \in {"NotFound", "NotADirectory", "IsADirectory"} -> IoToNfsstat3(err.type)
    [] OTHER -> "SERVERFAULT"
=============================================================================
