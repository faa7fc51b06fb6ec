----------------------------- MODULE OpenOptions -----------------------------
(***************************************************************************)
(* Opening a file: fs/open_options.rs and the request of io/open.rs, while *)
(* another process creates, fills and removes the file.                    *)
(***************************************************************************)
EXTENDS Naturals, FiniteSets

CONSTANTS
  Custom,   \* the flags a caller may pass in custom_flags: any bits of an i32
  Absent

Options == {"read", "write", "append", "truncate", "create", "create_new"}

\* The flags under O_ACCMODE (O_RDONLY is no bit; it stands for their absence).
AccessModes == {"O_RDONLY", "O_WRONLY", "O_RDWR"}

VARIABLES
  opts,     \* the options that are true
  custom,   \* custom_flags
  req,      \* the flags of the request in flight, or Absent
  res,      \* what open returned, or Absent
  file      \* none, empty or full

openVars == <<opts, custom, req, res, file>>

OpenInit == opts = {} /\ custom = {} /\ req = Absent /\ res = Absent /\ file = "none"

-----------------------------------------------------------------------------
\* open() borrows the options: they change only between two opens.
Idle == req = Absent /\ res = Absent

\* read(), write(), append(), truncate(), create(), create_new().
SetOption(o, on) ==
  /\ Idle
  /\ opts' = IF on THEN opts \cup {o} ELSE opts \ {o}
  /\ UNCHANGED <<custom, req, res, file>>

custom_flags(f) ==
  /\ Idle
  /\ custom' = f
  /\ UNCHANGED <<opts, req, res, file>>

\* OpenOptions::access_mode; Absent is EINVAL.
access_mode ==
  LET app == IF "append" \in opts THEN {"O_APPEND"} ELSE {}
      wr  == "write" \in opts \/ "append" \in opts
  IN  CASE "read" \in opts /\ wr   -> {"O_RDWR"} \cup app
        [] "read" \in opts /\ ~wr  -> {"O_RDONLY"}
        [] "read" \notin opts /\ wr -> {"O_WRONLY"} \cup app
        [] OTHER -> Absent

\* Faulty variant: create_new does not win over truncate.
creation_mode_truncates ==
  IF "write" \notin opts /\ "append" \notin opts /\ opts \cap {"truncate", "create", "create_new"} # {}
  THEN Absent
  ELSE UNION {IF "create" \in opts THEN {"O_CREAT"} ELSE {},
              IF "truncate" \in opts THEN {"O_TRUNC"} ELSE {},
              IF "create_new" \in opts THEN {"O_CREAT"} ELSE {}}

\* OpenOptions::creation_mode; Absent is EINVAL.
creation_mode ==
  IF \/ opts \cap {"write", "append"} = {} /\ opts \cap {"truncate", "create", "create_new"} # {}
     \/ "append" \in opts /\ "truncate" \in opts /\ "create_new" \notin opts
  THEN Absent
  ELSE IF "create_new" \in opts THEN {"O_CREAT", "O_EXCL"}
  ELSE UNION {IF "create" \in opts THEN {"O_CREAT"} ELSE {},
              IF "truncate" \in opts THEN {"O_TRUNC"} ELSE {}}

\* The flags of the request: of custom_flags only the access mode is masked, all
\* other bits go through.
open_flags == access_mode \cup creation_mode \cup (custom \ AccessModes)

Result(err, access, made, lost) == [err |-> err, access |-> access, made |-> made, lost |-> lost]

\* OpenOptions::open and Op::open.
open ==
  /\ Idle
  /\ IF access_mode = Absent \/ creation_mode = Absent
     THEN res' = Result("EINVAL", {}, FALSE, FALSE) /\ req' = Absent
     ELSE req' = open_flags /\ res' = Absent
  /\ UNCHANGED <<opts, custom, file>>

\* The kernel's openat on a path that names a file or nothing: it fails without
\* effect, or opens.  O_EXCL counts with O_CREAT only; with O_PATH the flags that
\* create, truncate and give access are ignored.
KOpenFails ==
  /\ req # Absent
  /\ res' = Result("other", {}, FALSE, FALSE)
  /\ req' = Absent
  /\ UNCHANGED <<opts, custom, file>>

KOpen ==
  /\ req # Absent /\ "O_PATH" \notin req
  /\ IF file = "none" THEN "O_CREAT" \in req ELSE ~({"O_CREAT", "O_EXCL"} \subseteq req)
  /\ res' = Result("ok",
                   (IF req \cap {"O_RDONLY", "O_RDWR"} # {} THEN {"read"} ELSE {})
                     \cup (IF req \cap {"O_WRONLY", "O_RDWR"} # {} THEN {"write"} ELSE {}),
                   file = "none",
                   file = "full" /\ "O_TRUNC" \in req)
  /\ file' = IF file = "none" \/ "O_TRUNC" \in req THEN "empty" ELSE file
  /\ req' = Absent
  /\ UNCHANGED <<opts, custom>>

KOpenPath ==
  /\ req # Absent /\ "O_PATH" \in req
  /\ file # "none"
  /\ res' = Result("ok", {}, FALSE, FALSE)
  /\ req' = Absent
  /\ UNCHANGED <<opts, custom, file>>

\* The caller has looked at the result.
Forget ==
  /\ res # Absent
  /\ res' = Absent
  /\ UNCHANGED <<opts, custom, req, file>>

\* Another process.
Other(f) ==
  /\ f \in {"none", "empty", "full"} \ {file}
  /\ res = Absent
  /\ file' = f
  /\ UNCHANGED <<opts, custom, req, res>>

OpenNext ==
  \/ \E o \in Options, on \in BOOLEAN : SetOption(o, on)
  \/ \E f \in SUBSET Custom : custom_flags(f)
  \/ open \/ KOpenFails \/ KOpen \/ KOpenPath \/ Forget
  \/ \E f \in {"none", "empty", "full"} : Other(f)

OpenSpec == OpenInit /\ [][OpenNext]_openVars

-----------------------------------------------------------------------------
(* What the options document, of whatever the call met when the kernel     *)
(* executed it.                                                            *)

\* Content is lost only through truncate with plain write access, or because
\* custom_flags has O_TRUNC, and never with create_new; a file is created only with
\* an option that says so, or because custom_flags has O_CREAT.  Unless custom_flags
\* has O_PATH, a file that is opened has the access that was asked for, whatever
\* access mode custom_flags holds, and with create_new it is new, although others
\* race for the name.
OpenedAsAsked ==
  res # Absent =>
    /\ res.err = "ok" /\ "O_PATH" \notin custom =>
         /\ ("read" \in res.access) <=> ("read" \in opts)
         /\ ("write" \in res.access) <=> (opts \cap {"write", "append"} # {})
         /\ "create_new" \in opts => res.made
    /\ res.lost => /\ "create_new" \notin opts
                   /\ \/ "O_TRUNC" \in custom
                      \/ {"truncate", "write"} \subseteq opts /\ "append" \notin opts
    /\ res.made => \/ "O_CREAT" \in custom
                   \/ opts \cap {"create", "create_new"} # {} /\ opts \cap {"write", "append"} # {}
=============================================================================
