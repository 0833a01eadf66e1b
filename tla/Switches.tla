------------------------------ MODULE Switches ------------------------------
(***************************************************************************)
(* The termination switches: the kill switch (enabled) and the anti-kill   *)
(* switch (locked) in terminate-switches.json, derived from the startup    *)
(* environment at boot and tightened by request threads of the landing     *)
(* page.  tighten() reads, combines and writes without a lock, and         *)
(* write_json_atomic goes through one fixed temporary name, so the model   *)
(* keeps inodes: opening the temporary truncates whatever the name points  *)
(* to, and a writer keeps writing to the inode it opened after another     *)
(* thread has renamed it.                                                  *)
(***************************************************************************)
EXTENDS Integers

CONSTANTS
    Threads,      \* concurrent request threads of the landing page
    Inodes,       \* enough for the published file and every open temporary
    NoFile,       \* no such file; no open file
    Empty,        \* a file truncated to nothing
    Garbled,      \* a file that no longer parses
    MaxRequests,  \* bound: tightenings in a behaviour
    PageMayDie,   \* fault assumption: the page's process may be killed
    MaxBoots      \* bound: container starts in a behaviour

ASSUME SwitchesAssumption ==
    /\ NoFile \notin Inodes
    /\ Empty # Garbled
    /\ {Empty, Garbled} \cap [switch: [enabled: BOOLEAN, locked: BOOLEAN],
                              source: {"lock", "disable", "startup"}] = {}
    /\ MaxRequests \in Nat
    /\ PageMayDie \in BOOLEAN
    /\ MaxBoots \in Nat \ {0}

Requests == {"lock", "disable"}
Switch == [enabled: BOOLEAN, locked: BOOLEAN]
Docs == [switch: Switch, source: Requests \cup {"startup"}]
Contents == Docs \cup {Empty, Garbled}

VARIABLES
    declared,     \* what the startup environment says
    published,    \* the inode terminate-switches.json names
    tmp,          \* the inode terminate-switches.json.tmp names
    content,      \* [Inodes -> contents]
    thread,       \* the tighten in progress in each thread
    requests,     \* how much of the request budget is used
    boots,        \* container starts so far
    acked         \* history: tightenings this container's page has confirmed

swVars == <<declared, published, tmp, content, thread, requests, boots, acked>>

Waiting == [step |-> "idle", doc |-> NoFile, request |-> NoFile, fd |-> NoFile]

SwitchesTypeOK ==
    /\ declared \in Switch
    /\ published \in Inodes
    /\ tmp \in Inodes \cup {NoFile}
    /\ content \in [Inodes -> Contents]
    /\ thread \in [Threads -> [step: {"idle", "open", "write", "publish"},
                               doc: Docs \cup {NoFile}, request: Requests \cup {NoFile},
                               fd: Inodes \cup {NoFile}]]
    /\ \A t \in Threads : thread[t].fd # NoFile <=> thread[t].step = "write"
    /\ requests \in 0..MaxRequests
    /\ boots \in 1..MaxBoots
    /\ acked \subseteq Requests

(* read_switches: a file that does not parse counts as missing, and then the
   startup environment speaks. *)
ReadSwitches == IF content[published] \in Docs THEN content[published].switch ELSE declared

(* Seeded defect: the request replaces what it does not mention. *)
Tightened_Assigns(cur, r) ==
    [enabled |-> r # "disable", locked |-> r = "lock"]

(* tighten: AND for the kill switch, OR for the lock. *)
Tightened(cur, r) ==
    [enabled |-> cur.enabled /\ r # "disable", locked |-> cur.locked \/ r = "lock"]

(* Bytes of the JSON text, as far as two documents can differ: "true" is one
   byte shorter than "false", and the two reasons differ by two. *)
Size(d) ==
    (IF d.switch.enabled THEN 0 ELSE 1) + (IF d.switch.locked THEN 0 ELSE 1)
        + (IF d.source = "disable" THEN 2 ELSE 0)

(* Writing from offset 0 over what the inode holds; a longer old text leaves its
   tail behind. *)
Overwrite(old, d) ==
    IF old = Empty THEN d
    ELSE IF old \in Docs /\ Size(d) >= Size(old) THEN d
    ELSE Garbled

Unused == Inodes \ ({published, tmp} \cup {thread[t].fd : t \in Threads})

SwitchesInit ==
    /\ declared \in Switch
    /\ \E i \in Inodes :
        /\ published = i
        /\ content = [j \in Inodes |->
                        IF j = i THEN [switch |-> declared, source |-> "startup"] ELSE Empty]
    /\ tmp = NoFile
    /\ thread = [t \in Threads |-> Waiting]
    /\ requests = 0
    /\ boots = 1
    /\ acked = {}

(* POST /terminate/lock: tighten reads and combines. *)
TightenReads(t, r) ==
    /\ thread[t].step = "idle"
    /\ requests < MaxRequests
    /\ requests' = requests + 1
    /\ thread' = [thread EXCEPT ![t] =
            [step |-> "open", request |-> r, fd |-> NoFile,
             doc |-> [switch |-> Tightened(ReadSwitches, r), source |-> r]]]
    /\ UNCHANGED <<declared, published, tmp, content, boots, acked>>

(* Seeded defect: the published file itself is opened for writing. *)
OpenTmp_InPlace(t) ==
    /\ thread[t].step = "open"
    /\ tmp' = NoFile
    /\ content' = [content EXCEPT ![published] = Empty]
    /\ thread' = [thread EXCEPT ![t].step = "write", ![t].fd = published]
    /\ UNCHANGED <<declared, published, requests, boots, acked>>

(* open(path + ".tmp", "w"): created, or truncated if the name exists. *)
OpenTmp(t) ==
    /\ thread[t].step = "open"
    /\ \E i \in IF tmp = NoFile THEN Unused ELSE {tmp} :
        /\ tmp' = i
        /\ content' = [content EXCEPT ![i] = Empty]
        /\ thread' = [thread EXCEPT ![t].step = "write", ![t].fd = i]
    /\ UNCHANGED <<declared, published, requests, boots, acked>>

(* Seeded defect: the file is never closed, and the text stays in its buffer. *)
WriteTmp_LeftOpen(t) ==
    /\ thread[t].step = "write"
    /\ thread' = [thread EXCEPT ![t].step = "publish"]
    /\ UNCHANGED <<declared, published, tmp, content, requests, boots, acked>>

(* The document is short: it leaves the buffer in one write, when the file is
   closed. *)
WriteTmp(t) ==
    /\ thread[t].step = "write"
    /\ content' = [content EXCEPT ![thread[t].fd] = Overwrite(@, thread[t].doc)]
    /\ thread' = [thread EXCEPT ![t].step = "publish", ![t].fd = NoFile]
    /\ UNCHANGED <<declared, published, tmp, requests, boots, acked>>

(* os.chmod and os.replace on the name: when another thread has renamed it away
   they raise, and the page answers "Internal error". *)
Publish(t) ==
    /\ thread[t].step = "publish"
    /\ IF tmp = NoFile
       THEN UNCHANGED <<published, tmp, acked>>
       ELSE /\ published' = tmp
            /\ tmp' = NoFile
            /\ acked' = acked \cup {thread[t].request}
    /\ thread' = [thread EXCEPT ![t] = Waiting]
    /\ UNCHANGED <<declared, content, requests, boots>>

Tighten(t) ==
    \/ \E r \in Requests : TightenReads(t, r)
    \/ OpenTmp(t) \/ WriteTmp(t) \/ Publish(t)

(* The page's process dies with every thread in it and is started again. *)
PageDies ==
    /\ PageMayDie
    /\ \E t \in Threads : thread[t].step # "idle"
    /\ thread' = [t \in Threads |-> Waiting]
    /\ UNCHANGED <<declared, published, tmp, content, requests, boots, acked>>

(* A container start, perhaps with another environment: init_switches writes the
   switches before the page exists, over whatever the runtime directory holds. *)
ContainerStart ==
    /\ boots < MaxBoots
    /\ boots' = boots + 1
    /\ declared' \in Switch
    /\ \E i \in IF tmp = NoFile THEN Inodes \ {published} ELSE {tmp} :
        /\ published' = i
        /\ content' = [content EXCEPT ![i] = [switch |-> declared', source |-> "startup"]]
    /\ tmp' = NoFile
    /\ thread' = [t \in Threads |-> Waiting]
    /\ acked' = {}
    /\ UNCHANGED requests

SwitchesNext == (\E t \in Threads : Tighten(t)) \/ PageDies \/ ContainerStart

SwitchesSpec == SwitchesInit /\ [][SwitchesNext]_swVars
-----------------------------------------------------------------------------
(* With one request at a time the switches only ever tighten while the container
   lives, also across a page that dies in the middle of a write (glm_config:
   "loosening is not disallowed, it is unrepresentable"). *)
RatchetHolds ==
    [][boots' = boots =>
        /\ ReadSwitches.locked => ReadSwitches'.locked
        /\ ReadSwitches'.enabled => ReadSwitches.enabled]_swVars

(* ... and every tightening the page confirmed is in effect. *)
AckedTightening ==
    /\ "lock" \in acked => ReadSwitches.locked
    /\ "disable" \in acked => ~ReadSwitches.enabled

(* With one thread: the published document parses, and what the thread is about to
   publish is a tightening of it, in an inode of its own. *)
PublishedParses == content[published] \in Docs /\ tmp # published

WriterInv ==
    \A t \in Threads :
        /\ thread[t].step # "idle" =>
            /\ thread[t].doc \in Docs
            /\ thread[t].request \in Requests
            /\ thread[t].doc.switch = Tightened(content[published].switch, thread[t].request)
        /\ thread[t].step = "write" =>
            /\ thread[t].fd = tmp
            /\ content[tmp] = Empty
        /\ thread[t].step = "publish" =>
            /\ tmp \in Inodes
            /\ content[tmp] = thread[t].doc

=============================================================================
