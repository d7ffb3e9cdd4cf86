--------------------------- MODULE LanguageServer ---------------------------
(* xluau-lsp (src/bin/xluau-lsp.rs), the editor that talks to it, and the   *)
(* files both see.  The server is one loop: it takes the next message from  *)
(* its input, changes its documents, writes what it has to say, and an      *)
(* error in a handler ends it.  The editor sends messages without waiting,  *)
(* so between a request and its answer the user goes on typing.  When the   *)
(* server has ended, or the user restarts it, the editor starts another one *)
(* and opens its documents again.                                           *)
(*                                                                          *)
(* A text is the specifier of the require it contains, or Broken for one    *)
(* that does not compile.  The editor's side is modelled from the protocol  *)
(* and from src/vscode/xluau-vscode/extension.js.                           *)
EXTENDS Naturals, Sequences

CONSTANTS
  Uris,        \* the source files of the project
  Canonical,   \* those whose URI the editor writes as path_to_uri does
  Specifiers,  \* the require specifiers, each a text of its own
  Relative,    \* those that do not start with @
  Target,      \* the file each of the others means, or Unknown
  Unknown,     \* no alias of the config matches
  Broken,      \* a text that does not compile
  Closed,      \* no document
  NoFile,      \* no file
  MaxEvents    \* bound: what the user does

ASSUME ServerAssumption ==
  /\ Canonical \subseteq Uris
  /\ Relative \subseteq Specifiers
  /\ Target \in [Specifiers -> Uris \cup {Unknown}]
  /\ Unknown \notin Uris
  /\ Broken \notin Specifiers
  /\ Closed \notin Specifiers \cup {Broken}
  /\ NoFile \notin Specifiers \cup {Broken, Closed}
  /\ MaxEvents \in Nat

VARIABLES
  disk,       \* the source files
  config,     \* xluau.config.json, "ok" or "broken"
  client,     \* the editor's client: "running", "stopping" or "stopped"
  editor,     \* the documents as the user sees them
  toOpen,     \* documents it has still to open in a new server
  pending,    \* requests of the editor that have no answer yet
  shown,      \* does the editor show errors for the document?
  inbox,      \* messages to the server
  server,     \* "running", "exited" or "failed"
  documents,  \* its documents
  outbox,     \* messages to the editor
  fresh,      \* history: documents diagnosed since the last change of a file
  events      \* counts what the user does, for MaxEvents and request ids

userVars == <<disk, config, client, editor, toOpen, pending, shown, events>>
serverVars == <<server, documents, outbox>>
vars == <<disk, config, client, editor, toOpen, pending, shown, inbox, server,
          documents, outbox, fresh, events>>

Texts == Specifiers \cup {Broken}
Documents == [Uris -> Texts \cup {Closed}]

\* Requests whose cursor is on a require string, and all others ("document").
Methods == {"document", "completion", "hover", "rename"}

\* asked is history: the editor's documents when it sent the request.
Message ==
  [kind : {"didOpen", "didChange"}, uri : Uris, text : Texts]
  \cup [kind : {"didClose"}, uri : Uris]
  \cup [kind : Methods, uri : Uris, id : 1..MaxEvents, asked : Documents]
  \cup [kind : {"shutdown"}, id : 1..MaxEvents]
  \cup [kind : {"exit"}]

\* text is what an answer was made from, changes the files it edits.
Reply ==
  [kind : {"diagnostics"}, uri : Uris, errors : BOOLEAN]
  \cup [kind : Methods, uri : Uris, id : 1..MaxEvents, asked : Documents,
        text : Texts, changes : SUBSET Uris]
  \cup [kind : {"shutdown"}, id : 1..MaxEvents]

TypeOK ==
  /\ disk \in [Uris -> Texts \cup {NoFile}]
  /\ config \in {"ok", "broken"}
  /\ client \in {"running", "stopping", "stopped"}
  /\ editor \in Documents
  /\ toOpen \subseteq Uris
  /\ pending \subseteq 1..MaxEvents
  /\ shown \in [Uris -> BOOLEAN]
  /\ inbox \in Seq(Message)
  /\ server \in {"running", "exited", "failed"}
  /\ documents \in Documents
  /\ outbox \in Seq(Reply)
  /\ fresh \subseteq Uris
  /\ events \in 0..MaxEvents

NoDocuments == [u \in Uris |-> Closed]
NoErrors == [u \in Uris |-> FALSE]

Init ==
  /\ disk \in [Uris -> Texts \cup {NoFile}]
  /\ config \in {"ok", "broken"}
  /\ client = "running"
  /\ editor = NoDocuments
  /\ toOpen = {}
  /\ pending = {}
  /\ shown = NoErrors
  /\ inbox = <<>>
  /\ server = "running"
  /\ documents = NoDocuments
  /\ outbox = <<>>
  /\ fresh = {}
  /\ events = 0

-----------------------------------------------------------------------------
\* Mutant: the file on disk is preferred to the open document.
TextSaved(u) == IF disk[u] # NoFile THEN disk[u] ELSE documents[u]

\* document_text, NoFile where it fails.
Text(u) == IF documents[u] # Closed THEN documents[u] ELSE disk[u]

\* resolve_require_path finds the module or, for a relative one, leaves it.
Resolves(s) == s \in Relative \/ (Target[s] \in Uris /\ disk[Target[s]] # NoFile)

\* diagnostics_for: without a config there are none.
HasErrors(text) ==
  /\ config = "ok"
  /\ text = Broken \/ ~Resolves(text)

\* workspace_documents looks an open document up under the URI it makes of its
\* path, not under the editor's: a document it misses is read from disk.
IndexedText(u) == IF u \in Canonical THEN Text(u) ELSE disk[u]

\* The files that require s.
Requiring(s) == {u \in Uris : IndexedText(u) = s}

OnRequire(u) == Text(u) \in Specifiers

-----------------------------------------------------------------------------
(* The server takes a message. *)
Next1 == Head(inbox)

Takes(kinds) ==
  /\ server = "running"
  /\ inbox # <<>>
  /\ Next1.kind \in kinds
  /\ inbox' = Tail(inbox)

Publishes(u, errors) ==
  /\ outbox' = Append(outbox, [kind |-> "diagnostics", uri |-> u, errors |-> errors])
  /\ fresh' = fresh \cup {u}

\* Both carry the whole text.
DidOpenOrChange ==
  /\ Takes({"didOpen", "didChange"})
  /\ documents' = [documents EXCEPT ![Next1.uri] = Next1.text]
  /\ Publishes(Next1.uri, HasErrors(Next1.text))
  /\ UNCHANGED <<userVars, server>>

\* Mutant: the diagnostics of a closed document stay.
DidCloseQuietly ==
  /\ Takes({"didClose"})
  /\ documents' = [documents EXCEPT ![Next1.uri] = Closed]
  /\ UNCHANGED <<userVars, server, outbox, fresh>>

DidClose ==
  /\ Takes({"didClose"})
  /\ documents' = [documents EXCEPT ![Next1.uri] = Closed]
  /\ Publishes(Next1.uri, FALSE)
  /\ UNCHANGED <<userVars, server>>

Answers(changes) ==
  /\ outbox' = Append(outbox,
       [kind |-> Next1.kind, uri |-> Next1.uri, id |-> Next1.id, asked |-> Next1.asked,
        text |-> Text(Next1.uri), changes |-> changes])
  /\ UNCHANGED <<userVars, server, documents, fresh>>

\* Formatting, symbols, prepareRename, code actions; and the methods below
\* where the cursor is not on a require string.
AnswerDocument ==
  /\ Takes({"document"})
  /\ Text(Next1.uri) # NoFile
  /\ Answers({})

\* Completion of a require lists the aliases of the config.
AnswerCompletion ==
  /\ Takes({"completion"})
  /\ Text(Next1.uri) # NoFile
  /\ OnRequire(Next1.uri) => config = "ok"
  /\ Answers({})

\* Hover and definition of a require resolve it.
AnswerHover ==
  /\ Takes({"hover"})
  /\ Text(Next1.uri) # NoFile
  /\ OnRequire(Next1.uri) => config = "ok" /\ Resolves(Text(Next1.uri))
  /\ Answers({})

\* Rename of a require edits every file that has the same one.
AnswerRename ==
  /\ Takes({"rename"})
  /\ Text(Next1.uri) # NoFile
  /\ OnRequire(Next1.uri) => config = "ok"
  /\ Answers(IF OnRequire(Next1.uri) THEN Requiring(Text(Next1.uri)) ELSE {})

\* A handler returns an error: main returns it.
Fail ==
  /\ Takes(Methods)
  /\ \/ Text(Next1.uri) = NoFile
     \/ /\ OnRequire(Next1.uri)
        /\ \/ Next1.kind # "document" /\ config = "broken"
           \/ Next1.kind = "hover" /\ ~Resolves(Text(Next1.uri))
  /\ server' = "failed"
  /\ UNCHANGED <<userVars, documents, outbox, fresh>>

\* Mutant: shutdown is taken for a notification.
ShutdownQuietly ==
  /\ Takes({"shutdown"})
  /\ UNCHANGED <<userVars, serverVars, fresh>>

Shutdown ==
  /\ Takes({"shutdown"})
  /\ outbox' = Append(outbox, [kind |-> "shutdown", id |-> Next1.id])
  /\ UNCHANGED <<userVars, server, documents, fresh>>

Exit ==
  /\ Takes({"exit"})
  /\ server' = "exited"
  /\ UNCHANGED <<userVars, documents, outbox, fresh>>

Serve ==
  \/ DidOpenOrChange \/ DidClose
  \/ AnswerDocument \/ AnswerCompletion \/ AnswerHover \/ AnswerRename \/ Fail
  \/ Shutdown \/ Exit

-----------------------------------------------------------------------------
(* The user and the editor. *)
Acts ==
  /\ events < MaxEvents
  /\ events' = events + 1

Connected == client = "running" /\ toOpen = {}

\* The editor tells the server, if there is one to be told.
Tells(message) ==
  IF client = "running" THEN inbox' = Append(inbox, message) ELSE UNCHANGED inbox

Open(u) ==
  /\ Acts
  /\ toOpen = {}
  /\ editor[u] = Closed /\ disk[u] # NoFile
  /\ editor' = [editor EXCEPT ![u] = disk[u]]
  /\ Tells([kind |-> "didOpen", uri |-> u, text |-> disk[u]])
  /\ UNCHANGED <<disk, config, client, toOpen, pending, shown, serverVars, fresh>>

Edit(u, text) ==
  /\ Acts
  /\ toOpen = {}
  /\ editor[u] \notin {Closed, text}
  /\ editor' = [editor EXCEPT ![u] = text]
  /\ Tells([kind |-> "didChange", uri |-> u, text |-> text])
  /\ UNCHANGED <<disk, config, client, toOpen, pending, shown, serverVars, fresh>>

Close(u) ==
  /\ Acts
  /\ toOpen = {}
  /\ editor[u] # Closed
  /\ editor' = [editor EXCEPT ![u] = Closed]
  /\ Tells([kind |-> "didClose", uri |-> u])
  /\ UNCHANGED <<disk, config, client, toOpen, pending, shown, serverVars, fresh>>

\* The user asks something about a file that exists.
Ask(method, u) ==
  /\ Acts
  /\ Connected
  /\ editor[u] # Closed \/ disk[u] # NoFile
  /\ pending' = pending \cup {events'}
  /\ inbox' = Append(inbox, [kind |-> method, uri |-> u, id |-> events', asked |-> editor])
  /\ UNCHANGED <<disk, config, client, editor, toOpen, shown, serverVars, fresh>>

\* xluau.restartServer stops the client.
Stop ==
  /\ Acts
  /\ Connected
  /\ client' = "stopping"
  /\ pending' = pending \cup {events'}
  /\ inbox' = Append(inbox, [kind |-> "shutdown", id |-> events'])
  /\ UNCHANGED <<disk, config, editor, toOpen, shown, serverVars, fresh>>

\* The user saves a document, or another program writes or removes a file.  The
\* server ignores workspace/didChangeWatchedFiles.
WriteFile(u, text) ==
  /\ Acts
  /\ disk[u] # text
  /\ disk' = [disk EXCEPT ![u] = text]
  /\ fresh' = {}
  /\ UNCHANGED <<config, client, editor, toOpen, pending, shown, inbox, serverVars>>

WriteConfig(contents) ==
  /\ Acts
  /\ config # contents
  /\ config' = contents
  /\ fresh' = {}
  /\ UNCHANGED <<disk, client, editor, toOpen, pending, shown, inbox, serverVars>>

\* The editor takes a message from the server.
Receive ==
  /\ client # "stopped"
  /\ outbox # <<>>
  /\ outbox' = Tail(outbox)
  /\ LET m == Head(outbox) IN
     \/ /\ m.kind = "diagnostics"
        /\ shown' = [shown EXCEPT ![m.uri] = m.errors]
        /\ UNCHANGED <<pending, inbox>>
     \/ /\ m.kind \in Methods
        /\ pending' = pending \ {m.id}
        /\ UNCHANGED <<shown, inbox>>
     \/ /\ m.kind = "shutdown"
        /\ pending' = pending \ {m.id}
        /\ inbox' = Append(inbox, [kind |-> "exit"])
        /\ UNCHANGED shown
  /\ UNCHANGED <<disk, config, client, editor, toOpen, server, documents, fresh, events>>

\* The server's process is gone, and with it what was under way.
Notice ==
  /\ server # "running"
  /\ client # "stopped"
  /\ client' = "stopped"
  /\ toOpen' = {}
  /\ pending' = {}
  /\ shown' = NoErrors
  /\ inbox' = <<>>
  /\ outbox' = <<>>
  /\ UNCHANGED <<disk, config, editor, server, documents, fresh, events>>

\* A new server, to which the open documents are opened one after the other.
Start ==
  /\ client = "stopped"
  /\ client' = "running"
  /\ toOpen' = {u \in Uris : editor[u] # Closed}
  /\ server' = "running"
  /\ documents' = NoDocuments
  /\ fresh' = {}
  /\ UNCHANGED <<disk, config, editor, pending, shown, inbox, outbox, events>>

Reopen(u) ==
  /\ client = "running"
  /\ u \in toOpen
  /\ toOpen' = toOpen \ {u}
  /\ Tells([kind |-> "didOpen", uri |-> u, text |-> editor[u]])
  /\ UNCHANGED <<disk, config, client, editor, pending, shown, serverVars, fresh, events>>

Editor == Receive \/ Notice \/ Start \/ \E u \in Uris : Reopen(u)

User ==
  \/ \E u \in Uris : Open(u) \/ Close(u)
  \/ \E u \in Uris, text \in Texts : Edit(u, text)
  \/ \E u \in Uris, method \in Methods : Ask(method, u)
  \/ Stop
  \/ \E u \in Uris, text \in Texts \cup {NoFile} : WriteFile(u, text)
  \/ \E contents \in {"ok", "broken"} : WriteConfig(contents)

Next == Serve \/ Editor \/ User

Spec == Init /\ [][Next]_vars

\* The server's loop and the editor's client run; the user need not act.
FairSpec == Spec /\ WF_vars(Serve) /\ WF_vars(Editor)

-----------------------------------------------------------------------------
(* An answer is made from what the user saw when asking, however the user   *)
(* went on typing: from the text of an open document, not from its file, and *)
(* a rename edits exactly those open documents that had the require.  The   *)
(* exception to the last is a document whose URI the editor writes in       *)
(* another way than path_to_uri (file:///c%3A/...): a rename looks for the  *)
(* require in its file.                                                     *)
AnswersFromEditor ==
  \A i \in 1..Len(outbox) :
    outbox[i].kind \in Methods =>
      LET a == outbox[i] IN
      /\ a.asked[a.uri] # Closed => a.text = a.asked[a.uri]
      /\ a.kind = "rename" /\ a.text \in Specifiers =>
           \A u \in Canonical : a.asked[u] # Closed => (u \in a.changes <=> a.asked[u] = a.text)

IsRequest(m) == m.kind \in Methods \cup {"shutdown"}
Waiting(queue) == {queue[i].id : i \in {j \in 1..Len(queue) : IsRequest(queue[j])}}

(* While the server runs, a request without an answer is in exactly one     *)
(* place: the server has still to take it or the editor its answer.         *)
EachAnsweredOnce ==
  server = "running" =>
    /\ pending = Waiting(inbox) \cup Waiting(outbox)
    /\ Waiting(inbox) \cap Waiting(outbox) = {}
    /\ \A queue \in {inbox, outbox} : \A i, j \in 1..Len(queue) :
         IsRequest(queue[i]) /\ IsRequest(queue[j]) /\ queue[i].id = queue[j].id => i = j

AtRest == Connected /\ server = "running" /\ inbox = <<>> /\ outbox = <<>>

(* "parse and validation diagnostics for open .xl files"                    *)
(* (docs/tooling.md:83): when nothing is under way, the editor shows the    *)
(* errors of the text the user sees and none for a closed document, unless  *)
(* a file changed since; also after the server was restarted.               *)
DiagnosticsCurrent ==
  AtRest => \A u \in Uris :
    /\ editor[u] = Closed => ~shown[u]
    /\ editor[u] # Closed /\ u \in fresh => shown[u] = HasErrors(editor[u])

(* Every request is answered, or its server has ended and the editor knows. *)
Answered == \A id \in 1..MaxEvents : id \in pending ~> id \notin pending

=============================================================================
