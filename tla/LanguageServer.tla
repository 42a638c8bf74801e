--------------------------- MODULE LanguageServer ---------------------------
(***************************************************************************)
(* The language server, LSPServer.cpp: one thread that reads messages in     *)
(* order and answers from what it keeps of each open document: its text, the *)
(* declarations parsed from it, their diagnostics and the reference counts   *)
(* shown by the code lenses.                                                *)
(*                                                                         *)
(* A text is a sequence of functions [name, calls, broken]: the names it     *)
(* calls, and whether it has a syntax error, which loses the function.  A    *)
(* position is <<i, k>>: the name of function i (k = 0) or its k-th call.    *)
(***************************************************************************)
EXTENDS Integers, Sequences, SequencesExt, FiniteSets, FiniteSetsExt

CONSTANTS Uris,       \* the documents, in the order of the map documents_: a sequence
          Texts,      \* the texts a client may send; <<>> is the empty one
          Asks,       \* the requests a client may make: [method, uri, at, name]
          Ids,        \* the ids it gives them
          NoId,
          NoText,     \* where a client has no document
          MaxNotes,   \* how many times it opens, changes or closes a document,
          MaxAsks,    \* makes a request,
          MaxCancels, \* and cancels one
          MaxInbox    \* messages written and not yet read

ASSUME UrisAssumption == Uris \in Seq(ToSet(Uris))
ASSUME TextsAssumption == NoText \notin Texts

\* What an editor asks of one document, of a name, or of the server.
DocumentMethods ==
  {"references", "rename", "highlight", "definition", "documentSymbol", "codeAction", "prepareCall",
   "codeLens", "completion", "hover", "signatureHelp", "inlayHint", "foldingRange",
   "formatting", "semanticTokens", "selectionRange"}
NameMethods == {"workspaceSymbol", "incomingCalls", "outgoingCalls"}

ASSUME AsksAssumption ==
  \A q \in Asks : q.uri \in ToSet(Uris) /\ q.method \in DocumentMethods \cup NameMethods \cup {"shutdown"}

VARIABLES view,       \* the client's texts
          inbox,      \* the messages on their way to the server
          asked, noted, cancels,   \* what the client did so far
          documents,  \* documents_
          refCacheGeneration, cancelledRequests, shutdownRequested, exitRequested,
          shown,      \* the diagnostics last published for each document
          answer,     \* the answer given by the last step, or NoAnswer
          replied,    \* the id of the last answer
          refused     \* history: the cancels sent for an id less the requests refused

lvars == <<view, inbox, asked, noted, cancels, documents, refCacheGeneration,
           cancelledRequests, shutdownRequested, exitRequested, shown, answer, replied, refused>>

UriSet == ToSet(Uris)

-----------------------------------------------------------------------------
(* What is kept of a document. *)

\* The declarations that parse, each with its place in the text.
parseTranslationUnit(text) ==
  {[at |-> i, name |-> text[i].name, calls |-> text[i].calls] : i \in {j \in 1 .. Len(text) : ~text[j].broken}}

DeclNames(tu) == {d.name : d \in tu}

\* The parser's errors; without any, the type checker's; and the linter's warnings.
Diagnostics(text, tu) ==
  LET syntax == {<<i, 0, "syntax">> : i \in {j \in 1 .. Len(text) : text[j].broken}}
      undeclared == UNION {{<<d.at, k, "undeclared">> :
                              k \in {j \in 1 .. Len(d.calls) : d.calls[j] \notin DeclNames(tu)}} : d \in tu}
      empty == {<<d.at, 0, "empty">> : d \in {e \in tu : e.calls = <<>>}}
  IN  syntax \cup empty \cup IF syntax = {} THEN undeclared ELSE {}

Closed == [open |-> FALSE]

\* Mutant: the diagnostics of the previous text stay when the text is emptied.
analyzeDocumentSkipsEmpty(doc) ==
  IF doc.content = <<>> THEN [doc EXCEPT !.tu = {}]
  ELSE LET tu == parseTranslationUnit(doc.content)
       IN  [doc EXCEPT !.tu = tu, !.diag = Diagnostics(doc.content, tu)]

analyzeDocument(doc) ==
  LET tu == parseTranslationUnit(doc.content)
  IN  [doc EXCEPT !.tu = tu, !.diag = Diagnostics(doc.content, tu)]

NewDocument(text) ==
  [open |-> TRUE, content |-> text, tu |-> {}, diag |-> {},
   refCountCache |-> << >>, refCountGeneration |-> -1]

IsOpen(docs, u) == docs[u].open

-----------------------------------------------------------------------------
(* The requests.  Each operator is the result the handler puts in its answer.   *)

\* The declaration the position is in (not the word under it).
findNodeAtPosition(tu, at) == {d \in tu : d.at = at[1]}

NoName == "no name"

getDeclNameAtPosition(tu, at) ==
  LET found == findNodeAtPosition(tu, at)
  IN  IF found = {} THEN NoName ELSE CHOOSE name \in DeclNames(found) : TRUE

\* The first declaration of a name, if there is one.
findDeclByName(tu, name) ==
  {d \in tu : d.name = name /\ \A e \in tu : e.name = name => d.at <= e.at}

\* The word at a position of the text.
getWordAtPosition(text, at) ==
  IF at[1] \notin 1 .. Len(text) THEN NoName
  ELSE IF at[2] = 0 THEN text[at[1]].name
  ELSE IF at[2] \in 1 .. Len(text[at[1]].calls) THEN text[at[1]].calls[at[2]] ELSE NoName

findNameOccurrences(text, name) ==
  {at \in UNION {{<<i, k>> : k \in 0 .. Len(text[i].calls)} : i \in 1 .. Len(text)} :
     getWordAtPosition(text, at) = name}

handleReferences(doc, q) ==
  LET name == getDeclNameAtPosition(doc.tu, q.at)
  IN  IF name = NoName THEN {} ELSE findNameOccurrences(doc.content, name)

Error == {<<0, 0>>}

\* Every occurrence replaced, or an error.
handleRename(doc, q) ==
  LET name == getDeclNameAtPosition(doc.tu, q.at)
  IN  IF name = NoName THEN Error ELSE findNameOccurrences(doc.content, name)

\* The declaration's name, or the word where no declaration was parsed; a name that
\* follows `func` is a write (3), another a read (2).
handleDocumentHighlight(doc, q) ==
  LET decl == getDeclNameAtPosition(doc.tu, q.at)
      name == IF decl # NoName THEN decl ELSE getWordAtPosition(doc.content, q.at)
  IN  IF doc.tu = {} \/ name = NoName THEN {}
      ELSE {<<at, IF at[2] = 0 THEN 3 ELSE 2>> : at \in findNameOccurrences(doc.content, name)}

handleDefinition(doc, q) ==
  LET found == findDeclByName(doc.tu, getWordAtPosition(doc.content, q.at))
  IN  {d.at : d \in found}

handleDocumentSymbol(doc) == {<<d.name, d.at>> : d \in doc.tu}

\* The quick fixes for the errors in the lines of one function.
handleCodeAction(doc, q) ==
  {d \in doc.diag : d[1] = q.at[1] /\ d[3] = "undeclared"}

handleCallHierarchyPrepare(doc, q) ==
  {<<d.name, d.at>> : d \in findNodeAtPosition(doc.tu, q.at)}

handleWorkspaceSymbol(docs) ==
  UNION {{<<u, d.name, d.at>> : d \in docs[u].tu} : u \in {v \in UriSet : IsOpen(docs, v)}}

CallSites(d, name) == {k \in 1 .. Len(d.calls) : d.calls[k] = name}
Callees(d) == {d.calls[k] : k \in 1 .. Len(d.calls)}

\* Who calls the function: in every open document.
handleCallHierarchyIncoming(docs, name) ==
  UNION {{<<u, d.name, CallSites(d, name)>> : d \in {e \in docs[u].tu : CallSites(e, name) # {}}}
         : u \in {v \in UriSet : IsOpen(docs, v)}}

\* The document a callee is shown in: the last open one, in the map's order, that
\* declares it; the caller's where none does.
CalleeUri(docs, uri, name) ==
  LET declaring == {i \in 1 .. Len(Uris) : IsOpen(docs, Uris[i]) /\ name \in DeclNames(docs[Uris[i]].tu)}
  IN  IF declaring = {} THEN uri ELSE Uris[Max(declaring)]

\* Whom the function calls: its first declaration in the item's document.
handleCallHierarchyOutgoing(docs, uri, name) ==
  LET found == IF IsOpen(docs, uri) THEN findDeclByName(docs[uri].tu, name) ELSE {}
  IN  UNION {{<<callee, CalleeUri(docs, uri, callee), CallSites(d, callee)>> : callee \in Callees(d)} : d \in found}

\* The occurrences of a name in every open document, less its declaration.
countReferences(docs, name) ==
  LET count == Cardinality(UNION {{u} \X findNameOccurrences(docs[u].content, name)
                                    : u \in {v \in UriSet : IsOpen(docs, v)}})
  IN  IF count > 0 THEN count - 1 ELSE 0

\* Mutant: the cache is thought fresh when it was filled after any change.
LensCacheEverFilled(docs, u, generation) ==
  IF docs[u].refCountGeneration = -1
  THEN [docs[u] EXCEPT !.refCountCache = [n \in DeclNames(docs[u].tu) |-> countReferences(docs, n)],
                       !.refCountGeneration = generation]
  ELSE docs[u]

\* The lens cache, brought up to date when a document changed since it was filled.
LensCache(docs, u, generation) ==
  IF docs[u].refCountGeneration # generation
  THEN [docs[u] EXCEPT
          !.refCountCache = [n \in DeclNames(docs[u].tu) \cup DOMAIN @ |->
                               IF n \in DeclNames(docs[u].tu) THEN countReferences(docs, n) ELSE @[n]],
          !.refCountGeneration = generation]
  ELSE docs[u]

handleCodeLens(doc) ==
  {<<d.at, IF d.name \in DOMAIN doc.refCountCache THEN doc.refCountCache[d.name] ELSE 0>>
     : d \in doc.tu}

\* Completion offers the names declared (and what no text changes: keywords, builtins).
handleCompletion(doc) == DeclNames(doc.tu)

\* The declaration the position is in, as a signature.
handleHover(doc, q) == {d.name : d \in findNodeAtPosition(doc.tu, q.at)}

\* The signature of the function called at the position: the one declared; else the
\* first `func name(` in the text, which may not have parsed.
handleSignatureHelp(doc, q) ==
  LET name == getWordAtPosition(doc.content, q.at)
      declared == findDeclByName(doc.tu, name)
      written == {i \in 1 .. Len(doc.content) : doc.content[i].name = name}
  IN  IF doc.tu = {} \/ q.at[2] = 0 \/ name = NoName THEN {}
      ELSE IF declared # {} THEN {d.at : d \in declared}
      ELSE IF written # {} THEN {Min(written)} ELSE {}

\* The parameter names shown at the calls in the lines of one function.
handleInlayHint(doc, q) ==
  UNION {{<<d.at, k>> : k \in {j \in 1 .. Len(d.calls) : findDeclByName(doc.tu, d.calls[j]) # {}}}
         : d \in findNodeAtPosition(doc.tu, q.at)}

\* A region for the braces of each function, parsed or not.
handleFoldingRange(doc) == 1 .. Len(doc.content)

\* formatting, semanticTokens and selectionRange read the text only.
ContentOnly(doc) == {doc.content}

\* The documents after a request: the lenses refresh a cache.
DocumentsAfter(docs, generation, q) ==
  IF q.method = "codeLens" /\ IsOpen(docs, q.uri) /\ docs[q.uri].tu # {}
  THEN [docs EXCEPT ![q.uri] = LensCache(docs, q.uri, generation)] ELSE docs

ResultOf(docs, generation, q) ==
  LET doc == DocumentsAfter(docs, generation, q)[q.uri]
  IN  IF q.method = "workspaceSymbol" THEN handleWorkspaceSymbol(docs)
      ELSE IF q.method = "incomingCalls" THEN handleCallHierarchyIncoming(docs, q.name)
      ELSE IF q.method = "outgoingCalls" THEN handleCallHierarchyOutgoing(docs, q.uri, q.name)
      ELSE IF ~IsOpen(docs, q.uri) THEN (IF q.method = "rename" THEN Error ELSE {})
      ELSE CASE q.method = "references"     -> handleReferences(doc, q)
             [] q.method = "rename"         -> handleRename(doc, q)
             [] q.method = "highlight"      -> handleDocumentHighlight(doc, q)
             [] q.method = "definition"     -> handleDefinition(doc, q)
             [] q.method = "documentSymbol" -> handleDocumentSymbol(doc)
             [] q.method = "codeAction"     -> handleCodeAction(doc, q)
             [] q.method = "prepareCall"    -> handleCallHierarchyPrepare(doc, q)
             [] q.method = "codeLens"       -> handleCodeLens(doc)
             [] q.method = "completion"     -> handleCompletion(doc)
             [] q.method = "hover"          -> handleHover(doc, q)
             [] q.method = "signatureHelp"  -> handleSignatureHelp(doc, q)
             [] q.method = "inlayHint"      -> handleInlayHint(doc, q)
             [] q.method = "foldingRange"   -> handleFoldingRange(doc)
             [] q.method \in {"formatting", "semanticTokens", "selectionRange"} -> ContentOnly(doc)

-----------------------------------------------------------------------------
(* The client (an editor) and the transport. *)

HasOpen(u) == view[u] # NoText

ExitSent == exitRequested \/ \E i \in DOMAIN inbox : inbox[i].kind = "exit"

Send(msg) ==
  /\ ~ExitSent /\ Len(inbox) < MaxInbox
  /\ inbox' = Append(inbox, msg)
  /\ answer' = NoId
  /\ UNCHANGED <<documents, refCacheGeneration, cancelledRequests, shutdownRequested,
                 exitRequested, shown, replied>>

Note(kind, u, text) ==
  /\ noted < MaxNotes
  /\ noted' = noted + 1
  /\ view' = [view EXCEPT ![u] = text]
  /\ Send([kind |-> kind, uri |-> u, text |-> text])
  /\ UNCHANGED <<asked, cancels, refused>>

\* An editor opens a document it has not open, and changes or closes one it has.
ClientOpens(u, text)   == ~HasOpen(u) /\ Note("didOpen", u, text)
ClientChanges(u, text) == HasOpen(u) /\ text # view[u] /\ Note("didChange", u, text)
ClientCloses(u)        == HasOpen(u) /\ Note("didClose", u, NoText)

Requested(msgs) == SelectSeq(msgs, LAMBDA msg : msg.kind = "request")

PendingIds == [i \in DOMAIN Requested(inbox) |-> Requested(inbox)[i].id]

\* sees is a history value: the client's texts when it asked.
ClientAsks(id, q) ==
  /\ asked < MaxAsks /\ id \notin ToSet(PendingIds)
  /\ asked' = asked + 1
  /\ Send([kind |-> "request", id |-> id, q |-> q, sees |-> view])
  /\ UNCHANGED <<view, noted, cancels, refused>>

\* A cancel may be sent for any id: its answer may be on the way.
ClientCancels(id) ==
  /\ cancels < MaxCancels
  /\ cancels' = cancels + 1
  /\ refused' = [refused EXCEPT ![id] = @ + 1]
  /\ Send([kind |-> "cancel", id |-> id])
  /\ UNCHANGED <<view, asked, noted>>

ClientExits ==
  /\ Send([kind |-> "exit"])
  /\ UNCHANGED <<view, asked, noted, cancels, refused>>

-----------------------------------------------------------------------------
(* The server: run reads a message and dispatches it. *)

Reads(kind) ==
  /\ ~exitRequested /\ inbox # <<>> /\ Head(inbox).kind = kind
  /\ inbox' = Tail(inbox)
  /\ UNCHANGED <<view, asked, noted, cancels>>

NoReply == answer' = NoId /\ UNCHANGED <<replied, refused>>

Answers(msg, isRefused, value) ==
  /\ answer' = [q |-> msg.q, sees |-> msg.sees, refused |-> isRefused,
               value |-> <<msg.q.method, value>>]
  /\ replied' = msg.id

\* Mutant: a cancelled request is dropped without an answer.
HandleCancelledDrops ==
  /\ Reads("request")
  /\ Head(inbox).id \in cancelledRequests
  /\ cancelledRequests' = cancelledRequests \ {Head(inbox).id}
  /\ NoReply
  /\ UNCHANGED <<documents, refCacheGeneration, shutdownRequested, exitRequested, shown>>

\* A request whose id was cancelled is refused, once.
HandleCancelled ==
  /\ Reads("request")
  /\ Head(inbox).id \in cancelledRequests
  /\ cancelledRequests' = cancelledRequests \ {Head(inbox).id}
  /\ Answers(Head(inbox), TRUE, {})
  /\ refused' = [refused EXCEPT ![Head(inbox).id] = @ - 1]
  /\ UNCHANGED <<documents, refCacheGeneration, shutdownRequested, exitRequested, shown>>

HandleRequest ==
  /\ Reads("request")
  /\ Head(inbox).id \notin cancelledRequests
  /\ LET q == Head(inbox).q
     IN  IF q.method = "shutdown"
         THEN /\ shutdownRequested' = TRUE
              /\ Answers(Head(inbox), FALSE, {})
              /\ UNCHANGED documents
         ELSE /\ Answers(Head(inbox), FALSE, ResultOf(documents, refCacheGeneration, q))
              /\ documents' = DocumentsAfter(documents, refCacheGeneration, q)
              /\ UNCHANGED shutdownRequested
  /\ UNCHANGED <<refCacheGeneration, cancelledRequests, exitRequested, shown, refused>>

HandleCancel ==
  /\ Reads("cancel")
  /\ cancelledRequests' = cancelledRequests \cup {Head(inbox).id}
  /\ NoReply
  /\ UNCHANGED <<documents, refCacheGeneration, shutdownRequested, exitRequested, shown>>

HandleDidOpen ==
  /\ Reads("didOpen")
  /\ LET doc == analyzeDocument(NewDocument(Head(inbox).text))
     IN  /\ documents' = [documents EXCEPT ![Head(inbox).uri] = doc]
         /\ shown' = [shown EXCEPT ![Head(inbox).uri] = doc.diag]
  /\ refCacheGeneration' = refCacheGeneration + 1
  /\ NoReply
  /\ UNCHANGED <<cancelledRequests, shutdownRequested, exitRequested>>

\* A document the server does not have is ignored.
HandleDidChange ==
  /\ Reads("didChange")
  /\ LET u == Head(inbox).uri
         doc == analyzeDocument([documents[u] EXCEPT !.content = Head(inbox).text])
     IN  IF IsOpen(documents, u)
         THEN /\ documents' = [documents EXCEPT ![u] = doc]
              /\ shown' = [shown EXCEPT ![u] = doc.diag]
              /\ refCacheGeneration' = refCacheGeneration + 1
         ELSE UNCHANGED <<documents, shown, refCacheGeneration>>
  /\ NoReply
  /\ UNCHANGED <<cancelledRequests, shutdownRequested, exitRequested>>

\* Empty diagnostics are published, then the document is forgotten.
HandleDidClose ==
  /\ Reads("didClose")
  /\ documents' = [documents EXCEPT ![Head(inbox).uri] = Closed]
  /\ shown' = [shown EXCEPT ![Head(inbox).uri] = {}]
  /\ refCacheGeneration' = refCacheGeneration + 1
  /\ NoReply
  /\ UNCHANGED <<cancelledRequests, shutdownRequested, exitRequested>>

HandleExit ==
  /\ Reads("exit")
  /\ exitRequested' = TRUE
  /\ NoReply
  /\ UNCHANGED <<documents, refCacheGeneration, cancelledRequests, shutdownRequested, shown>>

dispatch ==
  \/ HandleRequest \/ HandleCancelled \/ HandleCancel \/ HandleExit
  \/ HandleDidOpen \/ HandleDidChange \/ HandleDidClose

-----------------------------------------------------------------------------
LInit ==
  /\ view = [u \in UriSet |-> NoText] /\ inbox = <<>>
  /\ asked = 0 /\ noted = 0 /\ cancels = 0
  /\ documents = [u \in UriSet |-> Closed]
  /\ refCacheGeneration = 0 /\ cancelledRequests = {}
  /\ shutdownRequested = FALSE /\ exitRequested = FALSE
  /\ shown = [u \in UriSet |-> {}]
  /\ answer = NoId /\ replied = NoId
  /\ refused = [id \in Ids |-> 0]

LNext ==
  \/ \E u \in UriSet, text \in Texts : ClientOpens(u, text) \/ ClientChanges(u, text)
  \/ \E u \in UriSet : ClientCloses(u)
  \/ \E id \in Ids, q \in Asks : ClientAsks(id, q)
  \/ \E id \in Ids : ClientCancels(id)
  \/ ClientExits
  \/ dispatch

LSpec == LInit /\ [][LNext]_lvars

\* run reads as long as there is something to read.
LFairSpec == LSpec /\ WF_lvars(dispatch)

-----------------------------------------------------------------------------
(* Properties. *)

\* What a server started afresh holds when it has been sent the client's texts.
FreshDocuments(texts) ==
  [u \in UriSet |-> IF texts[u] = NoText THEN Closed ELSE analyzeDocument(NewDocument(texts[u]))]

\* Nothing an answer is made from is stale: whatever was opened, changed, closed and
\* asked before, the answer is the one a server started afresh with the texts the
\* client had when it asked would give.  (The tree, the diagnostics and the counts
\* of DocumentState are kept across messages.)  And the two directions of the call
\* hierarchy agree: f is listed among the callers of g exactly when g is listed
\* among the callees of f, with the same call sites.  And no refusal is left over from
\* an earlier request: a cancel refuses at most one, so an id that is used again is
\* not refused for ever (dispatch, LSPServer.cpp:139).
AnswersSound ==
  /\ \A id \in Ids : refused[id] >= 0
  /\ answer # NoId /\ ~answer.refused /\ answer.q.method # "shutdown" =>
       answer.value[2] = ResultOf(FreshDocuments(answer.sees), 0, answer.q)
  /\ inbox = <<>> =>   \* it depends on the documents alone
     LET opened == {u \in UriSet : IsOpen(documents, u)}
     IN  \A u \in opened :
           \A f \in DeclNames(documents[u].tu), g \in UNION {DeclNames(documents[v].tu) : v \in opened} :
             {caller[3] : caller \in {x \in handleCallHierarchyIncoming(documents, g) : x[1] = u /\ x[2] = f}}
               = {out[3] : out \in {x \in handleCallHierarchyOutgoing(documents, u, f) : x[1] = g}}

\* Once the server has read every message about a document, the diagnostics the
\* client shows for it are those of the text it has: none for one it closed.
DiagnosticsShown ==
  \A u \in UriSet :
    (/\ ~exitRequested
     /\ \A i \in DOMAIN inbox :
          inbox[i].kind \in {"didOpen", "didChange", "didClose"} => inbox[i].uri # u) =>
      shown[u] = IF HasOpen(u) THEN Diagnostics(view[u], parseTranslationUnit(view[u])) ELSE {}

\* Every request is answered once, in the order of the requests, unless the server
\* was told to exit first: the server implements RequestServer.
Server == INSTANCE RequestServer WITH waiting <- PendingIds, stopped <- exitRequested

ServesRequests == Server!RSpec
=============================================================================
