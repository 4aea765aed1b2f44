-------------------------------- MODULE Page --------------------------------
(***************************************************************************)
(* The lifecycle of Page managed resources: the controller of              *)
(* internal/controller/page/page.go, inside the managed reconciler, with   *)
(* the ProviderConfig its connector resolves before every reconcile.       *)
(***************************************************************************)
EXTENDS ProviderConfig

CONSTANT Nil        \* content that CTFd reports as null

Markdown == "markdown"
Empty == ""
Text == {"title", "route", "content", "format"}
Switches == {"draft", "hidden", "authRequired"}

\* A spec, and a page in CTFd: the values of the texts, and the switches that are on.
Values == (UNION {{spec.text[f] : f \in Text} : spec \in Specs})
             \cup {Nil, Empty, Markdown, "by hand"}
Pages == [text: [Text -> Values], on: SUBSET Switches]

\* A spec's texts are no pointers.
ASSUME PageSpecsAssumption ==
    Specs \subseteq Pages /\ \A spec \in Specs : spec.text.content # Nil

HandMade == [text |-> [f \in Text |-> "by hand"], on |-> {}]

Init == InitWith(HandMade) /\ ConfigInit

----------------------------------------------------------------------------
FormatOrDefault(format) == IF format = Empty THEN Markdown ELSE format

\* The payload of a POST and of a PATCH: every field, whether set or not.
Params(spec) == [spec EXCEPT !.text.format = FormatOrDefault(@)]

\* CTFd may report content that is empty as null.
Stored(params) ==
    {params} \cup {[params EXCEPT !.text.content = Nil] : x \in {Empty} \cap {params.text.content}}

\* Mutant of Content: content that is null differs from content that is empty.
ContentAsIs(page) == page.text.content

Content(page) == IF page.text.content = Nil THEN Empty ELSE page.text.content

IsUpToDate(spec, page) ==
    /\ \A f \in Text \ {"content"} : page.text[f] = Params(spec).text[f]
    /\ Content(page) = spec.text.content
    /\ page.on = spec.on

----------------------------------------------------------------------------
(***************************************************************************)
(* Observe, Create, Update and Delete.                                     *)
(***************************************************************************)
Start(p, r) == StartAt(p, r, "track")

\* Mutant of GetPage: a page that is absent passes for one that has drifted.
GetPageDriftsAbsent(p, r) ==
    LET o == Copy(p, r) IN
    /\ At(p, r, "get")
    /\ Observed(p, r, Exists(o.name) => ~IsUpToDate(o.spec, ctfd[o.name]))
    /\ UNCHANGED <<kubeVars, cache, ctfdVars, budget>>

\* A GET that fails means absent, whatever the error.
GetPage(p, r) ==
    LET o == Copy(p, r) IN
    /\ At(p, r, "get")
    /\ \/ /\ Exists(o.name)
          /\ Observed(p, r, ~IsUpToDate(o.spec, ctfd[o.name]))
          /\ UNCHANGED budget
       \/ /\ (~Exists(o.name) /\ UNCHANGED budget) \/ Fault("get")
          /\ Absent(p, r)
    /\ UNCHANGED <<kubeVars, cache, ctfdVars>>

PostPage(p, r) == Post(p, r, Stored(Params(Copy(p, r).spec)))

\* Observe has set the Available condition, which is written however it ends.
PatchPage(p, r) ==
    LET o == Copy(p, r)
        Sent == \E page \in Stored(Params(o.spec)) : ctfd' = [ctfd EXCEPT ![o.name] = page]
    IN
    /\ At(p, r, "patch")
    /\ \/ Exists(o.name) /\ Sent /\ UNCHANGED budget
       \/ ~Exists(o.name) /\ UNCHANGED <<ctfd, budget>>
       \/ Fault("patch") /\ (UNCHANGED ctfd \/ (Exists(o.name) /\ Sent))
    /\ Finish(p, r, TRUE)
    /\ UNCHANGED <<recent, cache, creator, nextId>>

\* Mutant of DeletePage: the object is released without another look.
DeleteThenRelease(p, r) ==
    /\ At(p, r, "delete")
    /\ \/ ctfd' = [ctfd EXCEPT ![Copy(p, r).name] = NoItem] /\ UNCHANGED budget
       \/ Fault("delete") /\ UNCHANGED ctfd
    /\ Goto(p, r, "release")
    /\ UNCHANGED <<kubeVars, cache, creator, nextId>>

DeletePage(p, r) == DeleteItem(p, r)

----------------------------------------------------------------------------
Connect(p, r) == Track(p, r) \/ Resolve(p, r)

Calling(p, r) ==
    \/ Start(p, r) \/ GetPage(p, r) \/ Bookkeeping(p, r)
    \/ PostPage(p, r) \/ PatchPage(p, r) \/ DeletePage(p, r)

Reconcile(p, r) == Connect(p, r) \/ (Calling(p, r) /\ UNCHANGED configVars)

\* An administrator empties a page and turns its switches, or deletes it.
AdminActs(id) ==
    Intervene(id, {[ctfd[id] EXCEPT !.text.content = Nil, !.on = Switches \ @], NoItem})

Next ==
    \/ \E p \in Pods, r \in Resources : Reconcile(p, r)
    \/ Surroundings /\ UNCHANGED configVars
    \/ \E id \in Ids : AdminActs(id) /\ UNCHANGED configVars
    \/ ConfigActs

Spec == Init /\ [][Next]_allVars

\* As for challenges; and the config controller retries and counts again.
Fairness ==
    /\ \A p \in Pods, r \in Resources :
          /\ WF_allVars(Reconcile(p, r))
          /\ WF_allVars(CacheSync(p, r) /\ UNCHANGED configVars)
    /\ \A r \in Resources : WF_allVars(GraceElapses(r) /\ UNCHANGED configVars)
    /\ ConfigFairness

FairSpec == Spec /\ Fairness

----------------------------------------------------------------------------
(***************************************************************************)
(* Properties.                                                             *)
(***************************************************************************)
\* Every variable has its type.
TypeOK == TypedWith(Pages) /\ ConfigTyped

\* The inductive invariant: every page can be traced from its resource, and
\* every user that was known of keeps the config in place.
PagesTraceable == TypeOK /\ Traceable /\ UsersProtected

\* A reconcile changes, in CTFd, only pages its own resource had created.
OwnPagesOnly ==
    [][\A p \in Pods, r \in Resources : Reconcile(p, r) =>
          \A id \in Ids : ctfd'[id] # ctfd[id] => creator'[id] = r]_allVars

\* A POST or a PATCH that succeeds leaves a page in which isUpToDate finds
\* nothing to do, whatever CTFd makes of empty content.
WritesSettle ==
    [][\A p \in Pods, r \in Resources : UNCHANGED budget =>
          LET o == Copy(p, r) IN
          /\ PostPage(p, r) => IsUpToDate(o.spec, ctfd'[nextId])
          /\ PatchPage(p, r) /\ Exists(o.name) => IsUpToDate(o.spec, ctfd'[o.name])]_allVars

HasClient == <>[]Usable(secret)

\* While the credentials work, every page comes to match its spec, null content
\* being as good as none, and stays so, or there is no page or no config left.
PageInSync ==
    HasClient => \A r \in Resources :
        <>[]( \/ obj[r].phase = "gone" \/ config.phase = "gone"
              \/ Exists(obj[r].name) /\ ctfd[obj[r].name] \in Stored(Params(obj[r].spec)))

\* No page is patched for ever, whatever CTFd makes of empty content.
UpdatesCease == \A r \in Resources : <>[][\A p \in Pods : ~PatchPage(p, r)]_allVars

\* A deleted page goes away, also while its config is being deleted: unless
\* that had gone before the config controller knew that the page uses it.
DeletionCompletes ==
    HasClient => \A r \in Resources :
        []<>( \/ obj[r].phase # "deleting"
              \/ config.phase = "gone" /\ r \notin protected)
=============================================================================
