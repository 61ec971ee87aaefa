---- MODULE Scan ----
(***************************************************************************)
(* scan over the trie while other threads change it: the walk along the    *)
(* border nodes of a layer and down into the next ones, its endpoints, its *)
(* limit and the node versions it reports (interface_scan.h, scan_helper.h)*)
(*                                                                         *)
(* One thread of Tree, the Scanner, scans; it goes down a layer with the   *)
(* steps of find_border in Tree and has its own steps from there.  The     *)
(* frame of a layer is the state of one call of the nested scan and of its *)
(* scan_border; the frames of the layers above are on a stack.             *)
(***************************************************************************)
EXTENDS Tree

CONSTANTS Scanner   \* the thread that scans; its calls are <<"scan", request>>

ASSUME ScanAssumption == Scanner \in Threads

VARIABLES scan      \* out-parameters and locals of the scan

svars == <<vars, scan>>

\* The order of keys, that of their strings.
Less(a, b) ==
    \E i \in DOMAIN b : /\ \A j \in 1 .. i - 1 : j \in DOMAIN a /\ a[j] = b[j]
                        /\ i \in DOMAIN a => a[i] < b[i]

InRange(q, k) ==
    /\ q.l_end = "INF" \/ Less(q.l, k) \/ (q.l_end = "INCLUSIVE" /\ k = q.l)
    /\ q.r_end = "INF" \/ Less(k, q.r) \/ (q.r_end = "INCLUSIVE" /\ k = q.r)

\* A layer to scan: its root, the keys that lead to it, what is left of the
\* endpoints there, and the lengths of the lists when it was entered (base) and
\* when the border node at hand was (fb).  `over` tells that the permutation as read
\* counted a rank too many, its last; `extra` is history: the layer was entered there.
Frame(root_ptr, prefix, l, l_end, r_end, base) ==
    [rt |-> root_ptr, prefix |-> prefix, l |-> l, l_end |-> l_end, r_end |-> r_end,
     base |-> base, fb |-> base, n |-> None, v |-> InitBody, next |-> None, nv |-> InitBody,
     todo |-> <<>>, over |-> FALSE, extra |-> FALSE, pushed |-> FALSE, link |-> None]

NoRequest == [l |-> <<>>, l_end |-> "INF", r |-> <<>>, r_end |-> "INF", max |-> 0]

ScanInit ==
    /\ Init
    /\ scan = [q |-> NoRequest, f |-> Frame(None, <<>>, <<>>, "INF", "INF", <<0, 0>>),
               stack |-> <<>>, tuples |-> <<>>, versions |-> <<>>, res |-> "none",
               always |-> {}, ever |-> {}]

-----------------------------------------------------------------------------
(* Shorthands: the locals of the descent are those of the thread in Tree.  *)

me == th[Scanner]
At(label) == me.pc = label
Sizes == <<Len(scan.tuples), Len(scan.versions)>>
Nested == scan.stack # <<>>

\* A plausible slip in clean_up_tuple_list_nvc: a retry keeps what it had.
CleanUpVersionsOnly(x, sizes) == [x EXCEPT !.versions = SubSeq(@, 1, sizes[2])]

\* clean_up_tuple_list_nvc: the lists as they were when they had these lengths.
CleanUp(x, sizes) == [x EXCEPT !.tuples = SubSeq(@, 1, sizes[1]),
                               !.versions = SubSeq(@, 1, sizes[2])]

\* The version of node n, as read, for the phantom protection.
Logged(x, n, v) == [x EXCEPT !.versions = Append(@, <<n, v>>)]

ScanGoto(label) == Goto(Scanner, label)

\* find_border in the layer of frame f: its key is what is left of the left
\* endpoint, and the least one when nothing is.
Dive(f, label) ==
    [Idle EXCEPT !.pc = label, !.op = "scan", !.key = IF f.l = <<>> THEN <<0>> ELSE f.l,
                 !.calls = me.calls, !.rt = f.rt]

\* Back at the border node of frame f.
Resume(f, label) == [Dive(f, label) EXCEPT !.n = f.n, !.v = f.v]

Finish(x, r) ==
    /\ scan' = [x EXCEPT !.res = r, !.f = Frame(None, <<>>, <<>>, "INF", "INF", <<0, 0>>),
                         !.stack = <<>>]
    /\ th' = [th EXCEPT ![Scanner] = [Idle EXCEPT !.calls = me.calls]]

\* OK_SCAN_END: the scan is over, or the layer is and the one above goes on.
ScanEnd(x) ==
    IF ~Nested THEN Finish(x, "OK")
    ELSE LET f == Head(scan.stack)
         IN  /\ scan' = [x EXCEPT !.f = [f EXCEPT !.todo = Tail(@)], !.stack = Tail(@)]
             /\ th' = [th EXCEPT ![Scanner] = Resume(f, "slot")]

\* A plausible slip: the status of the nested scan is not looked at.
NestedIgnored == ScanEnd(scan)

\* The nested scan failed: the caller cleans up and reads its border node again.
NestedFails ==
    LET f == Head(scan.stack)
    IN  /\ scan' = [CleanUp(scan, f.fb) EXCEPT !.f = f, !.stack = Tail(@)]
        /\ th' = [th EXCEPT ![Scanner] = Resume(f, "again")]

\* OK_RETRY_FROM_ROOT of scan_border: from the root of all, or of this layer.
FromRoot ==
    IF ~Nested THEN ScanGoto("scan_root") /\ UNCHANGED scan
    ELSE /\ scan' = CleanUp(scan, scan.f.base)
         /\ th' = [th EXCEPT ![Scanner] = Dive(scan.f, "enter")]

-----------------------------------------------------------------------------
(* The call and the way to a border node.                                  *)

ScanCall(q) ==
    /\ At("idle") /\ me.calls < cast[Scanner].max
    /\ LET bad == q.l = q.r /\ "EXCLUSIVE" \in {q.l_end, q.r_end}
       IN  /\ scan' = [scan EXCEPT !.q = q, !.tuples = <<>>, !.versions = <<>>,
                                   !.res = IF bad THEN "ERR_BAD_USAGE" ELSE "none",
                                   !.always = kv, !.ever = kv]
           /\ th' = [th EXCEPT ![Scanner] =
                        IF bad THEN [@ EXCEPT !.calls = @ + 1]
                        ELSE [Dive(scan.f, "scan_root") EXCEPT !.calls = @ + 1]]
    /\ UNCHANGED static

\* retry_from_root: the lists are cleared.
ScanRoot ==
    /\ At("scan_root")
    /\ LET q == scan.q
           f == Frame(root, <<>>, q.l, q.l_end, q.r_end, <<0, 0>>)
       IN  IF root = None THEN Finish(CleanUp(scan, <<0, 0>>), "OK_ROOT_IS_NULL")
           ELSE /\ scan' = [CleanUp(scan, <<0, 0>>) EXCEPT !.f = f]
                /\ th' = [th EXCEPT ![Scanner] = Dive(f, "version")]
    /\ UNCHANGED static

\* The head of the nested scan.
EnterLayer ==
    /\ At("enter")
    /\ LET w == node[me.rt].ver
       IN  IF w.deleted \/ ~w.root THEN NestedFails ELSE ScanGoto("version") /\ UNCHANGED scan
    /\ UNCHANGED static

\* The head of find_border, as FindRoot in Tree.
ScanFindRoot ==
    /\ At("version")
    /\ LET w == node[me.rt].ver
           d == Descend(me.rt, w)
       IN  /\ stable(w)
           /\ \/ /\ ~w.root /\ ~Nested
                 /\ ScanGoto("scan_root") /\ UNCHANGED scan
              \/ /\ ~w.root /\ Nested
                 /\ NestedFails
              \/ /\ w.root
                 /\ th' = [th EXCEPT ![Scanner].n = d.n, ![Scanner].v = d.v,
                             ![Scanner].pc = IF w.deleted /\ ~w.border THEN "null" ELSE d.pc]
                 /\ UNCHANGED scan
    /\ UNCHANGED static

-----------------------------------------------------------------------------
(* scan_border.                                                            *)

\* A deleted root is an empty tree, whose version is the result.  Otherwise the
\* next pointer is read first ...
ReadNext ==
    /\ At("fetch") \/ At("again")
    /\ IF At("fetch") /\ ~Nested /\ me.v.deleted /\ me.v.root
       THEN Finish([scan EXCEPT !.versions = << <<me.n, me.v>> >>], "OK")
       ELSE /\ scan' = [scan EXCEPT !.f.next = node[me.n].next, !.f.fb = Sizes]
            /\ ScanGoto("perm")
    /\ UNCHANGED static

\* ... and then the permutation.  Between the two stores of delete_at it has one more
\* rank, which leads to slot 0 again, or to the entry that was deleted from there.
ReadPerm ==
    /\ At("perm")
    /\ LET x == node[me.n]
       IN  scan' = [scan EXCEPT
                       !.f.todo = SetToSortSeq(x.keys, <) \o IF x.over THEN <<x.slot0>> ELSE <<>>,
                       !.f.over = x.over, !.f.pushed = FALSE]
    /\ ScanGoto("slot")
    /\ UNCHANGED static

\* History: the slot at hand is that of the rank too many, or in a layer below it.
Extra == scan.f.extra \/ (scan.f.over /\ Len(scan.f.todo) = 1)

\* The link in a slot is read before the version is checked.
ReadSlot ==
    /\ At("slot") /\ scan.f.todo # <<>> /\ IsLink(Head(scan.f.todo))
    /\ LET e == Head(scan.f.todo)
           l == node[me.n].link
       IN  scan' = [scan EXCEPT !.f.link = IF e \in DOMAIN l THEN l[e] ELSE None]
    /\ ScanGoto("check")
    /\ UNCHANGED static

scan_check_retry(w) ==
    CASE w = me.v -> "OK"
      [] w # me.v /\ (w.vsplit # me.v.vsplit \/ w.deleted) -> "OK_RETRY_FROM_ROOT"
      [] OTHER -> "OK_RETRY_AFTER_FB"

\* The two ways to fail: start over, or read the border node again.
CheckFails(w) ==
    \/ /\ scan_check_retry(w) = "OK_RETRY_FROM_ROOT"
       /\ FromRoot
    \/ /\ scan_check_retry(w) = "OK_RETRY_AFTER_FB"
       /\ scan' = CleanUp(scan, scan.f.fb)
       /\ th' = [th EXCEPT ![Scanner] = [Dive(scan.f, "again") EXCEPT !.n = me.n, !.v = w]]

SlotFails ==
    /\ At("check") \/ (At("slot") /\ scan.f.todo # <<>> /\ ~IsLink(Head(scan.f.todo)))
    /\ stable(node[me.n].ver)
    /\ CheckFails(node[me.n].ver)
    /\ UNCHANGED static

SlotIs(link) ==
    /\ At(IF link THEN "check" ELSE "slot")
    /\ scan.f.todo # <<>> /\ IsLink(Head(scan.f.todo)) = link
    /\ stable(node[me.n].ver) /\ scan_check_retry(node[me.n].ver) = "OK"

Slice == Head(scan.f.todo) \div 2
FullKey == IF Slice = 0 THEN scan.f.prefix ELSE Append(scan.f.prefix, Slice)

\* What is left of the left endpoint: the slice it has in this layer, 0 if none.
LeftSlice == IF scan.f.l = <<>> THEN 0 ELSE scan.f.l[1]

NextSlot(x) == scan' = [x EXCEPT !.f.todo = Tail(@)] /\ ScanGoto("slot")

\* A link before the left endpoint is passed over; one behind the right endpoint
\* ends the scan.
LinkLeft == scan.f.l_end # "INF" /\ LeftSlice > Slice
LinkRight == scan.f.r_end # "INF" /\ (Less(scan.q.r, FullKey) \/ scan.q.r = FullKey)

SkipLink ==
    /\ SlotIs(TRUE) /\ LinkLeft
    /\ NextSlot(scan)
    /\ UNCHANGED static

EndAtLink ==
    /\ SlotIs(TRUE) /\ ~LinkLeft /\ LinkRight
    /\ ScanEnd(scan)
    /\ UNCHANGED static

\* The nested scan, with what is left of the endpoints.
ScanLink ==
    /\ SlotIs(TRUE) /\ ~LinkLeft /\ ~LinkRight
    /\ LET f     == scan.f
           same  == f.l_end # "INF" /\ LeftSlice = Slice
           under == Frame(f.link, FullKey, IF same THEN Tail(f.l) ELSE <<>>,
                          IF same THEN f.l_end ELSE "INF",
                          IF f.r_end # "INF" /\ IsPrefix(FullKey, scan.q.r)
                          THEN f.r_end ELSE "INF", Sizes)
           below == [under EXCEPT !.extra = Extra]
       IN  /\ scan' = [scan EXCEPT !.f = below,
                                   !.stack = <<[f EXCEPT !.n = me.n, !.v = me.v]>> \o @]
           /\ th' = [th EXCEPT ![Scanner] = Dive(below, "enter")]
    /\ UNCHANGED static

\* The same for a value, whose key ends here.
ValueLeft ==
    /\ scan.f.l_end # "INF"
    /\ \/ LeftSlice > Slice
       \/ LeftSlice = Slice /\ (Len(scan.f.l) > 1 \/ scan.f.l_end = "EXCLUSIVE")

\* A plausible slip: the right endpoint is always taken as inclusive.
ValueBehind == scan.f.r_end # "INF" /\ Less(scan.q.r, FullKey)

ValueRight ==
    /\ scan.f.r_end # "INF"
    /\ Less(scan.q.r, FullKey) \/ (scan.q.r = FullKey /\ scan.f.r_end = "EXCLUSIVE")

SkipValue ==
    /\ SlotIs(FALSE) /\ ValueLeft
    /\ NextSlot(scan)
    /\ UNCHANGED static

\* A plausible slip in in_range: one key too many.
ReachedLate(x) == scan.q.max # 0 /\ Len(x.tuples) > scan.q.max

Reached(x) == scan.q.max # 0 /\ Len(x.tuples) >= scan.q.max

\* in_range: the key is reported, and the limit looked at.
ReportValue ==
    /\ SlotIs(FALSE) /\ ~ValueLeft /\ ~ValueRight
    /\ LET x == [Logged(scan, me.n, me.v) EXCEPT
                    !.tuples = Append(@, [key |-> FullKey, extra |-> Extra]), !.f.pushed = TRUE]
       IN  IF Reached(x) THEN ScanEnd(x) ELSE NextSlot(x)
    /\ UNCHANGED static

\* A plausible slip: a border node that gave nothing is not reported.
LogNothing == scan

\* A border node that gave nothing is reported for the phantom protection.
LogUnlessPushed == IF scan.f.pushed THEN scan ELSE Logged(scan, me.n, me.v)

EndAtValue ==
    /\ SlotIs(FALSE) /\ ~ValueLeft /\ ValueRight
    /\ ScanEnd(LogUnlessPushed)
    /\ UNCHANGED static

\* All slots are done: the version of the next border node ...
ReadNextVersion ==
    /\ At("slot") /\ scan.f.todo = <<>>
    /\ LET x == scan.f.next
       IN  /\ x # None => stable(node[x].ver)
           /\ scan' = [LogUnlessPushed EXCEPT
                          !.f.nv = IF x = None THEN InitBody ELSE node[x].ver]
    /\ ScanGoto("final")
    /\ UNCHANGED static

FinalFails ==
    /\ At("final")
    /\ stable(node[me.n].ver)
    /\ CheckFails(node[me.n].ver)
    /\ UNCHANGED static

\* ... and this one's again, before the scan goes on there.
GoOn ==
    /\ At("final")
    /\ stable(node[me.n].ver) /\ scan_check_retry(node[me.n].ver) = "OK"
    /\ IF scan.f.next = None THEN ScanEnd(scan)
       ELSE /\ th' = [th EXCEPT ![Scanner].n = scan.f.next, ![Scanner].v = scan.f.nv,
                                ![Scanner].pc = "fetch"]
            /\ scan' = [scan EXCEPT !.f.next = None, !.f.nv = InitBody]
    /\ UNCHANGED static

FindBorder == (ReadChild(Scanner) \/ ReadChildVersion(Scanner) \/ CheckChild(Scanner)) /\ UNCHANGED scan

ScanStep ==
    \/ ScanRoot \/ EnterLayer \/ ScanFindRoot \/ FindBorder
    \/ ReadNext \/ ReadPerm \/ ReadSlot \/ SlotFails
    \/ SkipLink \/ EndAtLink \/ ScanLink \/ SkipValue \/ ReportValue \/ EndAtValue
    \/ ReadNextVersion \/ FinalFails \/ GoOn

\* The keys that were in the tree during all, and during any, of the scan.
Watch ==
    scan' = IF At("idle") THEN scan
            ELSE [scan EXCEPT !.always = @ \cap kv', !.ever = @ \cup kv']

Others == \E t \in Threads \ {Scanner} : (Call(t) \/ Step(t)) /\ Watch

ScanNext ==
    \/ Others
    \/ \E c \in cast[Scanner].calls : ScanCall(c[2])
    \/ ScanStep
    \/ Finished /\ UNCHANGED scan

ScanSpec == ScanInit /\ [][ScanNext]_svars
ScanFairSpec ==
    /\ ScanSpec
    /\ \A t \in Threads \ {Scanner} : WF_svars(Step(t) /\ Watch)
    /\ WF_svars(ScanStep)

-----------------------------------------------------------------------------
(* Properties.                                                             *)

Done == At("idle") /\ scan.res = "OK"
Reported == {x.key : x \in Range(scan.tuples)}

\* What the scan reports lies between the endpoints, also below links, where the
\* endpoints are taken apart, and was in the tree during the call.  The exception to
\* the second is the one tuple, or layer of tuples, of a rank too many: a permutation
\* loaded between the stores of delete_at leads to a key removed long before.
ScanSound ==
    Done => \A x \in Range(scan.tuples) :
               InRange(scan.q, x.key) /\ (x.key \in scan.ever \/ x.extra)

\* A scan that did not stop at its limit reports every key of the range that was
\* there all the time, however its border nodes split or emptied under it.
ScanComplete ==
    Done /\ scan.q.max = 0 =>
        \A k \in scan.always : InRange(scan.q, k) => k \in Reported

\* The keys that were there all the time come in ascending order, each once:
\* no retry leaves the keys of an abandoned attempt in the list.  The exception is
\* again a rank too many, which repeats the key of slot 0 or what is below it.
ScanAscending ==
    Done => LET s == SelectSeq(scan.tuples, LAMBDA x : x.key \in scan.always /\ ~x.extra)
            IN  \A i, j \in DOMAIN s : i < j => Less(s[i].key, s[j].key)

\* There may be a link at or behind the right endpoint.
LinkBehind ==
    /\ scan.q.r_end # "INF"
    /\ \E k \in scan.ever : \E d \in 1 .. Len(k) - 1 : ~Less(SubSeq(k, 1, d), scan.q.r)

\* Phantom protection: while the nodes reported are in the versions reported,
\* the range has no key but the ones reported.  The exception is a scan that may
\* have ended at a link, since EndAtLink reports no version.
NoPhantom ==
    Done /\ scan.q.max = 0 /\ ~LinkBehind /\ (\A i \in DOMAIN scan.versions :
                                  node[scan.versions[i][1]].ver = scan.versions[i][2]) =>
        \A k \in kv : InRange(scan.q, k) => k \in Reported

\* With a limit, and no key of the range below a link, the scan reports the first
\* keys of the range: none that was there all the time is passed over, and fewer
\* than the limit are reported only when the range has no more.
LimitCutsOff ==
    Done /\ scan.q.max # 0 /\ (\A k \in scan.ever : InRange(scan.q, k) => Len(k) = 1) =>
        /\ Len(scan.tuples) <= scan.q.max
        /\ \A k \in scan.always : InRange(scan.q, k) =>
               \/ k \in Reported
               \/ Len(scan.tuples) = scan.q.max /\ \A x \in Reported : Less(x, k)
====
