---------------------------- MODULE MCSequential ----------------------------
(* The components that one thread uses at a time, and the atomic variables *)
(* the others stand on.  The initial state picks the part.                 *)
EXTENDS ByteBuf, ArrayList, LinkedList

MCData == <<1, 0>>
MCMonthDays == {<<1, 1>>, <<2, 28>>, <<3, 1>>, <<10, 12>>, <<12, 31>>}
MCEntryPaths == {<<"d", "a">>, <<"d", "b">>, <<"d", "a", "c">>, <<"d", "a", "e">>}
MCTag(name, attrs) == [k |-> "open", name |-> name, attrs |-> attrs]
MCOpenTags == {MCTag(<<"a">>, <<>>), MCTag(<<"b">>, <<1>>), MCTag(<<"a", "b">>, <<2, 3>>),
               MCTag(<<"b">>, <<1, 2, 3>>), MCTag(<<"c", "c", "c">>, <<>>)}
MCTimes == {<<0, 0, 0>>, <<23, 59, 59>>, <<8, 5, 9>>}
MCZones == {<<>>, <<"Z">>, <<"U", "T">>, <<"u", "t", "c">>, <<"+", "0", "1", "3", "0">>,
       <<"-", "0", "7", "1", "5">>, <<"C", "E", "T">>}

CONSTANTS PartsChecked,
          TextBytes, TextLen, DigitBytes, WordBits,
          CacheKey, KeyCopy, CacheValue, CacheNode, MaxCapacity,
          PageId, PageSize, HeaderSize, BinShift, BinCount, ParentBlocks, RequestSizes,
          NumberBits, MaxFrequency, NS_PER_SEC,
          MaxKeyLen,
          MaxBytes, Seeds, BlockChars, MarkBytes, SizeBits,
          Years, MonthDays, Times, LocalOffset, Zones, Noise,
          EntryPaths, FileLen,
          OpenTags, MaxInner, MaxAttributes, MaxNameLen, max_depth,
          MaxMessage, MaxSubject, MaxSize,
          Options, InString, WithArgument, Unknown, MaxArgs

VARIABLES part,
          call,                                  \* of the parts in which a behaviour is one call
          s1, s2, s3, s4, s5, s6, s7, s8,        \* what the part's own variables stand for
          cacheKind, max_items, table, nodes, entries, owned, found

C == INSTANCE Cursors WITH cursorCall <- call
N == INSTANCE Numbers WITH numberCall <- call, WordBits <- NumberBits
H == INSTANCE Lookup3 WITH hashCall <- call
E == INSTANCE Encoding WITH codecCall <- call
F == INSTANCE Files WITH fileCall <- call
G == INSTANCE LogFormatter WITH lineCall <- call
D == INSTANCE DateTime WITH dateCall <- call
S == INSTANCE SmallBlocks WITH bins <- s1, header <- s2, taken <- s3, parent <- s4, live <- s5,
                               parentReallocs <- s6, gone <- s7
M == INSTANCE Atomics WITH backend <- s1, program <- s2, pending <- s3, step <- s4, reg <- s5,
                           results <- s6, buffer <- s7, cell <- s8
X == INSTANCE Xml WITH doc <- s1, parser <- s2, seen <- s3, bodies <- s4, ended <- s5
O == INSTANCE CommandLine WITH args <- s1, cli <- s2, answers <- s3, runs <- s4
K == INSTANCE Caches WITH links <- s1, order <- s2, list <- entries

cacheVars == <<cacheKind, max_items, table, nodes, entries, owned, found>>
containerVars == <<bufVars, arrayVars, linkVars>>
slots == <<s1, s2, s3, s4, s5, s6, s7, s8>>
vars == <<part, call, slots, cacheVars, containerVars>>

ASSUME ByteConstants /\ ArrayConstants

Containers == {"buffers", "arrays", "links"}
OneCall == {"cursors", "numbers", "hashes", "codecs", "dates", "files", "lines"}

\* Variables a part does not use.
FromSixth == s6 = 0 /\ s7 = 0 /\ s8 = 0
FromThird == s3 = 0 /\ s4 = 0 /\ s5 = 0 /\ FromSixth

Init ==
    /\ part \in PartsChecked
    /\ call = [fn |-> "none"]
    /\ \/ part = "blocks" /\ S!SbaInit /\ s8 = 0
       \/ part = "atomics" /\ M!AtomicsInit
       \/ part = "documents" /\ X!XmlInit /\ FromSixth
       \/ part = "arguments" /\ O!CliInit /\ s5 = 0 /\ FromSixth
       \/ part \in OneCall \cup Containers \cup {"caches"} /\ s1 = 0 /\ s2 = 0 /\ FromThird
    /\ K!CacheInit
    /\ part # "caches" => cacheKind = "lru" /\ max_items = 1
    /\ BufInit /\ ArrayInit /\ LinkInit
    /\ part # "buffers" => buf = NoBuffer
    /\ part # "arrays" => \A l \in ListName : list[l].alloc

Calls == /\ \/ part = "cursors" /\ C!CursorsNext
            \/ part = "numbers" /\ N!NumbersNext
            \/ part = "hashes" /\ H!LookupNext
            \/ part = "codecs" /\ E!EncodingNext
            \/ part = "dates" /\ D!DateNext
            \/ part = "files" /\ F!FilesNext
            \/ part = "lines" /\ G!FormatterNext
         /\ UNCHANGED <<part, slots, cacheVars, containerVars>>

Steps == /\ \/ part = "blocks" /\ S!SbaNext /\ UNCHANGED s8
            \/ part = "atomics" /\ M!AtomicsNext
            \/ part = "documents" /\ X!XmlNext /\ UNCHANGED <<s6, s7, s8>>
            \/ part = "arguments" /\ O!CliNext /\ UNCHANGED <<s5, s6, s7, s8>>
         /\ UNCHANGED <<part, call, cacheVars, containerVars>>

CacheSteps == part = "caches" /\ K!CacheNext /\ UNCHANGED <<part, call, slots, containerVars>>

ContainerSteps == /\ \/ part = "buffers" /\ BufNext /\ UNCHANGED <<arrayVars, linkVars>>
                     \/ part = "arrays" /\ ArrayNext /\ UNCHANGED <<bufVars, linkVars>>
                     \/ part = "links" /\ LinkNext /\ UNCHANGED <<bufVars, arrayVars>>
                  /\ UNCHANGED <<part, call, slots, cacheVars>>

Next == Calls \/ Steps \/ CacheSteps \/ ContainerSteps

Spec == Init /\ [][Next]_vars

----------------------------------------------------------------------------

\* The three caches are bounded sequences that evict what their policy names.
ImplementsCache == K!ImplementsCache

\* The objects a cache owns are those that can be found in it, and a block of the small
\* block allocator belongs to one user, one bin and one page.
MemoryExact == /\ part = "caches" => K!CacheOwnershipExact
               /\ part = "blocks" => S!SmallBlocksExact /\ S!LayoutExact

\* The three implementations of the atomic operations on a machine with store buffers.
AtomicsAreSequential == part = "atomics" => M!AtomicsAreSequential

\* The arithmetic is exact in every implementation, and hashes do not depend on where a key is.
NumbersExact == /\ part = "numbers" => N!NumbersExact
                /\ part = "hashes" => H!HashIndependentOfPlace

\* Texts are split, searched, compared, parsed, encoded and decoded as they should be;
\* directories are walked, deleted and moved as a whole or not at all, and files read whole.
TextsAndFilesExact == /\ part = "cursors" => C!CursorCallsExact
                      /\ part = "codecs" => E!CodecsExact
                      /\ part = "dates" => D!DatesExact
                      /\ part = "documents" => X!XmlExact
                      /\ part = "lines" => G!LinesExact
                      /\ part = "arguments" => O!CommandLineExact
                      /\ part = "files" => F!FilesExact
=============================================================================
