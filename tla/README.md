# dhcpd-pools in TLA+

dhcpd-pools reads an ISC dhcpd configuration and lease file, counts the leases
of every range and shared network, and prints the figures as text, xml, json,
csv or html, or judges them for a monitoring system. It is one sequential
process without threads, signals or persistent state. What is hard about it is
not interleaving but protocol: long hand-written loops over shared cursors and
flags, an input that another program is writing, input layouts nobody wrote a
test for, and reports put together from independent option bits.

Paths below are those of the repository (`src/` is its C source directory).

## Inventory

| component | state it keeps | operations | what makes it correct |
|---|---|---|---|
| option parsing and `main` (dhcpd-pools.c) | `config`: limits, sort keys, alarm limits, flags | getopt loop, format switch, the phases in order: parse configuration, parse leases, prepare, count, sort, flip, output, clean up | each phase sees what the one before left; an error exit uses nothing it has released |
| address family dispatch (other.c) | `config.ip_version` and nine function pointers | `set_ipv_functions`, the `*_init` functions | switched once, by the first address or the first lease line |
| configuration parser (getdata.c) | `ranges`, `num_ranges`, `RANGES`, `shared_networks`, `num_shared_networks`; per call the flags, the word buffer and two pointers | one turn per character; `include` recurses | ranges and networks are exactly those declared; no write past an array, or through a pointer at one that was moved |
| lease file parser (getdata.c, hash.c, xstrstr in other.c) | the lease hash and its list, the last address, `backups_found` | one turn per line; `add_lease`, `find_lease`, `delete_lease` | one entry per address, with the latest state of a log |
| counting engine (analyze.c) | the sorted lists, the lease cursor, counters of ranges and networks | `prepare_data`, `do_counting` | every lease of every range counted once, for overlapping ranges too; totals are the sums |
| report order (sort.c) | the range array, a scratch array, the list of keys | `merge`, `mergesort_ranges`, `flip_ranges` | a sorted permutation; ties and `-r` |
| alarm report (output.c) | two walking pointers, eight counters, the exit status | judging loops, headline, performance data loops | status, headline and performance data say the same about the same ranges |
| other reports (output.c) | one pointer, the size measured ahead, separators | the tables of five formats | what the limits ask for is printed, once, and is well-formed |
| memory (other.c, hash.c) | everything above | `clean_up`, `delete_all_leases` | a normal return releases everything; nothing released is used again, by any exit |
| uthash (vendored header) | hash table and insertion-ordered list | add, find, delete, sort | modelled only as `hash.c` uses it |

The components are called one after another by `main` and talk through global
variables: the parsers fill the range array, the network array and the lease
table, the counting engine sorts the first and the last and fills the counters,
`sort.c` permutes the range array again, and the output functions read all of
it. The option bits `header_limit` and `number_limit` are read by every output
function. There are three places where the state of one component decides about
another one in a way that is easy to get wrong: a parser that leaves a lease
under the wrong address, counters of "All networks" that are also those of the
default network, and the order of the range array, which counting, sorting and
`--snet-alarms` each assume something about.

The hazards are listed, line by line, in `PROJECT.json`.

## Modules

| module | models | state and actions |
|---|---|---|
| `PoolUsage` | what the program promises about its figures | abstract: `TallyPool` reports one pool by counting a set, `ReportTotals` counts what the pools of a network have; both are sets of addresses, without any loop. `Safety` is what a report may be, `Spec` adds that there is one |
| `Counting` | `prepare_data`, `do_counting` | `l` is the lease cursor (0 for NULL), `i` and `k` the two loop counters; one action per loop turn (`Rewind`, `SkipLease`, `CountLease`, `CloseRange`, `AddToTotal`) and one for what is between the loops (`PrepareData`, `StartScan`, `ResetDefault`, `Return`). Sorting is any arrangement the comparer allows, since qsort is not stable. The three counters of a range are one function of the lease state |
| `LeaseFile` | `parse_leases`, the lease hash, the xstrstr functions | a line is its kind and its argument; `pos` and `eof` are the FILE. One action per branch of the loop (`Detect`, `SaveAddress`, `SaveState`, `SaveEthernet`, `SkipLine`), each containing the `fgets` and its end-of-file rule: the last line stays in the buffer and is handled a second time |
| `ConfigParser` | `parse_config`, `reorder_last_first` | `stack` has a record of locals per active call, the globals are variables. A run of ordinary characters is one symbol; one action per branch of the character loop, those of the `switch`, the word builder and the argument handlers. An uninitialised address is the value `garbage`. A pointer at a range is the array it was taken in and a position: `xrealloc` moves the array and only the running call's pointer with it, so that those of its callers become `Stale`, and writing through one (`CloseRange`) may change anything |
| `ConfigLayout` | what a configuration declares | abstract, without a parser: a *layout* divides the files into phrases (a comment, the first word of a clause, a range statement, a brace), each with the environment it stands in: the open braces, the shared network, the ranges and networks before it. A production per kind of phrase says what it looks like and what is declared by it. `At` and `Known` are what the parser's variables have to be at each place of a layout |
| `Alarming` | `output_alarming` | ranges and networks are inputs, as the counting engine leaves them. `range_p` and `shared_p` are the pointers, which walk up while judging and down while printing; reading below an array gives any value |
| `SortRanges` | `merge`, `mergesort_ranges`, `flip_ranges`, the end of `main` | the algorithms as functions: `inserted` and `Merged` have the loops of the code, one turn (`Insert`, `Take`) per step of a recursive function, and `mergesort_ranges` is recursive as it is there. `Sort` and `Flip` are the steps of `main`. A comparer is the rank its key gives a range; ranges may have equal addresses, and `entry` tells them apart |
| `Report` | `output_txt`, `output_csv`, `output_html`, `output_xml`, `output_json` | the report is the sequence of its parts (header, begin, row, comma, end); `range_size` is measured one turn ahead, as in the code |
| `Pipeline` | `main`: the getopt loop, the phases, the report file, `clean_up`, `close_stdout` | `phase` is where `main` is; `heap` is a set of named blocks, with one for each sort key, and `touched` those the step used. `sorts` and `nodes` are the list of `-s`, `p` and `len` the locals of that option. A stream is whether it is open, whether lines are in its buffer, and the error mark that a failed write leaves. A phase is one step here, with the outcomes it can have; `html_header`, which can give up with the report already open, is one of its own |
| `Analysis` | `parse_leases`, `prepare_data` and `do_counting` as `main` composes them | `Log` is `LeaseFile`, `Count` is `Counting` on the list of addresses and states of the same table; one action per phase, each a step of its part with the other one unchanged |
| `MC...`, `LayoutConfigs` | inputs for TLC | sets of leases, files, configurations, options, command lines |
| `CountingProofs`, `LeaseFileProofs`, `ConfigParserProofs`, `AnalysisProofs`, `PipelineProofs`, `AlarmingProofs`, `SortRangesProofs`, `ReportProofs` | theorems | see below |

In the modules, names such as `NextLease_PastEnd` or `Judged..._Used` are wrong
variants of a definition, kept to show that a property notices them.

## Runs

Runs that pass:

| run | question | bounds, and why they are enough |
|---|---|---|
| `counting` | Are ranges and networks counted exactly, wherever the cursor was left? Does the code implement `PoolUsage`, where the sizes of the ranges fit in 32 bits? Does it return? | three addresses, three leases, two ranges, one shared network beside the default: two ranges can be equal, nested, overlapping, adjacent or apart, and the cursor can fall off both ends between them. The proof below has no bounds |
| `lease_file` | Does the table hold the latest state of every address after every line of every file? | two addresses, up to three blocks of every kind cut after any line: a block replaces, is separated by another address, or ends before its state |
| `config_parser` | Are ranges and networks those declared? Do writes stay in the arrays, also when an included file has had one moved? | two statements per body out of fifteen layouts, each alone, in a pool, in a subnet, in a shared network, included, with an included file between ranges, and with the network itself included; `RANGES` starts at 2 and is doubled within a run, in included files too, so that callers are left with a stale pointer; of the five network slots three may be used, and a fourth network is refused; a word buffer of five symbols is filled by a quoted sentence. With `-A` and without. A file ends in an error exit exactly if it is one to be refused, which includes a file that includes itself, directly or through another one: five files can be open. 768 more configurations are put together from phrases, with their layouts (`LayoutConfigs`): each kind of phrase, in both orders with a range statement, in blocks and in networks with and without quoted names, and in a file that is included twice, with networks of its own or within one |
| `alarming` | Is every range and network judged once, does the status tell the worst of those within the second digit of `-L`, does the headline agree with it, and is the data of every item printed where the tested bits ask for it? | up to two ranges of up to three addresses, two networks, all number limits, minimum size, counts below, at and above the free addresses of a range and the used ones of a network, where ranges and networks are both judged. The limits 40 and 60 tell 1/3, 1/2, 2/3 and all apart |
| `sort_ranges` | Is the report sorted by the keys and a permutation? | up to six ranges with `MIN_MERGE_SIZE` 4 (8 in the code), so that arrays are sorted by insertion, split once, and split into halves of unequal size; two values per key make ties the normal case |
| `pipeline` | Does `main` do what the command line says? Does a normal return release everything, and is nothing released used again by any exit? Does the exit status tell whether the report was written, and is an old report kept by a run that fails before it can write? | every command line of up to two options out of 36, and of up to three out of nine that work together: an option can come before, after and between those that fail, `-s` can be repeated, empty or wrong at any of its letters. Reports of up to two lines, so that a write can fail before the last one and be followed by one that does not |
| `analysis` | Are the figures of a range, and the totals, those of the last block about each address in the lease file? | three addresses, two ranges, lease files of up to three blocks with each state about two of the addresses. The proof below has no bounds |
| `report` | Does each table have its rows, with their own sizes, and is json separated correctly? | all formats and limits, up to two ranges, two networks and three leases, including none of each |

Runs that TLC refutes, each about one statement of the repository that the code
does not keep:

| run | what happens |
|---|---|
| `counting_backups` | `do_counting` clears `used` and `touched` of "All networks" before the sums and not `backups`, so that the backup leases of ranges outside the shared networks are in it twice (analyze.c:110-118). The other counters are proved exact |
| `lease_delegation` | an `iaprefix` block has a binding state like an address, but no line that xstrstr_v6 recognises before it: the state is saved under the last `iaaddr` address (getdata.c:113) |
| `alarm_snet` | with `--snet-alarms` a skipped range is not passed: every later range is judged by it, and is skipped (output.c:955) |
| `alarm_counts` | the counts of `--warn-count` and `--crit-count` are compared with the used addresses of a shared network (output.c:979-981), and with the free ones of a range (output.c:959-961). The manual page says they are about free leases (dhcpd-pools.1.in:167-180). `NetAlarmsExact` is what the code does |

The models have the code's behaviour in them. What the inputs of the passing runs
leave out:

- delegated prefixes in lease files (`lease_delegation`);
- `--snet-alarms` where a range outside the shared networks follows one of them
  (`alarm_snet`);
- performance data of networks that were not judged (-L35), or of ranges with
  `--snet-alarms`: the pointers then go below the arrays;
- configurations that the parser gets wrong: a brace behind `range A;`, a
  semicolon in a comment or a clause of one word behind `range A ;`, and the others in
  the list below; and the netmask 0.0.0.0 with `-A`;
- `range ;` without an address in a file that has included another one. It would
  write through the stale pointer; dhcpd refuses such a statement;
- a range of the whole IPv4 address space, where the refinement is concerned.

The backups of "All networks" (`counting_backups`) are a property of their own, and
so are the counts of networks as the manual page has them (`alarm_counts`).

Met while modelling, and not kept as runs.

Alarms:

- with a second digit of 0 in `-L` nothing is judged and the status is 0, also
  with the `-L10` and `-L20` that the manual page recommends for monitoring
  ranges or networks only (output.c:952, 972, dhcpd-pools.1.in:145-152);
- the network performance data tests `header_limit` for the range bit: it is
  missing with `-L22`, which asks for networks only, and is read below the
  array with `-L35` (output.c:1059-1061);
- the default count of 2^32 suppresses alarms of larger IPv6 ranges
  (dhcpd-pools.c:150);
- an alarm that prints nothing closes stdout and leaves it closed (output.c:1008).

Configuration:

- `range A;` with `}` on its line loses the range: the address waits in the word
  buffer for a blank, and the brace makes it the first word of a clause
  (getdata.c:244, 284-295), although NEWS:146 says "make single address ranges
  work";
- a reallocation in an included file leaves the `range_p` of the including call
  dangling (getdata.c:357). A range is not completed through it in any
  configuration with a layout;
- `range A ; # x;` adds a range of uninitialised memory (getdata.c:256);
- `range A ; authoritative; range B C;` loses the second range, since its semicolon
  ends only a word while a second address is awaited (getdata.c:247);
- after `range A ;` a word longer than the buffer adds a range, since the part
  behind the gap is taken for an argument;
- a `{` in a comment within a clause begins a clause (getdata.c:274);
- a `#` in a quoted network name is dropped, and so is a blank it begins with
  (getdata.c:221, 303);
- a shared network written `name{` ends at its first inner brace (getdata.c:395);
- `include "f";}` is not followed (getdata.c:281);
- with `-A` the netmask 0.0.0.0 is shifted for ever (getdata.c:404).

Figures and reports:

- a range of the whole IPv4 space has size 0 (other.c:216);
- the backup figures of the csv total have no commas before them, although its
  header has columns for them (output.c:905);
- `html_header` can exit with the report file already emptied
  (output.c:469-476, 608-619);
- xml and json decide on the summary by the header digit (output.c:425, 292);
- `merge` returns 0 for equal ranges, so that ties come out in the opposite order
  although sort.c:215 calls the sort stable;
- the comparison with `memcmp` in `xstrstr_init` is inverted, so that a lease as the
  first line means IPv6 (other.c:247).

## Fairness

`Counting`, `LeaseFile`, `ConfigParser`, `Alarming`, `SortRanges` and `Report`
have weak fairness on their steps as a whole and none on a single branch: the
process is sequential, has nothing to wait for, and reads regular files that have a next character until they end. The liveness
properties (`CountingReturns`, `ParsingEnds`, `ParserReturns`) say that a loop
ends. `ParserReturns` is checked with netmasks that have a bit set: with `-A`
the code shifts the mask 0.0.0.0 for ever (getdata.c:404), and the model has no
step there. A file that includes itself does end, since every call keeps its
file open until the system allows no more (`MaxFiles`), and `fopen` fails.
`Pipeline` and `Analysis` state no fairness: their properties are about what
has been done, and the loops within them are those above.

## Proofs

The theorems hold for every value of the constants, under the assumption named
in each module (bounds are natural numbers; the inputs are well-typed; there is
room for one range, one network and one character).

`CountingProofs`:

- `TypeCorrect`: the cursor of `do_counting` is NULL or a lease of the list, and
  the counters are numbers, for every list.
- `RangesExact`, `NetworksExact`, `TotalsExact`: the counters of ranges, of
  networks, and of "All networks". None of them is inductive: within a range the
  counters are between two values, and what is right about them depends on where
  the cursor is. `CountingInv` adds what the code relies on: the lists are sorted
  and the addresses unique (`SortedInv`), which loop has which counters
  (`PhaseInv`), each counter is the number of leases *seen*, those of closed
  ranges and those behind the cursor in the open one (`TallyInv`, `NetInv`), and
  the totals are those of the ranges added so far (`TotalInv`). The step worth
  reading is `StartScan`: after the rewind nothing behind the cursor is in the
  new range (`NothingBehind`), also when the cursor was NULL; `NothingAhead` is
  its counterpart when a range is closed. The network counters are sets of pairs
  of a lease and a range, so that a lease in two overlapping ranges counts twice,
  as it does in the code.
- `CountingImplements`: `Spec /\ SizesFit => Usage!Safety`, the safety part of what the run
  `counting` checks of `PoolUsage`. Sorting is `Arrange`, leaving a range is
  `TallyPool`, returning is `ReportTotals`, and the other steps change nothing a
  reader of the report sees. `SizeInv` adds to `CountingInv` what the networks
  have of the sizes: where it fits (`SizesFit`) a size in 32 bit arithmetic is the number of
  addresses (`SizeCounts`), which is what the abstract report has. The positions of a sorted list
  and the addresses of an unordered table are put into correspondence by
  bijections (`TallyMatches`, `PairsMatch`), which needs one entry per address.

`LeaseFileProofs`:

- `TableTypes` and `BackupsShown`, for every file.
- `TableCorrect`: the lease table has one entry per address after every line of
  any file, well-formed or not, since a binding state always deletes before it
  adds.
- `LatestState`: in a file where each binding state is under a header with an
  address, the entry of an address has its latest state. The invariant connects
  the current `addr` with the header last read (`BlockAddress`), and has to
  cover the last line, which is handled a second time (`LastLineAgain`).
- `LatestEthernet`: the same of the hardware addresses, in files whose hardware
  lines are in blocks of addresses, too. A new state forgets the hardware
  address, so that what is shown depends on which of the two lines came last
  (`FreshLines`).

`ConfigParserProofs`. `ParserTypes`, `RoomForWrites` and `AddressesOrdered` have no
assumption about the configuration files, which may be any sequences of symbols;
the others are about those with a layout:

- `ParserTypes`: flags, word and pointers of every active call. The network array
  has a fixed place and only grows, and so do the positions in the range array, so
  that the frames of the callers stay well-typed while an included file is
  parsed. That the array a range pointer was taken in is still there is not a
  matter of types: see `WritesInBounds`.
- `RoomForWrites`: `Full` is asked after every range that is added, so that a
  doubled array has a free slot again; the network array is one entry ahead of
  its limit when the error exit is taken; a word is emptied in the turn that
  fills it.
- `WritesInBounds`: besides, the pointer that a semicolon completes a range
  through is into the array there is. The pointer of a call is taken anew at the
  first address of a range statement, and within the statement no file is
  included: where a phrase ends in such a semicolon, it has an address before it
  (`PhrasePointer`, `PointerKept`). Without a layout that fails, see *Runs*.
- `AddressesOrdered`: one path orders the addresses of a range and the other one
  makes them equal; an uninitialised address is ordered with nothing.
- `LayoutKept`, `DeclaredRangesRead`, `DeclaredNetworksRead`: if the files have a
  layout (`LaidOut`: the configuration is one that the productions of
  `ConfigLayout` describe), the parser follows it, and collects the ranges and
  the networks it declares and no others. The run checks these three properties
  and, before them, that its layouts are layouts, so that the hypothesis is one
  that configurations satisfy. `RangesDeclared` is not inductive: what the next
  character does depends on ten local variables of the call, and behind an
  included file on those of the caller. `LayoutInv` says where in the layout all
  calls are: the running one has read the first o symbols of a phrase (`Reads`),
  with flags, word and pointers that `At` gives for that place, and every other
  one waits behind an include phrase that names the reading the next one is in
  (`Chain`). There is a lemma per kind of phrase (`HeadStep`, `TwoStep`,
  `QuotedStep` and so on, joined in `PhraseStep`), each about any of its places; an included
  file begins (`IncludeMoves`) and ends (`ReturnMoves`) in the environment that
  its include phrase says, because the last phrase of a reading counts what has
  been declared before it. The productions name what the parser needs: a blank
  behind the first word of a clause and behind `range A;`, one blank between the
  words of a range, network or include statement and no comment within it, no
  `{` in a comment within a clause, behind `range A ;` no `;` in a comment and
  no clause of one word, a quoted name that does not begin with a blank and has no
  `#`, blocks less than 1000 deep, no network in a network, and `include` with
  its file in quotes. With `-A` a subnet outside the networks is one.

`AnalysisProofs`, about the composition, for lease files where each binding
state is under a header with an address:

- `PartsFit`, `ReportIsOfLog`, `TotalsAreOfLog`: a step of one part is a step of
  it or leaves all it knows unchanged, so that the invariants of the two other
  modules hold of the composition (`AnalysisInv`). What joins them is that
  counting starts after the end of the file, that `Listing` and sorting keep
  which addresses have which state, and that the table with one entry per
  address has a lease for each address of a set that `Cardinality` counts.

`PipelineProofs`, for every command line and every length of the report:

- `StatusReliable`: the exit status tells whether what was printed has arrived.
  `PipelineInv` is about the two streams: nothing has been printed before the
  report is begun, it goes to one destination, a report file that has been closed
  was written without loss, and a run that reaches `exit` with a failure has not
  opened the file or could not write it.
- `ReportKept`: a run that fails before it can write has not emptied the report
  file, with the one exception of `html_header`, which exits with the file open and
  nothing in it.
- `EverythingReleased`, `ReleasedIsNotUsed`: `clean_up` finds the nodes of the
  sort keys by walking the list, which the options have made piece by piece.
  `ListInv` says that the list is linked in the order in which the nodes were
  made, with `p` at its end, so that the walk has every node (`ChainIs`, by
  induction along it); `MemoryInv` that the heap is exactly what the walk and the
  list of the other blocks release.
- `ArgumentsHonoured`: the settings are a function of the options taken so far
  (`SettingsAre`), and the keys in the list those of all `-s` taken so far and of
  the letters of the present one (`KeysTo`). Both are recursive functions over
  the command line, and one turn of getopt is one step of them.
- `PipelineTyped`: what is left of the types (`RestInv`).

`AlarmingProofs`. Two conditions on the options, `SharedLast` and `PerfInScope`,
keep out combinations for which the code does something else (listed under *Runs*);
a theorem that does not name one of them holds for all inputs.

- `HeadlineRight`: headline and exit status agree, although the headline looks at
  the limits and the exit status does not. They do since a limit that leaves
  ranges or networks out leaves their counters at zero (`HeadlineInv`).
- `RangesJudgedExactly`: every watched range is judged once, by the percentage and
  the free addresses. The pointer is one past the loop counter, or it stays at
  the first range that is left out (`WalkInv`), and then so is every later one if
  the ranges of shared networks come last (`SharedLast`); without that assumption
  the run `alarm_snet` has the counterexample.
- `NetworksJudgedExactly`: the same of the networks, without any condition, with the
  counts held against the used addresses of a network as the code does; what the
  manual page says instead is refuted by the run `alarm_counts`.
- `WorstIsReported`: under `SharedLast` the exit status is that of the worst
  range or network; the four counters are zero exactly if the sets are empty.
- `PerfdataRight`, `PointersOnArrays`: with `--perfdata`, what has been printed
  together with what is below the pointer is always the whole array, and the
  pointer is at the loop counter (`PerfInv`). That takes the judging loops to
  have walked the same arrays from end to end (`PerfInScope`): ranges without
  `--snet-alarms`, and networks wherever both headers are asked for. `-L22` is within
  it, and prints no data of networks.

`SortRangesProofs`, for every array, every list of keys and every
`MIN_MERGE_SIZE` from two up:

- `SortedReport`: `merge` is the order of the keys (`MergePrecedes`), which is
  transitive although ties are many (`NotAfterTransitive`). Then the loops of the
  code from the inside out: an insertion keeps the part in order (`InsertSorts`),
  so that a short part is sorted (`InsertedSorts`); a turn of the merge loop
  leaves nothing behind that would go before what is in `temp` (`LoopInv`,
  `TakeKeeps`), so that two sorted halves become one (`MergedSorts`); and the
  halves together are the array, each range in one of them (`MergesortSorts`, by
  induction on the length). The array is in order between `Sort` and `Flip`, in
  that of `-r` afterwards (`SortInv`).
- `NoRangeLost`, `ArrayTyped`: the same ranges, each of them once.

`ReportProofs`, for every format, both limits and all numbers of rows, from
`ReportInv`:

- `TablesComplete`: how many rows a table has is known from which tables are left
  and from the loop counter (`Written`), and both the pointer and the size that
  is measured ahead are one further than that (`RowsInv`).
- `JsonIsWellFormed`: what the report ends with tells whether a comma goes next:
  after a table `sep` does, among the leases `some`, among ranges and networks
  the loop counter (`JsonInv`). An inactive first lease and an empty table are
  cases of it.
- `ReportTyped`.

Induction. The induction theorems of the library take an operator and cannot be
used here; what is used instead is that `<` is well-founded, in two lemmas about
sets of numbers (`Smallest`, `Inductive` of `SortRangesProofs`, and their like in
`PipelineProofs`). A recursive function is unfolded by showing, by induction,
that there is one with its equation, for `mergesort_ranges` first on the arrays
of at most n ranges (`SortUpTo`), of which any two agree (`SortAgrees`). No
module has a RECURSIVE operator.

Only model-checked: the liveness properties, with the fairness of `PoolUsage`:
the prover has no liveness under fairness and no ENABLED. All safety properties
of the passing runs are proved, under these conditions: the size of every range fits
in 32 bits for the refinement, the binding states of a lease file are under headers
with an address, `SharedLast` and `PerfInScope` for the alarms, and a layout for what
a configuration declares and for its stale pointers. Of a configuration file without
a layout, only the run says something about those.

## What is abstracted or left out

- Lease lines longer than the buffer, and reads that fail. Writes that fail are
  in `Pipeline`.
- Words are counted in symbols, not characters, against the size of the buffer.
- Addresses are small integers or symbols of one family; IPv6 sizes, which are
  floating point numbers, and percentages as floats are not modelled (`Alarming`
  compares fractions exactly). The nine pointers of `set_ipv_functions` are the
  version in `LeaseFile`; the switch by the first address of the configuration is
  not modelled, as the parser treats both families alike.
- The figures and the columns within a row of a report, alignment and html
  decoration.
- In `Pipeline` a phase allocates at its end or exits with an error; what is
  allocated within one, like the scratch array of the sort, is released in it.
  Failing allocations are not modelled: `xmalloc` exits.
- Contributed scripts, the web pages and the build.

## Plan

Done, in this order because of what everything else rests on: counting, lease
file, configuration, alarms, sorting, reports; then `main` as a whole, the
composition of lease file and counting, and the proofs above.

1. `Report`: the figures of a row.
2. The composition of `ConfigParser` with `Analysis`: `AddressesOrdered` is what
   `Counting` takes as given of its ranges.
3. The switch of the address family by the first address of the configuration,
   and the sizes of IPv6 ranges.
