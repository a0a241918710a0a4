# TLA+ models of the CARPE processor

CARPE is a synthesizable processor in VHDL: the in-order five-stage pipe `i5`
for the OpenRISC 1000 instruction set, level-1 caches, and a small system
around it for simulation. It is configured with a vendored copy of kconfig, in
C. This directory holds TLA+ specifications of its bus, its caches, their
replacement policy and of kconfig with three of its user interfaces, TLC
configurations that check them on small instances, and TLAPS proofs for every
size of them.
Paths below are relative to `src/hdl` unless they start with `src/`.

## How the hardware is modelled

Every component of CARPE is written in the same two-record style: `r` holds
the registers, `c` the combinational signals, and one process copies `r_next`
to `r` on the rising edge of the only clock. So

* one step is one clock cycle of the whole composition with `rstn = '1'`;
* a VARIABLE is a register, a RAM or a port; it has the name of the source;
* a combinational signal is an operator of the same name, over registers and
  over the ports it depends on. `a_` and `b_` are the two phases the source
  uses: `b_` signals finish the access the registers describe, `a_` signals
  start the next one, in the same cycle;
* a one-hot vector or a mask is the set of the positions that are `'1'`;
* the `'X'` of the source (a don't care, and an error if it is ever used) is a
  value of no use: `NoRequest`, `{}`, or a CASE without the arm. TLC stops if
  such a value is needed, which is how the `is_x` assertions are checked;
* words of memory are model values, their address with a version number, or
  one byte that is watched; an address is a record of tag, set and word offset.

The C code of kconfig is sequential. There a step is a key that the user presses
or an answer, or one system call on the files: between those the program may be
killed.

## Inventory

| Part | State | Operations and interactions | Hard behaviour | What makes it correct |
|---|---|---|---|---|
| System bus arbiter `sys/sys_master_arb` | a held request per master, whom the slave works for, burst lock | takes requests from the instruction and the data side of the core in any cycle, presents one to the slave | requests that arrive while another is served, bursts, fixed priority | a request is served once and answered on its own port; bursts stay whole; the priority master is not starved |
| Simulated memory `sim/mem_1rw`, `src/proj/.../..._top-behav` | request register, latency shifter, array | one access at a time, fast inside bursts | latency of one against more, fast accesses after slow ones | the answer is the word asked for |
| L1 instruction cache `cpu/l1mem/inst/cache` | request, bus operation, owners of the RAMs and of the bus; valid, tag and data RAMs | uncached and cached fetch, fill with forwarding, invalidation | fills that go on behind later requests, sequential fetches that skip the tag comparison | a fetch returns the word of its address; no line is valid with other words; every request ends |
| L1 data cache `cpu/l1mem/data/cache` | as above, plus dirty bits and the ring of the store buffer | load, store, invalidate, write back, flush, sync | three owners of four RAMs, stores that join entries, entries that remember where their block is, a victim that is written back before its way is filled | a load sees the last store; no dirty block is lost; every request ends, and the store buffer runs empty |
| L1 pass-through `cpu/l1mem/*/pass` | one request | load, store, fetch | flow control only | one bus access per request |
| MMUs `cpu/mmu`, `cpu/or1knd/i5/mmu` | one register | pass-through | none | identity; a miss if translation is on |
| Pipe `cpu/or1knd/i5` | five stages, SPRs, buffers for what arrives during a stall | fetch, decode with hazards and forwarding, execute, memory, write back; exceptions | stalls and flushes in the same cycle as answers of caches and multi-cycle units | each instruction takes effect once, in order; a wrong path has no effect |
| Branch prediction `cpu/btb`, `cpu/bpb` | sets of targets, counters | read at fetch, written at execute | updates between a read and its write | hints only: what matters is that the pipe recovers |
| Replacement `mem/cache/replace`, `*/replace` | an order of the ways of each set | read with the tags, written after an access | uninitialized RAM | victims follow recency |
| Arithmetic `tech/inferred/{mul,madd,div}*` | pipeline of results | start, wait for valid | restart while busy, division by zero | the result, and valid only for it |
| RAMs, combinational library, utility packages, ISA tables | RAM contents | one access per cycle | none | by their definition |
| kconfig parser library `src/util/kconfig/libs/parser` and front end nconf | the symbols with their values and flags, the menu tree, the count of changes; `.config`, `.config.old` and a temporary file | parse and rewrite conditions, calculate values on demand, set a value, read and write a configuration | values that are kept until they are invalidated, choices without a line of their own in the file, files replaced step by step | the menu shows what the file and the user say; what is saved is what is read back; no configuration is lost |
| conf, `src/util/kconfig/frontends/conf` | mode, questions, `.config`, the minimal configuration, `auto.conf`, the header, the list of modules, a header for each symbol | all-no to random values, questions until nothing is new, files for the build | runs that build on one another in other modes; files replaced one after another and then trusted by `make` | nothing is lost by leaving out defaults, nothing written is asked again, what changes is built again |
| mconf and the dialogs of `src/util/kconfig/libs/lxdialog` | list, scroll position, line of the light, what is on the screen; text, cursor and field; what the callers of a dialog keep | keys, scrolling, editing, opening one dialog from another, other sizes of the terminal | screen and state are kept apart and changed by different code for each key; positions kept for lists that may have changed | what the user sees is what a key goes by; a menu comes back where it was left |
| Other front ends of kconfig, build system, test bench | widgets, files | | none of the processor | not modelled |

`PROJECT.json` lists every component with its files and status, and the
hazards of the code with the properties that cover them.

## Modules

    SysMasterArb      the arbiter                               (component)
    MinSimMem         the memory                                (component)
    SysBusSpec        what the bus promises                     (abstract)
    SysBus            arbiter and memory composed; implements SysBusSpec
    SysBusProofs      theorems about SysBus

    L1MemInstCache    the instruction cache                     (component)
    InstFetch         fetch port of the pipe, cache and bus composed
    InstFetchProofs   theorems about InstFetch

    L1MemDataCache    the data cache and its store buffer       (component)
    DataAccess        load and store port, cache and bus composed
    DataAccessSteps   what a cycle does to each register        (lemmas)
    DataAccessProofs  theorems about its control and its tags
    DataValueProofs   theorems about its data

    CacheReplaceLru     the LRU replacement policy              (component)
    LruSpec             what least recent use means             (abstract)
    CacheReplace        the policy as the caches use it; implements LruSpec
    CacheReplaceProofs  theorems about CacheReplace

    KconfigTypes      types of symbols, meaning of strings
    KconfigExpr       expressions and their rewriting           (algorithm)
    KconfigMenu       menu_finalize and the recursion check     (algorithm)
    KconfigSymbols    values, visibility, choices, ranges       (algorithm)
    KconfigFile       conf_read, and the lines conf_write writes
    ConfFiles         the files, and what system calls do to them
    ConfSaveSpec      what saving promises                      (abstract)
    ConfWrite         the steps of conf_write; implements ConfSaveSpec
    ConfAuto          the files of a build, and what happens to them
    ConfBuild         conf_write_autoconf and nothing else      (abstract)
    ConfWriteProofs   theorems about ConfWrite and ConfBuild
    KconfigSession    sessions with nconf, saves and kills; composes ConfWrite
    KconfigConf       runs of conf and kills; composes ConfAuto, implements ConfBuild
    KconfigPrograms   the Kconfig files that are checked

    LxButtons           the buttons of a dialog, and its keys
    LxItems             a list in a window that is scrolled
    LxMenubox           dialog_menu                             (component)
    LxChecklist         dialog_checklist                        (component)
    LxInputbox          dialog_inputbox                         (component)
    DialogSpec          what dialogs promise to the user        (abstract)
    MconfDialogs        mconf and its dialogs; implements DialogSpec
    MconfDialogsProofs  theorems about MconfDialogs

    MCSysBus, MCInstFetch, MCDataAccess, MCKconfig, MCKconfigConf, MCMconf
                      instances for TLC

### The bus

**SysMasterArb** has the registers `valid`, `requested`, `burst_lock` and
`request_array_*` of the source, the latter as one record per master. Its step
`Clock(m, ready)` is `Hold` (the slave is busy), `ContinueBurst` (the lock
selects) or `Arbitrate` (the lowest index selects). The `sys_error` wire, which
the source sends to all masters, is left out: the memory ties it to `'0'`.

**MinSimMem** is the request register and shifter of the simulation top with
the array of `mem_1rw`. `Idle`, `Delay`, `Read` and `Write` are the cases of
one cycle. An access is a whole word: sizes, byte enables and the endianness
inside a word, and the S-record loader, are left out.

**SysBus** wires the two as `cpu_or1knd_i5_core-rtl.vhdl` and the simulation
top do. The masters are the environment: `Drives` is anything the protocol
allows. The protocol is nowhere written down; what the arbiter needs is that a
master in a burst leaves no gap between its beats (`burst_lock` selects it
whether it asks or not, and would issue its old request again). Both caches are
proved to obey (`BurstRule`).

**SysBusSpec** is the bus as a master sees it: a port that carries one request,
served in one indivisible access, answered in the one cycle in which the port
is ready again. `SysBus` implements it through the mapping `port` (the held
request of each master, with its answer when the memory has finished it).

The argument is assume/guarantee: `SysBus` implements `SysBusSpec` for masters
that obey the rule of bursts, and `InstFetch` and `DataAccess`, which use what
`SysBusSpec` promises for their bus, obey that rule.

### The instruction cache

**L1MemInstCache** models every register of the control and data paths and the
three RAMs. The victim of a miss is any way the replacement policy could give.
The bus error paths are in the component, although no slave drives them. Left
out: the request sync (the pipe ties it to `'0'`), the privilege bit, waiting
for the MMU (its pass-through version is always ready), the physical address
output.

**InstFetch** puts the cache between the pipe's fetch port and the bus.
`PipeRequests` is what the pipe may drive: a fetch with direction `seq` follows
the last one, and a set is fetched through the cache only after software has
invalidated it, because the RAMs come out of reset with anything in them. The
bus is one port of `SysBusSpec`; stores of the other master change a word in
any cycle. The variables `last`, `faulted`, `asked`, `oldest`, `invalidated`
and `listed` are history: they record what was asked, read and in memory, and
no step depends on what they do not model.

### The data cache

**L1MemDataCache** models every register of the control and data paths, the
four RAMs, the ring of the store buffer and the bus port. Of all data one byte
is followed, `watched`, chosen at the start: every other byte is `Noise`. That
is enough because no byte of the cache depends on another one, and the choice
is arbitrary, so that what holds of the watched byte holds of every byte. Left
out: the requests sync and flush, which drive `'X'` into the owners and RAM
controls from their first cycle, endianness (the pipe ties `be` to `'1'`), the
privilege bit, and the variants of the source for a block of one word and for a
store buffer without slots.

**DataAccess** puts the cache between the load and store port and the bus.
`Systems` is how the hardware may be built (write-through or not, write
allocation or not) and what software does. What software must obey is in
`PipeRequests`: it invalidates a set before it accesses it through the cache,
does not access past the cache what it has accessed through it, and writes back
blocks of sets in use only. `expected` is the value last stored to the watched
byte, `used` what software has done with each set, `listed` the set whose
replacement list was read last: history.

What was seen in the source while it was translated:

* A load is answered by a hit in the cache or in the store buffer although the
  store buffer also holds an entry with other bytes of the same word
  (`cpu_l1mem_data_cache_ctrl-rtl.vhdl` 1174-1182): the bytes of that entry are
  missing from the answer. With two entries of the same bytes the select of the
  multiplexer of the data path is not one-hot (`..._dp-rtl.vhdl` 328-350).
  `LoadCorrect` says that a load is right in all other cases.
* The write data of the valid RAM is `'X'` in the first state of a fill
  (885-888), in which the RAM is written if the bus answers at once: the model
  has either outcome for the way. Nothing reads it before the fill has ended.
* `sync` and `flush` drive `'X'` where they need values (2136-2141); a dirty
  flush enters a state without a successor.
* A request writeback leaves the replacement controls `'X'`, and does not look
  at stores that are still in the store buffer.
* An invalidation clears its whole set, dirty lines with it.
* The activation of the store buffer conjoins two conditions that are meant as
  alternatives (2227-2233). The lemmas `BusPassed` and `StbMoves` of
  `DataAccessSteps` show that it makes no difference.
* A comment (942) lets the store buffer read and write the replacement state
  when it writes; the read enable is `'0'` there (2320-2325). `ReplaceFresh`
  leaves that state out.
* A bus error empties the store buffer and leaves head and tail (1484-1490).

### The replacement policy

**CacheReplaceLru** is the list of ways of each set without its most recent
member. `stateout` takes a way out of the list and moves what is above it down;
it is `statein` "after wayin has become the MRU way" (line 73 of the source)
only if the list is an order of the ways. From the uninitialized RAM a use may
leave the list as it is. **CacheReplace** is the discipline of the caches: a
set is read with its tags, and in the next cycle a way of that set may have
been used and its list is written. That the caches keep to it is `ReplaceFresh`
of `InstFetch` and `DataAccess`. **LruSpec** knows no lists: it keeps for each
way the ways used since, or nothing at all for a set whose list is no order
yet.

### kconfig

**KconfigExpr** is the rewriting of expressions in `expr.c`: trees that are
changed in place through pointers to their edges, which are paths here, because
two pointers into one tree are what can go wrong. **KconfigMenu** is
`menu_finalize` and `sym_check_deps`, from a Kconfig file (a sequence of
entries) to the tree of the menu, the conditions and the reverse dependencies.
**KconfigSymbols** is `symbol.c`: a table of symbols with their flags, from
which values are calculated on demand and kept. **KconfigFile** is `conf_read`
and the lines that `conf_write` writes. **ConfWrite** is what `conf_write` does
to the files, apart from what it writes: one action for each of opening the
temporary file, writing and closing it, and the two renames, in a program that
may be killed between any two; **ConfSaveSpec** says of the files alone what
that is for. **KconfigSession** is a user with nconf: keys, loads, saves by the
actions of ConfWrite, kills and new starts. Left out: `KCONFIG_OVERWRITECONFIG`,
with which the configuration is written in place; hex and string symbols, menu and if blocks, several
entries for one symbol, symbols from the environment, search, show-all, the
graphical front ends and write errors.

**KconfigConf** is the other front end that works without a screen: a run of
`conf` has a mode, and runs follow one another. One that sets values itself
begins with a seed and completes every choice (`SetAllNewSymbols`); one that
asks goes through the menu with a list of what is yet to be done, which stands
for the recursion of `conf` and `check_conf`, and begins again while answers
make other symbols new. Then it writes: `.config` as `conf_write` does, the
minimal configuration with only what differs from the defaults
(`WriteMinimal`), or the files of a build. These are in **ConfAuto**, a file being
the set of its lines: a run first touches a header for each symbol that has
changed (`Touch`) and then renames header, list of modules and `auto.conf`, in
that order (`PutHeader` to `PutAuto`). `current` is what `make` looks at, whether
`auto.conf` is newer than `.config`. **ConfBuild** has these four steps and
nothing else of conf: what is written is any set of values, and between two steps
the program may be killed and started with others. The one thing it asks of the
values is that they are those in `.config` when the first step is taken
(`AsSaved`); that a run of conf sees to this, through the calculation of all
symbols, is part of what `BuildsAsPromised` checks. Left out: strings, hex
numbers and menus without a symbol, the numbers by which members of a choice are
picked, help texts, `auto.conf.cmd`, `KCONFIG_NOSILENTUPDATE`.

What was seen in the source while it was translated:

* `conf_read` of a file that is not there sets the count of changes to zero
  before it fails (`confdata.c` 412); nconf then ends without asking, and the
  changes are lost. `CleanMeansSaved` excepts it (`LoadMissing`, `astray`).
* A choice that the user sets to y loses its mark while that very value is
  calculated, if a member that is seen was never set (`symbol.c` 269-277).
  `Marked` excepts it.
* A number that is found out of range by `conf_read` loses the user's mark but
  is remembered. Entered again it is taken for the present value (674-677), and
  the menu goes on to show the old one (`Slip`).
* Members of a choice keep the flag that they are to be written after they are
  hidden, so that files differ in lines that say "is not set".
* An optional choice at m whose members are all n leaves no trace in the file.
* The rule `(FOO || BAR) && (!FOO && !BAR) -> n` changes the value of tristates
  at m; the Kconfig files that are checked do not have that form.
* `sym_check_deps` returns NULL at the top level, so that a recursive file is
  reported but never refused.
* Killed between the two renames, only `.config.old` is left, and the next
  start begins from defaults.
* A number that has no value is written to `auto.conf` as an empty string, which
  is no number when it is read back: `conf_split_config` finds "neither an old
  nor a new value" (`confdata.c` 902-903) when the symbol is not written any more,
  and does not touch its header. `HeadersTouched` excepts such lines
  (`Readable`); without that it is violated.

### mconf and its dialogs

**LxMenubox**, **LxChecklist** and **LxInputbox** are the three dialogs of
lxdialog that have a state of their own. What they do to the screen is part of
them: a window is drawn once, and then scrolled and printed in single lines, by
other code for each key (`Moved`, `Scrolled`); the field of an input box is
printed from the cell of the key on, with one blank behind the text
(`Printed`). So a screen that goes wrong is a state of the model.
**MconfDialogs** is `conf` of `mconf.c` with `conf_choice`, `conf_string`,
`conf_load` and `conf_save`: what follows an answer, what is kept of a menu
while another dialog is open (`stack`, `active`, `s_scroll`), and terminals
that are too small or change their size. Whatever an answer does to the
symbols, `build_conf` makes some list of it: the next list is any of `Lists`,
so that the entry that was left may be elsewhere in it, or gone, or there may
be no item at all. `counted` is `child_count`, which decides whether an empty
list is shown.
**DialogSpec** knows no window: a light moves in a list by an item or by what
is in sight, a cursor moves in a text, and a menu opens where it was left.
In an empty list keys do nothing. `MconfDialogs` implements it with
`at = scroll + choice`, or 0 where there is no item (`At`, `Top`). Left out:
`dialog_textbox` and `dialog_yesno`, which change nothing but their own
position, the search, columns, colours, `single_menu` mode.

What was seen in the source while it was translated:

* When the terminal changes its size, `dialog_menu` draws the list again with
  `first_item`, `choice` and the kept position of the size before
  (`menubox.c` 251-271). In the first lines `first_item` stays as it was, so
  that the lines may show other items than those that the keys move through,
  or an item past the end is printed, which is no item (`Overrun`, `Crash`).
  The first button is lit, whichever is the current one (278). `ScreenTrue` has
  the premises `aligned` and `~resized` where it would be false, and nowhere
  else. `aligned` is a history variable of the model: when the window was drawn,
  `first_item` was the scroll position. While that is so the lines are true, also
  after a change of the size; that the others are not, and the crash, is what the
  code does, and `DialogSpec` lets the program end at any time.
* `child_count` is never reset (`mconf.c` 280, 665). A menu without items is
  refused only where nothing has been counted since mconf was started, which is
  the outermost one at most; any other, marked "----", is opened. `dialog_menu`
  and `conf` have guards for it (`menubox.c` 306, `mconf.c` 674): the keys that
  move do nothing (`MenuIdle`), Help shows the general text, and the commands
  find no entry (`Current` is `None`). A choice whose members are all hidden
  opens as an empty radio list.
* The radio list has no such guard. Where there are no items the last line is
  the one before the first (`checklist.c` 245), so that the arrow down lights
  line after line and leaves the window, and after a change of the size the
  empty list is "scrolled" to that line. Nothing comes of it, as Enter finds no
  member (`item_activate_selected`); `ScreenTrue` asks nothing of the lines of
  an empty radio list, and `MaxStray` bounds how far the light goes.
* `dialog_inputbox` copies the text to begin with into a buffer of `MAX_LEN`
  characters without asking how long it is (`inputbox.c` 56); values from a file
  and names of files may be longer. Two outcomes are modelled: what lies behind
  the buffer is not missed, and the text is edited as it is, no character being
  let in; or mconf ends (`Overwritten`). That a variable is overwritten and
  the program goes on with another value of it is not.
* The arrow at the end of a radio list asks where the light is, not where the
  window ends (`checklist.c` 85). As it is printed only when the window is
  scrolled, and drawn with the light where it is scrolled to, this makes no
  difference until the terminal changes: `ArrowsTrue` asks for the window.
* `conf_string`, `conf_load` and `conf_save` do not look for the answer that
  the terminal is too small and open the dialog again, for ever
  (`mconf.c` 870-895, `inputbox.c` 59): `stuck`, until a signal ends it.
* After help or a refused answer the text is that of the symbol again, and what
  was typed is gone (`TextAgain`).
* After help on a comment among the members of a choice the light is on the
  first comment, as comments have no symbol (`Same`).

## Runs

| Run | Instance | Shows |
|---|---|---|
| `bus` | 2 masters, 1 word, 2 values, latency 3 | arbiter and memory agree on the access under way (`AccessAgreement`), bursts stay whole, `SysBusSpec` is implemented, and the priority master is served unless the other bursts for ever |
| `fetch` | 3 blocks of 2 words compete for 2 ways of a set, 1 store | a fetch answers with the word of its address, none older than the last invalidation; lines hold their blocks and no block is in two ways; an access without tag comparison would have hit |
| `fetch_live` | 2 blocks of 4 words, 1 way, MMU misses | a request that waits for a fill waits for the beat on the bus; bursts are driven without a gap and wrap; the policy is told of a use in the set it happened in; every request ends |
| `fetch_clear` | 2 blocks, 1 way | a comment of the cache is not true (below) |
| `lru` | 2 sets, 4 ways, any contents of the RAM | what the RAM held at power-on is forgotten with the replacement of victims (`Settling`), after at most three of them; from then on the policy is LRU |
| `data` | 2 blocks compete for 1 way, 2 slots, accesses of one and two bytes, write-back and write-through | no store is lost or overtaken, a load answers the last one, clean lines may be dropped, entries know their lines, the ring is whole, a store let in while it is full finds room, a store to memory is answered before it leaves |
| `data_ways` | 3 blocks in 2 ways, 1 slot, write-back | no block is in two ways, owners and states agree, the policy is told of what was read |
| `data_live` | 2 blocks, 1 way, 1 slot | every request completes, and the store buffer runs empty |
| `data_banken` | as `data_live`, write-through with write-backs on request | an assertion of the data RAM fails (below) |
| `kconfig` | 4 Kconfig files, 2 keys, 1 save | values, files and menu stay consistent through requests, loads, saves and kills; `ConfSaveSpec` is implemented |
| `conf` | the same Kconfig files, 9 sequences of up to four modes | a minimal configuration loses nothing, what conf has written raises no new question, the files of a build are written as `ConfBuild` promises and so agree with `.config` when `make` takes them for current, and what changes has had its header touched whatever was killed; every run that goes on ends |
| `mconf` | lists of no, 1 and 4 items, a field of 3 cells and texts of 0, 3 and 5 for a buffer of 4, 4 sizes of the terminal | what is on the screen is what keys go by, and `DialogSpec` is implemented |

**Bounds.** Two masters are what the core has. Latency three has a first, a
middle and a last position of the shifter. Three blocks in a set of two ways
are the least that force a replacement in a full set while both other blocks
are wanted; one way is the least that makes every miss a replacement; blocks of
four words give a fill a first, two middle and a last beat, and starts that
wrap. `MaxStores` bounds the stores of the other master: one is enough to tell
an old word from a new one. `MmuOffsets` are the words at which the MMU may
miss. Two slots are the least with a head and a tail that differ; `Accesses` of
one byte and of two, one inside the other, make entries that hit and entries
that conflict. `AllWords` and `all_tags` restrict the blocks and words that a
run accesses, not what happens to them. The watched offset is 0 in all runs of
the data cache (`OneOffset`): blocks wrap, and nothing else looks at the
number. Four ways are the least power of two with a list that has a middle.
`MaxKeys` and `MaxSaves` bound a behaviour of kconfig, which may start from no
file, from one edited by hand, from one of an older version of the Kconfig
file, or from what a program left that was killed between the renames. `Plans`
bounds the runs of conf: every mode comes first or second in one, and
`silentold` comes after `silentold`, so that a build's files are those of an
earlier run. Lists of mconf are empty, of one item, shorter than any window, and of
four, longer than windows of one, two and three lines and so with a first,
middle and last position to scroll to; letters that two items answer to and one
that a command takes are among them. Texts of four characters in a field of
three begin left of it and end right of it; one of five is longer than the
buffer. `MaxDepth` is one menu in another: what is kept for a menu is kept in
the same way at every depth. `MaxStray` is a line more than the window of an
empty radio list has, so that its light leaves the window. Symmetry is used for values, ways, tags and sets, which the models only
compare; not in the runs of liveness, nor for the ways of the policy, which
have priorities. All else is unbounded.

**Fairness.** `WF_vars(Next)`: the clock does not stop. Nothing else is fair.
Liveness of the caches assumes `[]<>sys_ready`, that the bus does not leave
them waiting for ever, which is what `PriorityServed` gives to master 0, the
port of the instruction side; that one in turn assumes that the other master
does not burst for ever. The data side has no such guarantee: with fixed
priority and back-to-back fetches it can wait for ever, and no property claims
otherwise: what is shown of it is that nothing but the bus can make it wait.
`Drains` also assumes that the pipe stops asking. Sessions with nconf and mconf
have no fairness: the user may do nothing. A run of conf goes on (`LiveSpec`):
the user answers every question, at last with something that is accepted;
which answers they are is open, and that the run ends for all of them is `Ends`.

**Violated on purpose.** `fetch_clear`: the valid bit of a way is to be cleared
in the first state of a fill (comment in `cpu_l1mem_inst_cache_ctrl-rtl.vhdl`,
line 1085), but the write is enabled only if the memory answers in that very
cycle (lines 481-485), and the state lasts one cycle. With a latency above one
the line stays valid with its old tag while its words are replaced. In the
modelled system nothing reads the way before the fill has ended, and
`CacheCoherent` allows for lines that are being filled; after a bus error in a
fill the line would stay.

`data_banken`: a write-back on request that has to wait for the bus loses its
way. `b_request_way_next` keeps the way in the states of loads only
(`cpu_l1mem_data_cache_ctrl-rtl.vhdl` 1244), so that the write-back begins,
when the store that owns the bus is done, with bank enables that are `'X'`,
against the assertion in `cpu_l1mem_data_cache-rtl.vhdl` 394, and overwrites
memory with no defined word. It takes a build in which stores go to the bus
past the RAMs. The run `data` has requests for write-backs in the other build
only, and the theorems about data say so (`WritebacksAreAlone`).

An observation without an error: a fetch that is joined to a fill and whose
beat does not come in the next cycle loses its grant (lines 921-942); it then
waits for the end of the fill and fills the block again into the same way.
`Ownership` states the exact case. With the memory of the simulated system the
beats of a burst follow in successive cycles, and it does not happen.

Every property of a passing run has a mutant of the code in the module of its
component (marked `(mutant)` there) that violates it under the same
configuration.

## Proofs

The theorems hold for every value of the constants. What is assumed of those is
named in the modules and checked by TLC in the runs.

`SysBusProofs`, for every number of masters, every set of words and values, and
every latency of at least one (`MasterCountAssumption`, `LatencyAssumption`,
`NoRequestAssumption`):

* `Invariance`: `IInv` is inductive and holds always. `AccessAgreement` alone
  is not inductive: that the memory takes over the request the arbiter holds
  needs that held requests of valid masters are requests (`HeldRequests`), and
  that a locked master is a valid one needs that the lock is the one of the
  access under way (`LockHolder`).
* `TypeCorrect`, `AccessAgreed`: `TypeOK` and `AccessAgreement`, from it.
* `BurstAtomicity`: the action property `BurstsUnbroken`, one step from `IInv`.
* `Refinement`: `Spec => PromiseKept`. Each step serves the master whose access
  the memory completes in the next cycle, or nobody; the lemmas say what
  becomes of a port that is served and of one that is not.

`InstFetchProofs`, for every set of ways, tags and sets and every length of a
block of at least two words (`BlockAssumption`, `NoRequestAssumption`):

* `Inductive`: `IInv`. No safety property of the cache is inductive alone. That
  a fetch is answered with its own word (`FetchIsCorrect`) takes that the
  request that waits for a fill has its address on the bus (`Waits`), that what
  is on the port is what the bus operation is at (`OnBus`), that the words
  before that beat have been replaced and are fresh (`FillSound`, with
  `Replaced`, an interval that wraps), and that a way used without comparison
  is that of the block, or the one it is being filled into (`WayKnown`). A fill
  starts at any word and its beats are counted apart from the address; the
  lemmas about `Replaced` connect the two.
* `CacheIsCoherent`, `TaglessIsSound`, `ReplaceIsFresh`, `OwnershipHolds`,
  `BurstsGoOn`: all the other safety properties of the runs. The lemmas of the
  first half bring the logic in front of each register to the form they use.

`DataAccess`, for every set of ways, tags, sets, values and widths of access,
every length of a block of at least two and every size of the store buffer of
at least one (`SizeAssumption`, `NothingAssumption`, `SystemAssumption`), in
three layers, each inductive with those below it:

* `CInv` (`DataAccessProofs`, `Inductive`), the control, for any software: the
  request belongs to its state (`RequestKnown`); the owners of the RAMs and of
  the bus are functions of the states of request, store buffer and bus
  operation (`Owned`), and so is what the bus operation does for its owner
  (`BusUse`); who has looked at the cache and waits for the bus waits for a
  store that leaves the RAMs alone, so that what was read is still so
  (`RequestWaits`); the head of the ring is what is worked on (`HeadKnown`); a
  store that was let in has room (`Room`); the port carries the beat the bus
  operation is at (`OnBus`). From it: `RingIsOrdered`, `OwnershipHolds`,
  `QuickStoreHolds`, `StoresReachMemory`, `BurstsGoOn`.
* `TInv` (`TagsInductive`, in the same module), the tags: a set is invalidated
  when nothing is under way (`InvalidatesAlone`), what is looked up is in use
  (`InUse`), a block is filled into one way and is in no other (`FillKnown`),
  and is not there when it is to be filled (`MissKnown`). `StbTracksCache` is
  inductive only if it also speaks of the cycles of a fill: an entry knows its
  line, but for the way that is being filled (`EntriesTrack`), because it is
  told of the change in the first and in the last state of the fill while the
  tag RAM is written in between. From it: `NoBlockTwice`, `StbTracks`,
  `ReplaceIsFresh`.
* `DInv` (`DataValueProofs`, `ValuesInductive`), the data. A beat of a fill or
  write-back is before or after the one of the watched byte (`ToCome`); after
  it, way and memory agree (`BeatsKnown`, with `AnswerKnown` for what the bus
  said). Clean lines are what memory holds but for the cycle in which the dirty
  bit is on its way (`CleanKnown`); victims that are not written back are clean
  (`VictimKnown`); the head of the store buffer has been written to its line
  (`HeadWritten`). The newest entry of the watched byte, or else the lines, or
  else memory, have the value stored last (`LatestKnown`): a store becomes the
  newest entry, joins an entry that is not yet worked on, or goes past a cache
  and a store buffer that do not have the byte (`StoreEnters`); the newest
  entry leaves when it is in its line, or in memory if it has none
  (`PoppedIsInPlace`). From it: `StoresKept`, `CleanStored`, `LoadsCorrect`.

`ValuesInductive` and what follows from it have the premise
`WritebacksAreAlone`: software asks for write-backs only where stores do not go
to the bus past the cache. Without it they are false, as `data_banken` shows.

`CacheReplaceProofs`, for every number of ways of at least two
(`AssocAssumption`) and every set of sets:

* `TypeCorrect`: `TypeOK`. The prioritizer always finds a way that is not in
  the list (`MruMissing`), for a list is shorter than the number of ways.
* `Settles`: the action property `Settling`. Duplicates in a list only move
  down, and all of them do when the victim is used (`DuplicatesFall`); none are
  made.
* `OrderNeverLost`: `OrderKept`, from the same lemma.
* `Refinement`: `Spec => PromiseKept`. A list that is an order, completed by
  the missing way, is a bijection of places and ways (`FullBijection`), under
  which "used since" is the order of places (`SinceFull`).
* `UseRefines`: `UsesRecorded`, which `PromiseKept` alone does not say, since
  `LruSpec` also allows idle steps.

`ConfWriteProofs`, for everything that may be written and whatever files of
their own the disk holds at first:

* `Inductive`: `IInv`. What was closed is whole, and after the first rename the
  name is free (`StepsDone`). Without the former the second rename could
  install a partial file, without the latter destroy a configuration of which
  there is no copy.
* `Implements`: `Spec => SavesAsPromised`, the refinement of `ConfSaveSpec`: the
  first rename retires a configuration, the second one publishes the next, and
  all other steps, the kill too, prepare.
* `NothingIsLost`: the action property `NeverLost`. It follows from the promise
  alone (`PromiseIsSafe`), so that it holds of whatever keeps it. `AlwaysACopy`:
  once there is a complete configuration, there is one for ever.

These are about ConfWrite, whose actions KconfigSession conjoins with what they
do to the symbols; that whole sessions keep the promise the run `kconfig` checks.

The same module, for any symbols of any types and any values that are written:

* `TouchedFirst`: `BuildSpec => HeadersTouched`. While files are renamed, every
  symbol that will have another line in `auto.conf` is touched already
  (`TouchInv`). That this follows from what `conf_split_config` compares needs
  that `auto.conf` has one line for a symbol (`Lined`): with two, an old value
  could hide another (`NewLineDiffers`, `OldLineDiffers`). A run that was killed
  is no exception, for what it touched stays so until `auto.conf` is replaced.
* `BuildAgrees`: `BuildSpec => []CurrentAgrees`: an `auto.conf` that `make` takes
  for current has the values of `.config`, and so have the header and the list
  of modules. The invariant (`AgreeInv`) says which of the files are those of the
  values being written; that `auto.conf` is the last of them is what makes it
  inductive.

That conf does what ConfBuild says, whatever is in the Kconfig file, cannot be
proved, because its values are calculated by recursion; the run `conf` checks it
(`BuildsAsPromised`).

`MconfDialogsProofs`, for all lists and texts, windows and fields of any size,
terminals of any sizes and menus of any depth, lists without items and texts
longer than `MAX_LEN` among them (`ConstantsAssumption`: the entries of a list
differ, which is how `build_conf` makes them, `None` is no entry, and the radio
list and the field have a line and a cell at least):

* `Invariance`: `IInv`. That the screen is true is not inductive alone. What is
  scrolled in and printed is the item of its line only if the window lies within
  the list and the light within the window, where there are items (`ListKnown`),
  and what is left of
  the field after a key is right only if the cursor lies within the text
  (`TextKnown`); what is kept of a menu needs no more than its type (`Kept`),
  for `Position` takes any line for a suggestion. The window has the height of
  the terminal, but for the radio list, which has its own.
* `Shown`: `Spec => []ScreenTrue`, from it. `ScrolledAndPrinted` says of all keys
  at once that a window that is scrolled and printed in two lines is the window
  drawn anew; `CellsPrinted` says the same of the field.
* `Refinement`: `Spec => Served`. Each key has a lemma in numbers (`UpGoes` to
  `LightGoes`, `EmptyListGoes`): where the light goes, and that the part in sight moves no
  further than it. The text is an array and a position, to the user two
  sequences that meet at the cursor: `AppendUpTo` and `ConsFrom` take a
  character from one to the other. That a menu looks as it did when the user
  comes back to an unchanged list is `CurrentKept`: the kept line is the one
  that `Fits`.

The premises `aligned` and `~resized` are not there for the prover: with another
size of the terminal the screen of a menu may be wrong, as described above.

So every safety property of the hardware that a run checks is a theorem, and
every one of mconf. Only model-checked are liveness (`PriorityServed`,
`Completes`, `Drains`, `Ends`), because TLAPS has no reasoning about fairness
and ENABLED here, and what nconf and conf do to symbols and lines of files
(`kconfig`, and in `conf` all but `HeadersTouched`), whose algorithms are recursive over expressions, menus and
symbols: what a recursive operator computes for every input is an induction over
data, which the installed provers cannot do.

## Not modelled

* The pipe: its fetch stage (refetching, instruction buffer, invalidation
  through the fetch port, flushes), of which `PipeRequests` of `InstFetch` says
  only what it may ask for; valid bits, stalls and flushes of the five stages;
  exceptions and SPRs; the branch predictors, whose updates matter to the pipe
  only. It is by far the largest part, and its environment is a program.
* The arithmetic units: their results are a matter of equivalence checking on
  whole words. The pass-through memories: the sample configuration has both
  caches.
* Of kconfig: strings, hex numbers, several entries for one symbol, the search,
  and whatever `dialog_textbox` and `dialog_yesno` do. The graphical front ends
  gconf and qconf.
* The test bench, the build system, tables and libraries of combinational
  functions: they have no concurrency and no state of the processor.

Note that counts of lines of the repository that know C only see kconfig; the
processor, which most of the modules here are about, is VHDL.
