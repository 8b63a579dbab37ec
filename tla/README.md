# Verification of csgochanger

TLA+ models, TLC runs and TLAPS proofs about the code under
`src/CSGOSimple/`: a library that is loaded into the game client, hooks some of
its functions, and shows the local player's weapons, knife and gloves with the
skins the user chooses in a menu.

Most of the 654 files are vendored or generated and not modelled: ImGui,
protobuf and the generated messages, jsoncpp, minhook, curl, the DirectX SDK,
ManualSEH, md5, base64, and the engine's SDK headers. The repository has no
tests and no documentation of its own; the descriptions of the features
(`Hooks.cpp:525-540`) and the comments in the code are what the models are
compared with, besides the code itself.

## 1. Inventory

Four kinds of threads run the program's code:

* the **main thread** of the game: entity listener, level hooks,
  `FrameStageNotify`, game events;
* the **render thread**: `Hooked_Present`, which draws the menu (`DrawMenu`)
  and so runs every command of the user's, and `Hooked_Reset`;
* the program's own threads: `save_thread`, `read_thread` (`Menu.cpp`),
  `accept_thread` (`MatchEvents.cpp`), none of which is ever stopped, and
  `on_reset` (`ResetHook.cpp`), one per reset of the device;
* the thread of `DllMain`: it starts `Hooks::Initialize` and, when the library
  is freed, calls `Hooks::Restore`.

They share globals with no lock at all.

| Component (files) | State | Operations | Hard behaviour | What makes it correct |
|---|---|---|---|---|
| **Configuration store** (`Config.cpp`) | the scratch JSON value `settings`, four files | load and save of two skin files, of the sounds, of the other options | four threads in one scratch value; truncate, then write; a crash in between; files that do not parse or open | files say what memory says; nothing stored is lost; a torn file is repaired |
| **Menu threads and commands** (`Menu.cpp`) | `should_save_config`, `should_read_config`, the configuration | poll loops, edits, copy, randomize, save and load buttons, sound switches | a request made while one is being served; changes that request nothing | a request is served, a change is saved |
| **Weapon tracking** (`EconEntityListener.cpp`, level hooks, `FrameStageNotifyHook.cpp`) | `weapons` (entity indexes, -1 for dropped), class identifiers, `local_player_index`, `player_info` | entity created, deleted; level start, shutdown; the walk of every frame | reuse of indexes; weapons dropped too early; the first level | every own gun tracked, once; nobody else's weapon dressed; the vector bounded |
| **Random skin, kill counter** (`PresentHook.cpp`, `FrameStageNotifyHook.cpp`, `FireEventClientSideHook.cpp`) | `is_pressed_random`, `is_down_random`, `required_random_skin`, `iKills` | key, walk, `player_death` | a request is a flag with no weapon | one change per request, of the weapon it was made for |
| **Skin and glove refresh** (`SkinChanger.cpp`, `FrameStageNotifyHook.cpp`, `CEconWearable.cpp`) | `random_model_not_setted`, `set_random_model_tick`, `created_wearables`, the gloves' two flags | `ChangeWeapon`, `ChangeKnife`, `resetSkin`, creation and release of the gloves | refresh planned two ticks ahead and matched with `==`; frames compare paint kits only; death, team or level change between two phases | what is configured is shown some day; an old material is thrown away; a released wearable is not used |
| **Menu visibility and input** (`PresentHook.cpp`, `WndProcHook.cpp`, `LockCursorHook.cpp`, `ResetHook.cpp`) | `main_window`, `was_opened`, `isDown`, `saved_hwnd`, the font texture | key toggles, message filter, handle swap per frame, console command, device reset | three threads write `main_window`; a key is sampled by one thread and filtered by another; two threads recreate the texture | the game sees every release; a closed menu gives input back; an open one is drawn |
| **Automatic accept** (`MatchEvents.cpp`) | `should_accept`, the thread's handle | match events, poll loop | the flag is never reset; the menu it closes may be opened again before the click | a found match is accepted |
| **Hook life cycle** (`VFTableHook.cpp`, `cross_module_vmt.cpp`, `RecvPropHook.cpp`, `Hooks.cpp`, `Main.cpp`) | table pointers, originals, the `Present` slot | setup, hook, unhook, `Initialize`, `Restore` | calls between two installations; calls after `Restore` | an original is known before its hook runs; after `Restore` nothing points here |
| **Single-producer queue** (`spsc_queue.h`) | linked list with a divider | produce, consume | relaxed ordering | a FIFO |
| **Game coordinator messages, inventory** (`Protobuffs.cpp`, `ProtoParse.cpp`, `inventory_changer.cpp`) | fake items, equipped slots | packet rewriting, `EquipAll`, create, update | identifiers that must not collide; both teams | every configured skin has one item |
| **Pure parts** (`nSequence.cpp`, `Options.cpp` random generators, `Crates.cpp`) | none | animation remapping, `RandomSkin`, crate lookup | boundaries of ranges and tables | the result is in the range of the table it indexes |
| **Catalogues, sounds, models, network, platform helpers** | tables filled once | lookups, I/O | none worth a model | |

Who calls whom: the engine calls the hooks; the walk of `FrameStageNotify`
reads the listener's vector and the configuration, and may change the
configuration (random skin); the menu changes the configuration and requests
saves; `save_thread` and `read_thread` serve these through the configuration
store; `player_death` counts kills in the configuration and may request a
random skin.

`PROJECT.json` lists the hazards, each at its line, with the properties that
cover it.

## 2. The modules

In the order they were written, the most important behaviour first:

1. `ConfigStore`: everything the user configured passes through it, by four
   threads. `AtomicStore` is the abstract specification it implements. The proofs
   are in three modules: `ConfigStoreProofs` (the main invariant),
   `ConfigStorePassProofs` (what a pass over the files achieves, and that it ends)
   and `ConfigStoreAtomicProofs` (the refinement).
2. `WeaponTracker` and `WeaponTrackerProofs`: the core of what the program does
   in a frame. `WeaponRegistry` is the abstract specification it implements.
3. `Gloves` and `GlovesProofs`, the part of the frame handler after the walk.
4. `SkinRefresh` and `SkinRefreshProofs`: how a change of an entry by the menu
   reaches the fields and the material of a gun and a knife. It has one weapon
   of each kind where `WeaponTracker` has which entities are walked; the two
   are not composed, because a weapon's refresh does not depend on any other.
5. `Overlay` and `OverlayProofs`: the menu as a window, with the automatic
   accept, which closes it. `DeviceObjects` is the texture behind it, over
   resets of the device.
6. `HookLifecycle`: `Initialize` and `Restore` as sequences of statements, with
   the game calling in between.

An `MC` module per component instantiates it for TLC. The runs:

| Run | Module | Expected | Question |
|---|---|---|---|
| `config_saving` | `ConfigStore` | pass | what the files say after a crash, an edit and a request; refinement |
| `config_unload` | `ConfigStore` | pass | the library is freed during a save |
| `config_serving` | `ConfigStore` | pass | requests and options under fair scheduling; passes end |
| `config_autosave` | `ConfigStore` | violation | "Save config at every change" |
| `tracker_world` | `WeaponTracker` | pass | the vector, over any life of the entities; refinement |
| `tracker_dress` | `WeaponTracker` | pass | own guns get their skin |
| `tracker_aim` | `WeaponTracker` | violation | the random skin is for the weapon in hand |
| `gloves` | `Gloves` | pass | gloves are shown as configured, none is lost |
| `skin_refresh` | `SkinRefresh` | pass | what is picked is shown |
| `overlay` | `Overlay` | pass | keys, window handle, cursor and menu agree |
| `device_objects` | `DeviceObjects` | violation | resources are released before a reset |
| `hooks_restore` | `HookLifecycle` | violation | "Remove the hooks" |

## 3. `ConfigStore`

**State.** `file` is the disk, `memory` the configuration in `Options`,
`settings` the member of the one `config` object. Each of the four threads
(`loader` is the one of `Initialize` and `Restore`) has in `todo` the loads and
saves it still has to do and in `step` how far it is in the first of them.
`save_flag`, `read_flag`, `save_other`, `save_pc` and `read_pc` are the two poll
loops, `proc` is the library in the process. `spoiled`, `stale`, `suspect`,
`late`, `promised` and `stored` are history that no guard reads, except that a
write another thread disturbed (`spoiled`) may leave text that does not parse.

**Steps.** A save is three steps (`FetchToWrite`: clear `settings`, parse the
file; `MergeAndOpen`: add what memory says, truncate; `Flush`: write and close),
a load is two (`FetchToRead`, `Apply`). These are the statements that touch the
shared value or a file; everything else is local to the thread, so any
interleaving of the statements has the outcome of one of these. A data race
inside one statement (the JSON tree while another thread changes it) is
undefined; the model gives it the outcomes that the tree is one of the two, or
that the text written does not parse.

**Data.** A skin file is one weapon of one team: the kit chosen last and the
set of kits whose details it has ever stored. That keeps what the code's merge is
about (the details of the other kits must survive) and drops the fields it
copies. The knife and the gloves go the same way and add nothing.

**The runs.**

* `config_saving` (two kits, one edit, one silent change, one request, one kill,
  a file torn by an earlier crash, files that may not open): `CleanFilesAgree`,
  `RequestIsServed`, `HistoryIsKept`, `PassRepairsSkinFiles`, and the refinement
  `StoreIsAtomic`. The torn file is the one the pass saves second: what an
  uncleared `settings` would bring into it from the first is what only
  `StoreIsAtomic` sees (its mutant, `FetchToWriteUncleared`, passes the other four).
* `config_unload` (one kit, no files, one edit, one click on a sound, one
  unload): `CleanFilesAgree`, `RestoreSavesBothTeams`, with `save_thread` still
  running and the menu saving the sounds: three threads in `settings`.
* `config_serving` (no files, one request, one option): under fairness,
  `RequestsEnd` and `OptionsReachDisk`; and, of every step, `EveryPassEnds`. No
  files, because a load of a missing file is the one job that becomes another.
* `config_autosave`: expected to fail. "Save config at every change"
  (`Hooks.cpp:536`) is not kept: `save_thread` clears its flag after the pass
  (`Menu.cpp:278`), so an edit made during the pass is not saved.

One edit and one request suffice for the safety properties, because each is
about one save or one pass: an edit before, during and after it is every
case, and the fourth thread's steps are the same as the third's. The proofs below
do without bounds for every property but the two under fairness.

**Fairness.** Weak fairness of every step of the program's own threads: the
operating system runs every thread. Not of the user's actions, of unloading or
of crashes.

**The abstract specification.** In `AtomicStore` each file has a value in memory and
one on disk; `Load` and `Save` are one step each. `dirty` are the files that may be
behind memory, `damaged` those that may have anything in them, `open` the
file whose save is not closed. It permits four departures from such a store, and
no other: accesses that overlap (`Overlap`) may damage files, among them the one
that is open; a save may be refused (`Refuse`), which leaves the file as it was
and counts it as damaged; a load that another overlaps, or of a document without
the entry, may put any value in memory, but the file is then dirty (`Change`); and the end of the process (`End`)
leaves an open file torn, and every other one as it was. That accesses overlap is not for the
abstract store to say freely: `Turn` lets a thread be `crossed` only if it, or the thread that
takes the step, finds another one inside.

The mapping has a save take effect where it merges and truncates, and close where it
flushes: a file with an undisturbed save under way (`Sound`) says what
`settings` will put there, any other file what it has on disk. `damaged` is what is
`suspect`, and what only disturbed saves have open. So the refinement
holds exactly because an undisturbed save is the only access there is: had it
merged into anything but what its file holds, the step would be no `Save`.

**Proved** (`ConfigStoreProofs`): `Spec => []TypeOK` and
`Spec => []CleanFilesAgree`, from `ConstantsAssumption` alone, so for any kits,
any first files and any bounds. `CleanFilesAgree` is not inductive: that a save
writes what memory says rests on `settings` being still what this save made.
The invariant `IInv` adds

* `BusyHasJob`, `IdleBetweenTurns`: which thread can be inside a job at all;
* `OneClean`: of the threads inside a load or a save at most one is undisturbed,
  because entering one clears `settings`;
* `CleanLoadIsCurrent`: an undisturbed load has in `settings` what its file has;
* `CleanSaveIsCurrent`: an undisturbed save that has opened its file has in
  `settings` what memory says, or memory has changed since.

There is one lemma per step of a load or save, one for the loops and one for
the menu.

**Proved** (`ConfigStorePassProofs`), from the same assumption: `RequestIsServed`,
`RestoreSavesBothTeams`, `PassRepairsSkinFiles`, `HistoryIsKept` and `EveryPassEnds`. The first
three speak of the step that ends a pass, about which `IInv` says
nothing; `PassInv` adds the account of what a pass has still to do.

* `PassGoesOn`, `RestoreGoesOn`: while the pass runs, a file that is not up to
  date is among the saves it has left (`Left`: a save counts until it has
  merged), or changed after the pass began (`late`), or was given up
  (`GivenUp`: suspect, and no undisturbed save is about to clear that).
* `RepairGoesOn`: likewise a file that does not parse is among them, or suspect,
  or being rewritten by another thread.
* `StoredIsOnDisk`, `CleanSaveKeeps`: what a file held when it was last closed
  is what it holds unless it is open, and is part of what an undisturbed save
  has in `settings`, from its first step to its last.

When nothing is left (`NothingLeft`) only the exceptions remain, and these
are the ones the properties name. `EveryPassEnds` needs `IInv` only: `StepsLeft`, four
for each load or save and fewer for the one under way, decreases with each step of
the thread and grows only from 0. What `RequestsEnd` adds to it is that the threads
run, and that a save or load that has begun can always go on.

**Proved** (`ConfigStoreAtomicProofs`), from the same assumption: `StoreIsAtomic`.
`AtomicInv` adds to `IInv`

* `SpoiledInside`: only a thread inside a load or a save is disturbed;
* `EmptyUnlessWhole`: a file that does not parse has nothing for a save to keep;
* `CleanFetchIsFile`: an undisturbed save that has not merged has in `settings`
  what its file holds, or nothing if it does not read it;
* `CleanOpenIsTorn`: what an undisturbed save has open is torn on disk.

One lemma per step names the abstract one (`Effect`): the statements that clear
`settings` are an `Overlap` if a file is open and nothing or a `Refuse` if none is
(`DisturbingStep`); `MergedIsPut` is the lemma that makes the merge a `Save`. What
`AtomicStore` promises is then proved of the code from the abstract steps alone:
`CleanIsOnDisk`, which unlike `CleanFilesAgree` also speaks of the file
that is open, and `NothingIsForgotten`, by which stored kits are lost only with a file that is
damaged, or that a save had open when the process ended.

## 4. `WeaponTracker`

**State.** `world` is the engine's entity table from index 65 up, each entity an
item, whether the local player was its first owner (`original_owner_xuid`),
whether its static data is known, and the skin it shows. `weapons` and `size`
are the listener's vector: how often it has each index, and its length with the
dropped elements. The order of the vector matters in one place only, in a frame
that applies a random skin, and there `Frame` chooses which elements come
before the weapon in hand. `config`, `options`, `pressed`, `down` and `required`
are the globals of the same purpose; `asked` and `heard` are history.

**Steps.** `Create`, `Delete`, `Describe`, `Join`, `SpawnOrDie` and `Take` are the engine,
as far as the code sees it: the first two call `on_entity_created` and
`on_entity_deleted`. `LevelShutdown` is the whole hook with the engine's own
part, which removes the entities, before it. `Frame` is `Hooked_FrameStageNotify` from its
beginning to the end of the walk; it is one step because everything in it and
all other steps but the menu's run on the main thread. Not in it: the HUD refresh at its
start, the materials' refresh inside `ChangeWeapon` and `ChangeKnife`, stickers
and StatTrak values, and the gloves after the walk. A configured knife is one
value, though the menu sets model and skin in two assignments (see the
hazards).

**The runs.**

* `tracker_world` (two indexes, symmetric; entities, levels, teams and lives
  without bound; one change of the hand, two presses or releases of the key,
  one kill, both random options on): `EachOnce`, `FitsTable`,
  `OwnGunsTracked`, `OnlyOwnDressed`, `OneChangePerRequest`, and the refinement
  `VectorIsARegistry`. Two indexes have one reused while the other is live or
  dropped; an index has nothing to do with a third one, except for the length
  of the vector, whose bound is proved for any table.
* `tracker_dress` (one index, two kits, two changes of the configuration): under
  fairness of `Frame` and `Describe`, `OwnGunsGetTheirSkin`. Guns are dressed
  independently of each other, so one index, reused without bound, has
  every case. Fairness is that the engine draws frames while a level runs, and
  has an item's data some day; deaths, levels, teams and the user are not fair.
* `tracker_aim`: expected to fail. "This function will change skin on current
  weapon" (`Hooks.cpp:532`): a request that the weapon in hand cannot take stays
  pending (`FrameStageNotifyHook.cpp:142`, `316`, `340`), and goes to the weapon taken next.

**The abstract specification.** `WeaponRegistry` is what the vector is for: a
set of tracked indexes, each of an entity that is present, from which only the
end of the entity removes what is owed to the player; the frames may forget the
rest. The refinement maps `present` to the indexes in use, `owed` to the
player's guns the listener heard of, and `tracked` to the indexes that occur in
the vector. It fails as soon as a deletion leaves its entry behind.

**Proved** (`WeaponTrackerProofs`): all five invariants, `OneChangePerRequest`
and the refinement `VectorIsARegistry`, from `TrackerAssumption` alone. Of the invariants only one fact had to be
added, `TrackedExist`: the vector has no index of an entity that is gone. It is
what makes a creation find its index absent (`EachOnce`) and grow the vector by
exactly one over its live elements (`FitsTable`, with three lemmas on the
cardinality of `Live`). `FrameEffect` says once what a frame may change;
`FrameKeepsInv` needs nothing else of it.

## 5. `Gloves`

**State.** Gloves are an entity, a wearable. `entity` is the engine's list of
them by handle; of each it has whether the changer created it, the look it was
given (`attr`) and the look with which the player last put it on (`worn`).
`slot` is the handle the player keeps (`GetMyWearables()[0]`), `created`
is `created_wearables`, `force`, `flag` and `wait` are
`need_forceupdate_for_wearable`, `wearable_random_model_not_setted` and how far
`wearable_set_random_model_tick` lies ahead. `conf` has per team a look (glove
and paint kit) and a wear (which stands for the seed too). `left` and `behind`
are history.

**Steps.** `Frame` is the part of `Hooked_FrameStageNotify` from the lookup of
the wearable to its end: restore the handle (`Restored`), then release (`Hide`), go on
with the phases (`Show`) or create and go on (`Make`, `MakeFails`). The menu and the frame
run on different threads, one drawing and one frame being a step each. `Give`, `Vanish`,
`Overwrite`, `ChangeLevel`, `Join` and `SpawnOrDie` are what the engine and the
server may do to the entities, the handle and the player. A handle that is free
may be taken again; that a new one equals a stale `created_wearables` by
chance is possible here as it is in the code.

**Time** is only what the second phase compares it with: `wait` counts down from
2 and stays at 0 when the planned tick has passed. In a new level the tick count
starts again, so a planned tick may lie further ahead; `Late` bounds how far.

**What holds and what does not.** `ShownIsConfigured` says that a frame that
finds nothing to do leaves the gloves worn as configured, with two
exemptions. The wear may be another one (`behind`) if its change was not
announced, as when a configuration is loaded, or announced between the phases,
because the second phase clears the announcement (`FrameStageNotifyHook.cpp:533`) and only glove and paint kit are
compared. And a wearable whose place in the player's handle the server's own
gloves took in the middle (`left`) may come back with its second phase used up
by the others. `LosesNoneOfItsOwn` has one exemption of the same origin: the
release forgets both handles and releases the one in place. What is put on may be bare
for two ticks, when the phases were interrupted by a death; `GlovesAreShown`
is that this does not last, with the same exemption for a wearable that came back (`left`).

**The run** `gloves` (two handles, two looks, two wears, one team with
gloves and one without, started at any moment of a game): two changes by the user
and three events of the game, which is a death, the next life and one
intervention of the engine in any order and between any two phases. Two
handles have a lost wearable beside the current one.

**Fairness.** Weak fairness of `Frame` and `Tick`: while a level runs, the engine's frames
and ticks go on.

**Proved** (`GlovesProofs`): the three invariants and `LosesNoneOfItsOwn`, from
`GlovesAssumption` alone. One flag serves all wearables, so the invariant says that only one
wearable counts (`OneInPlace`: all that were never pushed out of the handle are
the one the next frame works on), that its look, given and not worn, means that
the second phase is to come (`RefreshGoesOn`), and another wear that the first is, or that the change
went unnoticed (`WearIsKnown`). `RefreshKeeps` shows that each phase leaves
such a wearable in a phase that goes on; there is one lemma per other step.

## 6. `SkinRefresh`

**State.** `gun` and `knife` are the player's: `fields` is what the handler or
the server wrote (`m_nFallbackPaintKit`, seed, wear, name), `look` what the
engine composed the material of, or nothing (`m_bCustomMaterialInitialized` is
false). Of the knife there are also the model and whether the listener's vector
has it. `conf` has the entries of the player's team; an entry is a kit and a
`detail`, the seed and wear that `ChangeWeapon` and `ChangeKnife` copy with the kit, and a
`name`. The name is copied only if the entry has one (`Written`,
`SkinChanger.cpp:125`, `282`), so the fields may carry the name of another entry;
materials are composed of the rest (`Paint`). `asked` is that the client's delta tick is -1, which is what
`ForceFullUpdate` does. `due` is how far `set_random_model_tick` lies ahead, 0
when it is past or cleared. `need` is `need_forceupdate_for_knife`, `drawing` the part of
the menu between the change of an entry and its request. `missed` and `silent` are
history.

**Steps.** The menu picks (`PickGun`, `PickKnife`, `PickKnifeSkin`) and asks
(`FinishGun`, `FinishKnife`), two steps because the main thread may walk the
weapons in between; choosing the default knife takes the skin away only in the
second (`Menu.cpp:731`, `832`). `Load` is `read_thread`, an entry at a time. `Frame` is
a walk, with a random skin drawn by it or not; `FullFrame` is the walk over the
entities that the full update made anew. The engine composes materials, lets the player
die and gives him a knife per life (`Spawn`); `SwitchTeam` is the
change of team with its listener.

**What holds and what does not.** The handler compares paint kits only and
throws the material away only when it sets one, for a living owner, and
for a knife in the one frame of the planned tick. `MaterialsAreFresh` says that this
is enough with two exemptions the code has (`missed`): the owner was dead,
or the tick was skipped. `DetailsAreAskedFor` says that whatever the frames do
not bring is brought by a full update the menu asks for: another detail or name with the
same kit, no skin any more, or another kit without a name, with which a frame would leave the
old name (`Dressed` is what a frame leaves, `GunBehind` that this is not the entry). What loads, changes
of team and random skins leave behind is exempt (`silent`), since the code asks for
nothing there: a load that replaces a named skin by an unnamed one of another kit
leaves the old name on the gun. `KnifeIsBroughtBack` is about the fall-through of
`FrameStageNotifyHook.cpp:383`, which drops a knife from the vector for good: the request
of the choice that follows brings it back.

**The run** `skin_refresh` (two kits, one with two details and a name, the other without a
name, one knife model, two changes): two changes are a pick and the one that
gets in its way. Frames, skipped ticks, deaths and compositions are not bounded.
With a second model the knife's states only repeat.

**Fairness.** Weak fairness of the end of the menu's drawing, of the full update
and of the composition of materials: the render thread goes on, the server answers a request
and the engine composes what it shows. Not of `Frame`: what is picked arrives
by the full update, whose own walk sets the fields.

**Proved** (`SkinRefreshProofs`): the four invariants, from `RefreshAssumption`
alone. They are inductive together with two facts: while the knives are drawn
after a pick, the need for a full update is there (`NeedWhileDrawing`), and a
knife about to be dropped for its model has the same excuses as one that
is dropped (`KnifeExcused`).

## 7. `Overlay`, `DeviceObjects`

**State.** The options of the menu, `Hooked_Present`'s `isDown` and
`saved_hwnd`, the input system's handle (`attached`: it is the game's window),
the lock of the cursor, the keys that are down, those the filter has seen
pressed (`vecPressedKeys`) and those the game believes to be down
(`buttons`). `frame` is how far `Hooked_Present` is, `message` what the main thread is
in the middle of, `accept` how far `accept_thread` is; `starting` and
`creating` count `on_reset` threads. `stale`, `crossed`, `lost` and `owed` are
history.

**Steps.** Cut where a thread reads or writes what another one writes:
`Hooked_Present` in `Sample`, `Toggle`, `Toggled`, `Swap`, `DrawMenu`, `Looked` and
`Shown`, the filter in `KeyDown` or `KeyUp` and `Dispatch`, the console command
in three steps, and `auto_accept` in `CloseMenu`, `ForgetMenu` and `Click`. The game's keys change
only by messages the filter passes on, and those are what `Sample` reads: a key
that opens the menu is thus sampled, one that closes it is filtered.

**The run** `overlay` (the menu key; presses, frames, events and clicks without
bound; one command or reset): escape differs from the menu key only in that
`Sample` does not look at it, and the safety invariants, also checked with
both keys, are proved for any set. One reset beside one `Present` is what can overlap
with it. Two `on_reset` threads never overlap in this run; with a second call the liveness
takes too long. That the menu stays hidden only while some `on_reset` is at work, whatever their
number, is what `NothingIsForgotten` proves. `InputFollowsTheMenu` is that a menu closed for good leaves
the game its handle and a locked cursor, `OpenMenuIsDrawn` that it is
drawn as long as it is open, resets or not, `MatchIsAccepted` that no
interleaving of the menu with the click loses a match, unless the user opens the
menu again and again.

**Fairness.** Weak fairness of `Hooked_Present`, of `on_reset`, of a message once
begun and of `accept_thread`'s own steps: the game draws, and the system runs every
thread. Strong fairness of `LockCursor` and `Click`, which need the main thread between two
messages: it is there again and again, never all the time. That the foreground loop of
`auto_accept` ends is part of the fairness of `CloseMenu`.

**Proved** (`OverlayProofs`): `TypeOK`, `ReleaseReachesTheGame` and
`OpenMenuLooksAtPlayer`, for any set of keys. The invariant adds that the keys the filter has
seen pressed are those that are down (`PressedAreDown`), that a release in the filter has closed
the menu unless it was opened since (`ReleaseCloses`), and that a press in the
filter is of a key that is down (`PressIsDown`). `NothingIsForgotten` is the safety
half of two of the liveness properties, for any number of resets and commands: a match
that is owed keeps its request and its thread (`OwedIsRequested`), and the menu is hidden only
while some `on_reset` is at work (`HiddenIsCreating`).

**`DeviceObjects`** is the inside of `on_reset`: the font texture, created by
the render thread when it finds none and by `on_reset` whether it does or not.
The vertex and index buffers, which one thread uses, are left out. The run
`device_objects` finds `NothingAliveAtReset` violated: `CreateFontsTexture` begins by
forgetting the texture there is (`imgui_impl_dx9.cpp:269`), so that one of
two is alive, and unknown, at the next reset, although the comments of
`ResetHook.cpp` (17-26) want everything released. With one thread and
two textures the shortest case is found; more adds nothing to a violation.

## 8. `HookLifecycle`

**State.** Where each slot leads (`slot`), of which the original is stored
(`known`), and the next statement of `Initialize` or `Restore`. The game may
call through any slot at any time; a hook that returns before its
original is known calls null (`fallen`).

**What it shows.** `Initialize` mostly hooks a slot first and stores its original
afterwards: the state where a call in between ends the game is in the model, but no
text promises otherwise, so it is no property. `Restore`, under the
comment "Remove the hooks" (`Hooks.cpp:993`), writes the address of
`g_fnOriginalPresent` where its value belongs: the run `hooks_restore` finds
`RemovedHooksAreGone` violated. The step after the surface's table
dereferences `g_pDataCacheHook`, which nothing ever sets, so that the rest
of `Restore` is not reached (`"use null"`).

## 9. What is checked and not proved

Liveness needs fairness and ENABLED and is checked by TLC only:
`RequestsEnd`, `OptionsReachDisk`, `OwnGunsGetTheirSkin`, `GlovesAreShown`,
`PickedGunIsShown`, `PickedKnifeIsShown`, `InputFollowsTheMenu`,
`OpenMenuIsDrawn`, `MatchIsAccepted`. Of `RequestsEnd` and of the last two the part
that is safety is proved (`EveryPassEnds`, `NothingIsForgotten`). Every other property of the passing
runs, invariants, action properties and the two refinements, is a theorem.

The violated properties are false and have no theorem. `DeviceObjects` and
`HookLifecycle` state nothing else and have no proofs.

`StoreIsAtomic` is run in `config_saving` only. It also holds in the instances of `config_serving`
and `config_autosave`, which add nothing to it, and takes too long in the one of
`config_unload`, whose threads the theorem covers.

## 10. What is not modelled

* **The single-producer queue**: nothing calls it.
* **Game coordinator messages and the inventory**: their hooks are commented out
  or built with `_PREMIUM_VERSION` only, whose definition is commented out
  (`Hooks.cpp:25`, `Menu.cpp:12`).
* **Animation remapping, sound and model replacement, catalogues**: stateless
  lookups in tables, with no second definition to compare them with.
* **Copying a function table, page protection, `RecvPropHook`**: memory
  layout and processor code; `HookLifecycle` has what they do to a slot.
* **The files' layout** beyond what the merge tells apart, stickers, names,
  clan tag, sky, what the menu draws.
* **Undefined behaviour** of the races on vectors (`config.weapons` while it is
  walked): memory access with any outcome at all, listed among the hazards.
* **Code that is commented out or has no caller**: partial saves, statistics,
  most of the network and the banners.

Of the repository's lines nearly all are vendored or generated
(`*.pb.cc` and `*.pb.h` twice over, ImGui, jsoncpp, the DirectX and engine
headers) and no behaviour of this program's own; a map of its hand-written
logic is a small share of them.
