# Pocket Physics: specification and proofs

Pocket Physics is a Nintendo DS game: the player draws objects with the stylus,
pins them together, and lets Box2D simulate them. This directory holds a TLA+
model of the program's core (`src/source`) and of the parts of the libraries that its
promises rest on (Box2D's convex decomposition, broad phase and contacts, libfat's cache
and allocation table, in `src/research/reconstruction/v06/dependencies`), the instances
TLC checks, and proofs that TLAPS checks.

## The system

| Component | State | Operations | Properties that make it correct |
|---|---|---|---|
| Scene: `World`, `Thing`, `Pin`, the two Box2D listeners | array `things`, a pin's `thing1/2` and `b2joint`, `b2body`, `mouse_joint`, `invisible`, the Box2D world | add, remove, pin, grab, drag, letGo, makePhysical, makeUnphysical, step, reset, save, load | pointers and Box2D agree; a pin never outlives its things; a pin holds whenever it can; the array never overruns |
| `Canvas` | pen mode, the stroke (`drawing`, `currentthing`, `move_connected_things`), scroll position | penDown, penMove, penUp per mode; scrolling; drawing | a stroke owns the thing it draws; nothing stays half drawn; a drag ends |
| Program (`main.cpp`) | `state.simulating`, dialogs, file name, frame counters | play, pause, stop, zap, load, save, L+R, main loop, VBlank interrupt | stop restores the drawing; drawing and simulation do not disturb each other |
| Shapes (`polygon.cpp`, `canvas.cpp`, `b2Polygon.cpp`) | vertices and place of a stroke, the pieces it is cut into | sample a stroke, simplify it at penUp, triangulate, join to convex pieces, keep the usable ones | nothing of the drawing is lost or covered twice; pieces are convex; cutting ends; a box is solid |
| Box2D broad phase and contacts | sorted ends of boxes on two axes, pair table, contacts, frozen bodies | bodies and joints come, move, freeze and go, in and between steps; queries | the axes and the hash table are sound; a contact for each pair that may collide; queries are exact |
| libfat | pages of the sector cache, allocation table, root directory, the open file | open for writing, write, close, read a whole file, power loss | what was closed reads back; clusters are neither lost nor shared; other files survive a power loss |
| Tools (`tools.cpp`) | none | base64, roots | a coding can be undone |
| The rest of Box2D, TinyXML, libnds, ulib, TobKit | external | used through their interfaces | |

How they interact. The main loop calls `World::step` when the simulation runs,
then `handleInput`, which hands the stylus to TobKit; TobKit calls the pen
handlers of `Canvas` or the button callbacks of `main.cpp`, and those call
`World`. Box2D calls back while it works: `Violation` for a body that left the
world (its thing is marked, and made unphysical after the step) and `SayGoodbye`
for a joint that dies with its body. `penUp` hands its polygon to Box2D's decomposition;
each body's shapes have boxes in the broad phase, which `getThingsAt` queries. `save` and
`load` use newlib's buffered files on libfat. The VBlank interrupt draws the scene, and so
reads it in the middle of everything else.

What is hard: the same joint is known to Box2D, to a pin or to `mouse_joint`, and
each side can destroy it; things leave the world during a stroke; L+R resets the
world in the middle of a stroke; a failed `makePhysical`, a full array or a damaged
file leave an operation half done; the order of the array decides whether a reset
finds the bodies that pins need. A body freezes in the middle of a step, half of its shapes
moved and pairs of them waiting in a buffer; whole sectors pass by a cache that may hold the
same ones; power may go between any two sectors. `PROJECT.json` lists each hazard at its line.

## Modules

- `Scene` is the abstract specification: a drawing, what each pin is put through,
  which objects do not take part in the simulation (`away`), and the rule that a
  pin holds exactly while none of its objects is away (`Holding`).
- `World` models `class World`, one action per method. Addresses are model values:
  an object (`Polygon` or `Circle`) or a pin. The array is the set `things` with
  its order `before`, which is all that loops over the array depend on. Pointers
  are kept apart from what they point to: `b2body` and `b2joint` are the set
  pointers, `bodies` and `joints` what is in the Box2D world. `Gone` is what
  `b2World::DestroyBody` takes along, `PointersWithout` what `SayGoodbye` then
  clears. `Attach` is `World::pin` on a set of pins. `heap` records `new` and
  `delete`. `SceneSpec` states that World implements Scene.
- `Canvas` models the pen handlers. Geometry is abstracted: what lies under the
  stylus, whether a shape is too small and whether its decomposition fails are free
  choices. `Connected` is `getConnectedThings` as the smallest closed set.
- `PocketPhysics` composes them with the buttons, the L+R keys and the simulation
  step. `vars` is the state of all three.
- `VBlankDraw` takes the same calls apart, statement by statement, to see what the
  VBlank interrupt would draw between any two of them. `todo` is what is left of the
  call at work; a statement that calls a method is replaced by that method's
  statements, so recursion (`remove` removes pins) and callbacks (`SayGoodbye` in
  `DestroyBody`) need nothing special. Here the array is `slots` and `n_things`, with
  the word behind the array, which `remove` reads. The handler changes nothing that is
  modelled, so it is a predicate: `DrawSafe` says what `drawThings` must find.
- `MainLoop` models the loop of `main()`, statement by statement, with the interrupt
  that counts frames, samples keys and swaps the two screens, the display capture that it
  orders and the hardware ends (`CaptureDone`), and the five busy waits of `b64screenshot`
  (`Poll` for the swaps, `PollCapture` for the capture).
- `Sketch` models the two loops of `World::save` and `World::load` with their tables:
  `idtable` from address to number, `id_table` from number to address. An element of
  the file is its kind, its number and the numbers a pin refers to. A loaded thing is
  known by its place in the new array, so that loaded things can be compared with saved
  ones.
- `Storage` models what happens to whole sketches: the callbacks of the dialogs in
  `main.cpp`, and the directories that `save` and `load` choose. `MadeDirs` is the
  chain of `opendir` and `mkdir`.
- `Geometry` holds the tests of `b2Polygon.cpp` as operators on sequences of integer points
  (`IsEar`, `CanJoin`, `Merged`, `IsUsable`, ...). `Shapes` uses them: a stroke is sampled
  point by point, `PenUpLine` and `PenUpBox` make of it what `penUp` does, and the
  decomposition goes one part, ear, merge or shape at a time.
- `PairTable` is `b2PairManager`, the hash table with its free list and its buffer, and
  `BroadPhase` is `b2BroadPhase` on top of it, both as operators that return the structure
  after a call. `Collision` drives them as `b2World`, `b2Body` and `b2Shape` do: one action
  per call that `class World` makes between the steps, and in a step one action per body
  that is synchronised. `Overlaps` is the abstract specification of the broad phase: it has
  reported exactly the pairs that meet, but may be late for boxes that only moved.
- `DiscCache` is libfat's `cache.c`, `Fat` its allocation table, as operators on the card
  with its cache; `CardFiles` has the calls of `fatfile.c` and the root directory as actions.
  `passed` keeps every content that the card had during a call, one for each sector
  written: power may go at any of them.
- `MCWorld`, `MCPocketPhysics`, `MCVBlankDraw`, `MCSketch`, `MCShapes`, `MCCollision`,
  `MCCardFiles` give TLC sketches, places, boxes and symmetries; the modules `*_proofs` hold the
  proofs about the module they are named after; that World and VBlankDraw implement Scene is in
  `PocketPhysics_proofs`, with all else about World, and in `VBlankDrawScene_proofs`.

The three views meet in `Scene`: `World`, the program and, at the ends of its calls,
`VBlankDraw` are proved to implement it. `Sketch` starts from the
arrays that `PinnedPrecede` of `World` allows, and what it calls a round trip is what
`Load` of `World` takes for granted: that a sketch comes back as the same scene.

Modelling decisions:

- *Undefined behaviour.* Where the code follows a null or freed pointer or writes
  behind a table, `fault` records which, and the model stops (`Halted`). Writing
  through the null `userData` of the mouse joint in `SayGoodbye` hits address 0x0
  plus an offset and may go unnoticed: both outcomes are allowed. So are they for
  a loaded pin, whose `type` attribute `Pin::toXML` never wrote and `strcmp` reads.
- *Non-solid objects* exist in the code but no button or sketch makes them; they
  are left out.
- *A sketch* is what `save` can write: at most `MAX_THINGS` things in array order,
  pins after their things. A damaged one (`valid = FALSE`) stops at an element that
  load does not know. Then the constructors' uninitialised `invisible` is a free choice.
- *The stylus* is at one place: TobKit sends a stroke to the widget it began on, so
  buttons (`NoStroke`) are not pushed during a stroke. Keys are: `ResetKeys` has no
  such guard. TobKit is taken to deliver whole strokes, a penDown, moves and a penUp.
  Samples reach it from `handleInput`, which (see `MainLoop`) can handle one twice,
  and misses those that a slow turn of the loop slept through.
- *Numbers* in `Sketch` start from whatever `malloc` returned: `idtable[0]` is any word,
  also the address of a thing, and `RoundTrip` says what that costs. `id_table` has the
  word behind the table as its last entry, which `IdTableHolds` says is not its own.
- *Dialogs* are modal in `Storage`: an open one takes the stylus. The box that
  `askZap` would open needs the motion pack then, and is left out. A name is one that
  `handleSaveDialogOk` accepts: with an empty text it does nothing, with one or two
  characters `substr` throws. `fclose(NULL)` is taken to do nothing. The card may be full
  at any time, and a file that does not fit may be left as it was, lost or damaged.
- *Geometry is exact* where the code uses single precision. Equal sines are the one place
  where rounding decides: any of the best ears may be clipped. Fixed point and integer
  roots are modelled as what they compute (`Normal`, `Root`, `Quotient`).
- *What the solver does* to bodies is open in `Collision`: in a step, each awake body may go
  anywhere. A box stands for what `ComputeSweptAABB` returns. `World::step` makes the bodies
  that froze unphysical before anything else, so `Free` asks for `marked = {}`.
- *A unit* in `CardFiles` is a piece of a sector that is written at once, so that writes can
  start and end in the middle of a sector. A file is written through one stream from
  `fopen("w")` to `fclose` and read whole, as `save` and `load` do.
- *Only an unfinished box* may fail to decompose in a reset: other things in the
  scene became physical before, with the same vertices.

## What is checked

| Run | Instance | Shows |
|---|---|---|
| `world` | 3 objects, 2 pins, capacity 4, four sketches | `BodyOwner`; `PinnedPrecede` (things before their pins, no pin outlives a thing); `JointOwner` (no dangling or lost joint pointer of a pin); `PinHolds`; `SceneSpec` (World implements Scene) |
| `program` | the same, two sketches | `StrokeOwns`; `DragEnds`; `VisibleIsPhysical`; the action properties `StopRestores` and `MoveKeepsPins` |
| `mouse_joint_alive` | 2 objects, 2 pins, capacity 3 | a violation: `mouse_joint` dangles after the grabbed object left the world |
| `vblank_draw` | 2 objects, 2 pins, capacity 3, two sketches | `CarefulCallsDrawSafe` (drawing, pinning, moving, stop and zap can be interrupted anywhere); `PinsThreadSafe` (in every call); `ArrayIntact`; `SceneSpec`; `CallsReturn` (the loops that change what they iterate over end) |
| `bodies_thread_safe` | as `vblank_draw` | a violation: a body is destroyed while its thing points to it |
| `main_loop` | counter up to 3 | `StepNeedsFrame`, `HandledTwiceAtMost`, `WindowNotCaptured`; `KeysAreRead`, `SimulationRuns`, `SwapsAreSeen` |
| `sketch` | 2 objects, 1 pin, `MAX_THINGS` 3 | `NumbersExist` (a number is that of a thing written before); `RoundTrip` |
| `id_table_holds` | same | a violation: `load`'s table is one entry short for a full array |
| `storage` | 2 names, 2 drawings, any directories | `StoredIsOffered` (what was stored can be loaded); `LegacyAsked` (nothing in the old directory is lost without a yes); `SavesReachCard` |
| `shapes` | 9 points, strokes of up to 6 | `NoZeroEdge` (no segment that `makePhysical` divides by is empty); `AreaKept`, `PiecesConvex`, `SimpleIsCut` (what the cutting keeps); `BoxIsSolid`; `CutEnds` (a variant of the loops) |
| `collision` | 2 bodies of 2 and 1 shapes, 1 joint, 2 places | `AxesValid` and `TableSound` (Box2D's own Validate, also in the middle of a step); `ContactsCollide`; `QueryExact`; `OverlapsSpec` (the broad phase implements Overlaps) |
| `card_files` | 2 files, 5 clusters, 2 pages | `ReadBack` (what was closed can be read, with the card in or after a restart); `ClustersOwned`; `OthersSurvive` (power loss while one file is saved) |

Beside these the modules state what TLC refutes or proofs settle. `PinFindsBodies` (World:
re-pinning with the second body gone), `SlotsThreadSafe` (VBlankDraw: `remove` lets the
interrupt draw what lies behind the array), `ExistingAsked` (Storage: a sketch in the new
directory is overwritten without a question) and `BodyHasShape` (Shapes: a thin line becomes
a body without a shape) do not hold: TLC shows how when one of them is added to the cfg of its
module's run. The type invariants, `Capacity` and `OneMouseJoint` were checked as the
modules were written and are proved below.

Bounds. The models are finite without any extra bound. Two objects and two pins are
the least in which pins form a cycle; the third object is pinned to none of them, or
extends the chain, and capacity 4 with five addresses makes the array full with
every kind of thing outside. Objects and pins are interchangeable, so the instances
use symmetry, except in `vblank_draw`, which checks liveness. `VBlankDraw` has one object
less: its capacity of 3 still overflows, and a removal still takes two pins along.
`MAX_LAG` stops the only counter; 2 frames of lag show everything, and the proofs do
not depend on it. `Sketch` starts from every array over its
addresses, a full one too. Two names let a save go past another sketch, two drawings
tell an old file from a new one. The sketches hold a pin to the
background, a pin through two things, and damaged files with and without things.

`Shapes` draws on nine points of a lattice with a step of `Unit` = 6 pixels, above and below the
code's thresholds of 5, 6, 7 and 10; `MAX_POINTS` = `MAX_VERTICES` = 6 are enough for notches,
lines that cross or touch themselves, pinch points and a full polygon, and Box2D's limit of 8
for a piece is the code's. `Collision` has one proxy and one slot of the pair table for every
shape and pair, two chains in the table, so that two pairs share one, a world of three cells
a side, time stamps that wrap around after 2, one joint, and two places: at the second
a part of one body and the other body are outside. `CardFiles` has five clusters of one sector,
one entry more for the cluster that libfat never uses, four entries in a sector of the table, so
that a chain crosses sectors, two cache pages for four sectors of metadata, two units in a
sector, writes of 3 and 4 units, files of up to 7; a count of page use above 0 is left out
when a file is loaded (`MaxCount`), to keep the ranks of the pages few. A run with two sectors in a
cluster, 4 clusters and files of 10 found nothing in its first 1.4 million states; it was not
finished and is not part of the project.

Disagreements that showed up while modelling and have no run of their own.

- Things: pins that `remove` takes along with their object are never deleted (`heap` of
  `World` keeps them), nor is a new thing that a full array refused.
- Files: with both sketch directories on the card `save` writes to the old one and `load`
  reads the new one; `StoredIsOffered` leaves that case out. A name of one or two characters
  ends the save dialog with an exception.
- Screenshot: the last wait of `b64screenshot` may never see the capture bit clear, because each
  interrupt sets it again (see Fairness).
- Loop: `done.txt` promises two steps at once when the simulation is behind, but the loop sets
  `accumulated_timesteps` to 0 and takes one (`ClearTimesteps`, `Step` of `MainLoop`).
- Drawing (`Shapes`): the length of a segment is rounded down, so for a straight continuation
  the argument of `acos` can exceed 1, and a point is added that should have been moved
  (`GoesOn`). The loop that removes close vertices (canvas.cpp:620) finds none in a drawn
  line, and compares with a vertex it may have removed. Only one last point goes when it is
  too close to the first.
- Cutting (`Geometry`): `IsInside` is strict, so an ear whose diagonal runs through a vertex is
  clipped and the pieces can cover a notch (`AreaKept` leaves such lines out with `General`).
  `MergeParallelEdges` counts identical points but does not mark them. The test for a
  wraparound in `ResolvePinchPoint` can never be true.
- Cache (`DiscCache`): `_FAT_cache_flush` returns `CACHE_FREE`, which is true, when a write fails.
- Table (`Fat`): `cluster < lastCluster` (file_allocation_table.c:252) does not link a new
  cluster behind the last one; a chain of a file that another driver wrote, not in ascending
  order, may reach it, and the cluster is then lost. libfat's own chains never extend from
  there, since a search that wraps around starts below it. partition.c:193 leaves the last cluster
  of the card unused.
- Full card (`CardFiles`): `_FAT_open_r` ignores that it got no cluster, and would write over the root
  directory: `Opened` requires one. A short `_FAT_write_r` leaves its position at the start of
  the old cluster, newlib's retry overwrites it, and `fclose` reports success: with
  `FullCard = TRUE` TLC refutes `ReadBack`.
- Power loss: the file being saved is not protected; its old entry may then lead to freed
  clusters. `OthersSurvive` holds up to that loss, not for saves after it.

Deadlock is checked in every run: the program can always take input, and `Halted`
stands for what follows a fault.

Each property has a seeded fault of the code, a definition with the comment
"Seeded fault" beside the one it replaces, under which TLC finds it violated.

Fairness. `World`, the composed program, `Shapes`, `Collision` and `CardFiles` state safety only
and assume none; that the cutting ends is a variant (`CutEnds`), not a fairness property.
`VBlankDraw` is weakly fair to `Statement`: the processor goes on with the call it is
in; no callback is ever due. `MainLoop` is weakly fair to the interrupt (hardware) and
to each statement of the loop. The busy waits (`Poll`) get strong fairness: the value
that one waits for comes back every second frame and lasts for a whole frame, in which
the processor reads it thousands of times, so it cannot miss it for ever. The last wait
(`PollCapture`) gets weak fairness only: `capturing` is clear from the last line of a picture to
the interrupt, whose `ulEndFrame` sets it again, and the processor may miss that moment every
time. So nothing here says that `b64screenshot` returns. `SwapsAreSeen` says that it reaches this
wait, and `KeysAreRead` and `SimulationRuns` name staying there as the only exception. Without the
exception TLC refutes both, and `at = "capture" ~> at = "copy"`; with `SF_vars(PollCapture)`, a
promise of the hardware that the code does not show, it confirms `at = "capture" ~> at = "copy"`
and `[]<>(at = "input")`. No button is fair; that some callback or none is called at `input` is.

## What is proved

For every set of objects, pins and sketches and every capacity, from
`ConstantsAssumption` alone (addresses are distinct, sketches are well formed):

- `WorldTypeCorrect`: `WSpec => []WTypeOK`.
- `WorldInvariant`: `WSpec => []WInv`, and from it `ArrayNotOverrun`,
  `BodiesOwned`, `PinsFollowThings`, `JointsOwned`, `PinsHold`. `WInv` is the
  conjunction of the invariants of the `world` run and is inductive: none of its parts
  is without the others. That a joint survives or dies with the right body needs
  `JointOwner` and `BodyOwner` (lemma `UnphysicalJoints`), that a reset finds the
  bodies needs `PinnedPrecede`, that a removed pin has no joint left needs
  `JointOwner` (lemma `PinFacts`), and that no joint stays behind a load needs
  `OneMouseJoint` (lemma `NoJointsLeft`).
- `WorldImplementsScene`: `WSpec => SceneSpec`. `WInv` makes the joints a function of
  the drawing and the bodies (`HoldingByDrawing`), before and after a step, so each
  action has only to be shown to change drawing and bodies as its counterpart does.
- `ProgramUsesWorld` and `ProgramKeepsScene`: the program's steps are steps of
  `WSpec` or leave the scene alone, so `Spec => WSpec` and `Spec => SceneSpec`.

- `StrokeInvariant`: `Spec => []PInv`, and from it all five properties of the `program` run:
  `StrokesOwn`, `DragsEnd`, `VisiblePhysical`, `StopBringsBack`, `MovesKeepPins`. Three more facts
  make the invariant inductive. `PinsPinned` (only the pin being drawn holds nothing yet) gives
  each pin of a reset the body it needs (lemma `AllAttached`, with `PinnedPrecede`);
  `HiddenInScene` lets a reset show everything; `MoveClosed` (a stroke moves all that is
  connected, lemma `ConnectedClosed`) brings the things of a moved pin along.

- From `LagAssumption` alone, `LoopInvariant` in `MainLoop_proofs`, and from it
  `LoopTypeCorrect`, `StepsFollowFrames`, `SamplesHandledTwice` and
  `ScreenshotWithoutWindow`. `Branch` follows the flag and the counter through the wait;
  `Samples` says that the second handling of a sample leaves the counter at zero; `Hidden`
  follows the hidden window through the stages of the display, one for each wait for a swap,
  and needs that no swap comes before the capture of a picture is over.

- From `SketchAssumption` alone, `SketchInvariant` and from it `SketchTypeCorrect`,
  `SketchNumbersExist` and `SketchRoundTrip`. The invariant says of each element written
  what it stands for (`Saved`), and of each thing loaded what it was (`LoadedAs`). The
  search of `save` needs no induction: an address is in the table at its thing's place
  and perhaps at entry 0, so one of these two is where the search ends (`SearchFinds`).
- From `StorageAssumption` alone, `StorageInvariant`, and from it `StorageTypeCorrect`,
  `StoredCanBeLoaded` and `LegacyNeverLost`. That a save is read back needs that `MadeDirs`
  never makes or loses the old directory (`MadeDirsFacts`), so `save` and `load` decide alike.
  `SavesReach`: with room on the card `MadeDirs` holds the directory that `save` chose.

- From `DrawAssumption` alone, `DrawInvariant` in `VBlankDraw_proofs`: `Spec => []DInv`, and from it
  `DrawTypeCorrect`, `PinsNeverDangle`, `ArrayStaysIntact` and `CarefulCallsStayDrawSafe`. None of
  the three properties is inductive, since between two statements most of what a call keeps is
  broken. `DInv` therefore says, for each kind of call and each list `todo` that it can have
  left, what its next statements rely on and what those in front establish: which thing is
  half removed, which body is about to die, where the hole is in the array that `remove` is
  closing (`Hole`, `Shift`). There is one lemma for each statement and each callback; most of
  them show that the rest of `todo` still finds what it relies on.
- On top of it, in `VBlankDrawScene_proofs`, `CallsKeepTheirAim`: `Spec => []CallInv`, and `StatementsImplementScene`,
  `Spec => SceneSpec`. While a call is at work the paper of `Scene` still shows `was`: the last
  statement of the call takes the step of `Scene`, and what the others did has to be known by then.
  `Sound` is what is true of pins, joints and bodies at any statement: a pin holds iff all its
  objects have bodies (`JointsHold`), except where `todo` has a statement to come that
  changes this (`Excused`). Whether that statement does so depends on those behind it:
  `Planned` says what each statement of `todo` relies on (that of a body about to be destroyed
  the object is hidden, made again or loses its pins; that a joint is destroyed before the pin
  gets another, and that no second one is made). `Aim` relates `todo` and the drawing to `was`,
  with one predicate for each call: of `remove`, that it touches only the thing and the pins
  through it (`EraseAim`); of `load`, that what it put into the array has a body or will get one
  (`LoadAim`). With `todo` empty nothing is excused (`AtRest`), the joints are a function of the
  drawing as in `WInv`, and the aim of the call is the step of `Scene` (lemma `CallEnds`). A
  null body that `pin` follows is its `Fail` (`FaultStops`).
- From `PointsAssumption` and `UnitAssumption`, `EdgesNeverZero` in `Shapes_proofs`:
  `SSpec => []NoZeroEdge`, for every lattice, every limit and strokes of any length. `SInv` adds
  what holds while the line is drawn. The points of a line stay at least `MIN_POINT_DIST` from
  their neighbours: a sample that moves the last point goes on in the direction of the segment,
  so the segment gets longer (`GoesFurther`); only the rounded quotient of `GoesOn` enters.
  Hence `penUp` thins out nothing (`AllKept`), dropping the last point leaves one that
  is apart from the first (`OpenedEnds`), and moving the line to its mean changes no length
  (`RecentredEdges`; that the mean is a whole number takes an induction over the fold
  behind it, `SumIsInt`). A box is spanned by its corner and the last sample, and `TooSmall`
  refuses it unless each side has six pixels (`BoxSides`).
- From the same assumptions `CuttingEnds`: `SSpec => CutEnds`. Its invariant adds that each part
  in `work` has vertices (`CutTyped`), without which a part could be dropped or split and leave
  as much to do as before. `ToDo` is a sum over `work`, a fold: that it grows by a part's own share
  when the part is put in front (`WorkCons`) follows from two sums over the same numbers
  being equal (`SumAny`), by the least set for which they would not be. `Grown`, the triangles
  that a piece leaves over, is a fold as well, followed step by step (`GrownShorter`).
- From the same assumptions and `MaxVertices > 3` (`b2_maxPolygonVertices` is 8), `BoxesAreSolid`:
  `SSpec => []BoxIsSolid`, with `SInv` and `BoxInv`. A box is described by a `Frame`, a corner and two
  vectors at a right angle; `TooSmall` makes each of them six pixels long, and `Named` names the other
  corners. A frame can be turned to start at any corner (`Turned`), so one lemma serves
  whichever ear is the best (`Clipped`, `HalfCut`). `BoxInv` has one predicate for each stage of the
  cutting, from `AtRim` to `AtShape`. The two triangles are joined to the four corners again
  (`TwoGrown`), which `MergeParallelEdges` leaves alone (`PieceMerged`); `PieceUsable` goes through every
  test of `IsUsable`, up to the distance of the centroid from the sides (`PieceMoment`,
  `PieceDeep`). With three vertices a piece could not be the box, so the hypothesis is needed.
- From `PagesAssumption` alone, what the sector cache shows, for any number of pages, sectors and
  contents: `GetSectorTransparent`, `WriteTransparent`, `FlushTransparent`, and
  `WholeSectorDisturbsOne` for writes past the cache. They hold of every `Sound` cache (no sector
  in two pages, no free page dirty); a card just mounted is sound (`MountedSound`) and every call
  keeps it so. A page may be stale, because whole sectors go past it, so they follow one sector
  at a time, `UpToDate` before and after the call. `OldOrSeen` is what a power loss relies on:
  no sector on the card is ever anything but what it was or what its readers saw. That a page can
  be found for each sector rests on the least element of a set of numbers (`LeastUsedIsPage`).
  These are theorems about calls. That the files never read a stale page depends on the chains
  of the table, and stays with TLC (`ReadBack`).

A guard of `World` states what callers promise. `Spec => WSpec` says nothing about a
caller that broke a promise (the action would be disabled), so the promises are
invariants of `program`, proved as above: `StrokeOwns` (the unfinished thing is not pinned and comes
last), `DragEnds` (a mouse joint is held exactly during a drag, so no other action
runs with one) and, in `world`, `BodyOwner` (what lies under the stylus has a body).

Only model-checked, and why. Liveness under fairness is out of the provers' reach: `CallsReturn` of
`VBlankDraw`, the three liveness properties of `MainLoop`. So is what a recursive definition
computes: everything about `Collision` and `CardFiles`, which follow chains and lists recursively
(`PairTable`, `Fat`). What the cutting keeps (`AreaKept`, `PiecesConvex`, `SimpleIsCut`)
for any closed line is geometry of the plane, areas and inclusions of triangles, for which there are
no lemmas to build on; for boxes `BoxesAreSolid` says what the program relies on.

## Not modelled

- Shapes: `Circle`, whose only state is a radius (its strokes are in `Canvas`); rounding of floats; the vertices of an open line's box
  beyond their integer values.
- Physics: which bodies move where, forces, sleeping, restitution, time of impact; the narrow
  phase (whether two shapes whose boxes meet touch). Proxies are as many as shapes: fifty lines
  of 63 segments would exceed `b2_maxProxies`, which only an assert guards.
- A sketch without a `<world>` element, on which `load` follows a null pointer (world.cpp:800).
- Which VRAM bank `ulEndFrame` maps where while the screenshot is copied.
- `Collision` runs with one joint and no static body: the refusal of pairs of static bodies and two
  joints between the same bodies are in the model and not exercised.
- libfat: seeks, appending, `file_extend`, removing, subdirectories, long names, a directory of
  more than one sector, FAT12 and FAT32, errors of the card. The program writes with `fopen("w")`,
  reads whole files and removes none.
- The look of the screen, sound, the motion sensor, the splash screen, calibration, the status
  window, base64; TinyXML, libnds, ulib and TobKit, which are used through their interfaces; the
  art, press and research material. They make up most of the repository's lines.
  `PROJECT.json` lists every component.

## Plan

Done: all modules above, and the proofs for all of them but Collision and CardFiles, of which the
cache is done. What would add most next:

1. Proofs: that `Fat` keeps chains apart and that the axes of `BroadPhase` stay valid, for which
   chains and lists have to be stated without recursion.
2. `CardFiles` after a power loss: mounting the card again with the damaged file on it.
3. `Scrolling` (bounds of the position), the sliding window of `fps`, `Base64`.
4. The motion pack: `askZap` over an open box, calibration.
