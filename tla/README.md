# TLA+ models of esp8266-learning

Models of the programs in this repository that keep state: a bus stop display
(`esp_bus`), a chain of programs that carries temperatures from a 1-wire sensor
over ESP-NOW, a serial line and MQTT to InfluxDB (`ds18b20-espnow`, `espnow-rx`),
an MQTT thermometer (`mqtemp`), a test program for the sensor (`ds1820`), and
three programs that serve the interrupts of one pin (`gpio_int_simple`).

Every definition is a translation of code, and `PROJECT.json` names the lines.
TLC checks the runs of `PROJECT.json` on small instances; the modules `*Proofs`
hold theorems for all values of the constants, checked by TLAPS.

    tlc -config MCEspBus.cfg MCEspBus.tla
    tlapm EspBusProofs.tla


## The system

### esp_bus

| Part | State | Operations | What is hard |
|---|---|---|---|
| `main.c`, `lcd.c`: display refresh | `lcd_ram` (80 bytes), an event bit | two writers fill their zones and set the bit; a task of higher priority waits for the bit, clears it and copies | the writers preempt each other, and the copy if the I2C driver blocks; an update that arrives during a copy |
| `lcd.c`: screen contents | `lcd_ram` | seven `format_` functions, constant rows | texts cut at the width of a zone, terminators, limits between formats |
| `main.c`: bus times task | token, `is_last_token_valid`, `buses`, last distance, read time | wait for WiFi, log in, ask, show, alert, sleep | tokens that expire, failures at each step, alerts on a crossing |
| `wifi.c` | the connected bit | handler of system events | events are queued: the driver is ahead of the handler |
| `http_api.c` | one text buffer and an index, the client handle | two calls, event handler | bodies that are cut, missing or too long; what an earlier call left |
| `beep.c` | PWM channel | an alert is a task that beeps and deletes itself | alerts that overlap |
| `soft_lcd.c` | settings, `err`; the controller's cursor, which is read back | reset, configuration, bytes as two nibbles; text, line breaks, characters of one's own, switches | nothing but counting keeps driver and controller in step; rows that are not in the order of their addresses |

The bus task calls `http_api.c` and `beep.c`, waits for the bit of `wifi.c`, and
writes `lcd_ram`; the clock task writes its age; the display task drives
`soft_lcd.c`. All the sharing is through `lcd_ram`, two event bits,
`last_read_time` and the PWM channel.

### The thermometers

`ds1820.c` exists three times, in `ds18b20-espnow` (the youngest), `mqtemp` and
`ds1820`. It finds a sensor, asks it to measure, waits, reads nine bytes with a
CRC and makes a temperature of them, with a reset of the bus after each
transaction. The node of `ds18b20-espnow` boots, reads once, broadcasts one
packet and sleeps. `mqtemp` reads one sensor for ever, the test program of `ds1820`
several on one wire, in turn. What is hard: a wire that comes and goes between any
two operations, sensors that answer the reset in place of the one that is missing,
disturbed bits, signs and fractions, a wait without limit, a pull-up that may be
too short.

### The gateway

`espnow-rx` copies each packet in a callback of the WiFi driver to the heap and a
queue; a task prints it on the serial line and frees it. On the host,
`espnow-pub.sh` reads lines and publishes them with a time; `mqtt2influx.py`,
with a persistent QoS 2 session, writes them to InfluxDB, keeps those that are
refused in a file, and sends the file again on every turn of its loop. What is
hard: a slow consumer behind each buffer, crashes between two steps, writes that
fail after they have happened, lines that can never succeed, many messages on their
way at once when the script dies.

### The interrupt programs

`gpio_int_simple` has three programs, of which one is built. `pmla.c`, a logic
analyzer, reads the pin in its interrupt handler, queues the level and prints it
from a task. `simple_example.c` queues only that something happened, and its task
reads the pin. `main.c` counts rising edges, prints the count once a second and sets
it to zero. Edges wait for none of this: they fall together while the processor
serves an earlier one, and records that find the queue full are dropped.

### Not modelled

- `wificap`: one callback prints the headers of one packet and keeps nothing for
  the next. Its length arithmetic could only go wrong for a packet shorter than its
  checksum (`main.c:137`), and the radio delivers none.
- `espnow-tx`: the sensor node without the sensor, statement by statement;
  `SensorPrograms` has that part.
- `mqtt` (the SDK's example, adapted) and the MQTT client of `mqtemp`: all state is
  in the client of the SDK. The WiFi handlers of both are, statement by statement,
  the one that `WifiLink` models, but nothing in these two programs looks at the
  connected bit after start-up, so they are not composed with it.
- Programs that try one peripheral (`i2c`, `uart`, `led_on_off*`, `sleep-flash`,
  `tests`), the experiments before the 1-wire driver, the shell version of
  `mqtt2influx`.

Within the modelled files:

- Execution times. The 1-wire slots and the commands of the display controller are
  taken to last as long as they must; of `lcd_home`, which does not wait
  (`soft_lcd.c:113`), that is optimistic. The 740 to 750 ms of the strong pull-up are
  modelled by what they may do (`Slow`).
- Noise on the bits of a ROM, which `ds1820_init` reads once, and which does not
  change the sensor it then calls. Noise on the scratchpad and on the power bit is
  modelled.
- `lcd_reconfig` without a clear would leave the cursor
  moving left (`soft_lcd.c:65`); it is only called by `lcd_init`, which then clears.
- The text of JSON. A body has a meaning, is whole or cut, and has a length.
- `HttpApi` is not put in place of the calls of `BusTimes`. The product is too large
  for TLC, and what `HttpApi` shows for a single call is what `BusTimes` assumes of
  it, with one exception: the empty answer of `http_fresh` can make a login return the
  token that has just expired, whose call for arrivals then fails once more.


## Modules

| Module | Models | State and actions in the code |
|---|---|---|
| `LcdRefresh` | display refresh | `ram` is `lcd_ram` by zones, `ready` the event bit, `next` the index of the copy, `pos` how far each writer is. `WriteField` is one `format_` or `memcpy` call, `NewData` and `WaitNewData` are `lcd_new_data` and `lcd_wait_new_data`, `PutField` a turn of `update_lcd_physical`. `WriterRuns` is the priorities. |
| `ScreenMirror` | abstract display | RAM and panel; the panel catches up field by field. `LcdRefresh` implements it. |
| `LcdScreen` | screen contents | `lcd_ram` with its characters; `ShowBuses` and `ShowElapsed` are the writes of the two tasks. `Printed` is `snprintf`: cut, NUL, rest of the stack. |
| `EspBusOutputs` | display refresh, screen contents and beeper, side by side | `part` says which of the three moves; none of them reads anything another one writes, so that their steps need not be interleaved |
| `BusTimes` | bus times task | `pc` is the blocking call it is in. One action per call and outcome: `WifiAvailable`, `LoginOk`, `LoginFails`, `Retry`, `ArriveOk`, `ArriveFails`, `WakeUp`. `Tick` ages both the time shown and the data. |
| `WifiLink` | `wifi.c` and the station | `events` is the queue of the event loop. `OnStart`, `OnGotIp`, `OnLoss` are the cases of the handler; `OnLoss` ends at `esp_wifi_connect`, `ClearBit` is the rest. |
| `EspBus` | both together | share the link and the connected bit |
| `HttpApi` | `http_api.c` | `buffer` is what the text up to the first NUL says, whether it is whole, and whether it is this call's; `readed` the static index; `handles` the clients not cleaned up. |
| `Beeper` | `beep.c` | an alert task is its loop counters and the delay it is in; `pwm` is the channel |
| `Hd44780` | the display controller, external | interface width, half a byte, address counter, two memories, shift; its instructions |
| `SoftLcd` | `lcd_create` and the frames of `esp_bus` | one action per nibble: `Put`, or `PutFails` when the I2C transfer fails before or after the edge of Enable |
| `LcdText` | the other calls of `soft_lcd.c` | one action per call, byte by byte on the controller, including what is read back from it; `CreateChar` is `lcd_create_char` with its guard, for any number |
| `TextScreen` | abstract display for text | rows, a cursor, switches, a light, eight pictures. `Draw` changes a picture and nothing else; `Spill` is what the call with 8 does instead: eight characters over the first cells, in place of a picture. `LcdText` implements it. |
| `LcdLibrary` | both uses of `soft_lcd.c` | `program` selects one |
| `OneWireCrc` | `crc8` | as it computes, and the polynomial remainder it should be |
| `Ds1820` | the driver, its wire and the sensors on it | one action per piece between two changes of the bus; `program` selects the copy, `asked` the device of the call. `PullUp` is a wait of fixed length, in which a sensor in `Slow` may or may not come to an end, with whichever supply; one that lives on the wire then fails, one with its own goes on measuring. `LearnPower` may find the power bit turned over by noise. |
| `SensorPrograms` | the three `app_main` | boot, find each sensor, read, report, go on to the next, and what each does on failure |
| `EspnowRx` | `espnow-rx` | callback, queue, reading task, heap |
| `PacketChannel` | abstract gateway | packets accepted and handed on in order. `EspnowRx` implements it. |
| `Mqtt2Influx` | `mqtt2influx.py` | its loop, `on_message`, `send_rejecteds`; broker, client library and database as they use them. `session` is the broker's queue for the script, the first `released` of it past PUBREC; `received` is what the client library holds in memory, up to `InFlight` messages at once. `Deliver`, `Release` and `Complete` are the steps of QoS 2. `Dies` is a kill or the exception of undecodable bytes. |
| `Archive` | abstract script | the fate of each message: open, kept, stored, dropped, lost. `Die` takes at most `InFlight` open ones, and none that is kept. `Mqtt2Influx` implements it. |
| `EspnowBridge` | the chain | gateway, serial buffer, `espnow-pub.sh`, script |
| `GpioPin` | the pin | level, pending interrupt, the call of the handler |
| `Pmla` | `pmla.c` | handler in two steps, queue, task |
| `PinEvents` | `simple_example.c` | handler, queue, each read of the pin by the task |
| `FrequencyCounter` | `main.c` | counting, printing, setting to zero |
| `GpioPrograms` | the three | `program` selects one |

`MC*` modules give TLC values for the constants. Definitions that come just
before another one and add to its name what they get wrong (`ClearBitNever`
before `ClearBit`) are mistakes of the kind the properties are there to find;
nothing uses them.

### Conventions of the abstraction

- A FreeRTOS task steps from one blocking or shared access to the next. A step is
  finer wherever another task, an interrupt or the outside can get in between.
- `char` is unsigned, as in the compiler of this chip: a byte of the scratchpad
  compared with 0xFF means what it says.
- Uninitialised values (`buses` on the stack, `dev->power` from `malloc`) may be
  anything of their type.
- History variables (`armed`, `refused`, `dataAge`, `heard`, `measured`, `lost`,
  `edges`, `wiped`, ...) are read by no guard; they record what a property speaks of.


## Runs

| Run | Bounds | Shows |
|---|---|---|
| `esp_bus_outputs` | two writers, four zones, two texts, both kinds of I2C driver; twelve buses and nine ages on both sides of every limit; two alert tasks, real delays in ticks of 50 ms, one alert a second at most | no field is lost, copies are snapshots unless the driver yields, the panel follows the RAM; zones are respected, rows tell numbers, distances, times and ages apart as finely as documented; silence after the last alert, a lone alert undisturbed, alerts end |
| `esp_bus` | four distances around and on the thresholds, MAX_BUSES 2, ages 0 and 1 | token discipline, alerts, bit against link, nobody stranded, two events at most, recovery |
| `http_api` | buffer of 4, bodies of 0, 2, 3, 4, 5 bytes in any chunks, three clients | length limits agree, cut or mixed bodies never count, which clients leak |
| `soft_lcd` | 80 different characters, all states a restart may leave, one failed transfer; displays of 1, 2 and 4 lines, three calls of any kind, four texts with letters of one and two bytes, `linesize` 8, characters -1, 0, 7, 8 and 9 | reset synchronises, rows at their places, the library implements `TextScreen` |
| `sensor_programs` | a DS18S20 and a slow DS18B20 on the wire of the test program, either on the others; temperatures around zero and 85 degrees, noise of one to three bits on scratchpads, and on the power bit, both power modes, any wire | right sign and value of the right sensor, measured reports, resets in time, no hang, a turn for every sensor |
| `espnow_bridge` | a reading, a poisonous line, garbage; buffers of one; two messages in flight; kills while there have been fewer than two deaths | the gateway implements `PacketChannel`, the script `Archive`; ownership of the heap, delivery |
| `gpio_programs` | queues of 10, as in the code; ten rising edges | the last level is right, every edge is counted once |
| `bus_age` | as `esp_bus` | **violated**: once buses have been shown, a failed call makes them look new |
| `http_fresh` | as `http_api` | **violated**: an empty answer is the previous one |
| `lcd_far_away` | as `esp_bus_outputs` | **violated**: from 20 km on the text is `>20k`, not `>20km` |
| `lcd_ninth` | as `soft_lcd` | **violated**: `lcd_create_char` with 8 writes over the text |
| `lcd_recovery` | as `soft_lcd` | **violated**: one lost nibble spoils the panel until a restart |

Why the bounds are enough. `LcdRefresh`: a lost update needs one writer in front
of and one behind the copying position, which two zones of one writer and one of
another give; more texts only rename. `EspBus`: alerts compare distances with two
thresholds, so one distance on each side and one on a threshold are all cases;
ages matter only as equal or not, which 0 and "1 or more" tell apart. `HttpApi`:
lengths below, at and above size - 1 and size, and zero. `Beeper`: a pattern lasts
less than five seconds and alerts come a second apart, but a third task only adds
another owner of the channel, and with two slots a refused task happens as well.
`SoftLcd`: after one lost nibble the driver never resynchronises, so more faults
add nothing to the safety properties, which end at the first. `LcdText`: one call
brings the cursor to an end of a row or leaves a character half used, one prints
over it, and one more looks at the result; with `linesize` 8 the longest text is cut
inside a letter. The characters are the first and the last there are and the numbers on
both sides of the guard of `lcd_create_char`. `SensorPrograms`: of two sensors, one can be missing or out of turn
while the other answers, and one is a kind the other is not. `EspnowBridge`: with
buffers of one, three messages fill every place between the air and the serial line.
Two messages in flight are the first case in which one is in the hands of the script
while another is only in the memory of its client library, and both die with it; a broker
lets twenty through by default, and the theorem holds for any number. A second death
meets what the first one left behind at the broker. The three outputs
of `esp_bus` share no variable that one writes and another reads, so every behaviour of
them together is one of each, and they need not be interleaved. `GpioPrograms`: edges under the two programs
with queues are without bound, so the queues do fill up; for the counter, an edge
during a print, one on a pending interrupt and one more are all cases.

Deadlock is checked in every run but `soft_lcd`, whose second program ends after
its calls.

### Fairness

- Tasks and the event loop run (`WF`): FreeRTOS schedules by priority, and every
  task of these programs blocks in each turn.
- The clock ticks (`Beeper`): `WF(Tick)`; ready alert tasks go first, since
  theirs is the highest priority.
- The writers of `LcdRefresh` have strong fairness once inside a zone: the display
  task takes the processor from them again and again but always gives it back.
- The driver of the station starts and ends attempts to connect. Nothing obliges
  it to lose a link, and `Rejoins` has as its premise that attempts stop failing.
- The gateway's task and its callback run, and the UART sends (`WF(GatewayPrints)`).
- `Mqtt2Influx` has strong fairness for the branches of the script's loop, which
  it takes in turn, and for a write in a batch to succeed while the database stays
  in reach; the premise of `Delivered` says that it does stay, that the connection
  does, and that no poisonous line is in the file.
- In `SensorPrograms` a measurement that has begun ends, in each sensor that is there.
- In `SoftLcd` transfers that succeed go on (`WF(Put)`): the display task is given new
  data every second.
- `BusTimes` assumes that a token works at least once after its login.

### What the violated runs say

The five findings in `PROJECT.json` quote the comment each contradicts. Three
are about what the code does after something has failed: the age of the
data shown counts from the last call instead of the last answer (`main.c:103`), the text
of an earlier answer is still in the buffer (`http_api.c:35`), and `lcd->err` is set
and not read (`soft_lcd.c:402`). Two are a limit missed by one: `" >20km"` is a character
longer than its buffer lets pass (`lcd.c:111`), so that the unit is cut from a text that
stays distinct from all others, and `n > 8` lets a ninth character pass
(`soft_lcd.c:240`), whose address is the first cell of the text. No program of the
repository draws one.

### What the passing properties leave out

- `RowsTell` compares what is shown, not with the texts of the comments, but with what
  other values would show. `FarAwayTold` is about the text.
- `OncePerApproach` is about a second alert. That a bus seen exactly on a threshold may
  sound none is not covered, and the first comparison with a distance that no shown bus
  had is allowed to sound one.
- `FreshReading` does not speak of a slow sensor that is given the strong pull-up, on
  whichever supply (`PullUpMayFail`), nor of a wire that has been touched or whose power
  bit was misread since `ds1820_init`. Within that, `dev->power` may hold anything.
- `ValueRight` does not speak of a wire that is short-circuited, nor of negative
  temperatures in the older copies of the driver.
- `NothingForgotten` lets a death of the script cost what is past PUBREC and neither
  stored nor in the file: that is what QoS 2 and a callback that keeps nothing amount to.
- `Delivered` has as its premise that connection and database stay and that no poisonous
  line is in the file.


## Proofs

`DisplayProofs` (3143 obligations). `NoLostUpdate` speaks of the moment when all
wait and is not inductive. The invariant `IInv` says for every field and every
moment why it will still reach the panel: it shows its text already, or the
position of the copy is yet to come, or the bit is set, or a writer is inside a
zone that has the field behind it. From it follow `TypeCorrect`, `NothingLost` and
`CopiesAreSnapshots`, for any number of writers, zones (also overlapping ones) and
order of copying, from the assumptions that the layout names every field and zones
are not empty. `ImplementsMirror` is the safety part of the refinement: initial
states map to initial states, each step to a step or a stutter.

The rest of the module is about `LcdScreen`. `Kept` says of the RAM what `ReservedSpace` says of the
glass, by address, and every text the tasks put there has its width (`FieldsAreSized`:
the `memcpy`s copy as much as the zone is wide, whatever `snprintf` has made of the
value) and lies beside what must stay (`PutFixed`, `PutGaps`). `ReservedSpaceKept`
holds for all buses, ages, stops and lines, with no assumption about them.

What is in those texts is the longer part. A number is `Width` digits, each found by
dividing (`Number`), so no induction is needed: `PlacesAre` says what stands in each
place of a padded number, `PlacesTell` that five places determine a number of five
digits. For each form of a distance, a time and an age (`FormIs`, `TimeFormIs`,
`AgeFormIs`) the characters follow from these (`FormShows`, `TimeFormShows`,
`AgeFormShows`); none of them is a NUL or what the stack held, and no two forms look
alike: `DistanceTells`, `TimeTells` and `AgeTells`. With the invariants that the RAM
has only characters and that it holds the texts of the listed buses and of the age
(`RowsHeld`), `OnlyCharacters` and `ScreenTells` follow. That different forms look different
is all they say; which text a form has is not always the documented one. Numbers of buses below 100000 and
of the stop below 10000 are assumed (`ScreenAssumption`): the buffers behind `%5d` and
`%4d` cut longer ones, and then the zone tells only their first digits. Distances are any integers,
times and ages any natural numbers, the line any text (its first three characters).

`EspBusProofs` (383). `NoStaleToken` becomes inductive with the statement about
`is_last_token_valid` that protects the next turn of the loop: a token taken for
valid has not failed. `OncePerApproach` needs `ArmedInv`, which ties the history of
alerts to the last distance the task remembers; it allows an alert on a distance of
no shown bus only the first time that distance is compared. Both hold for all distances, any
two thresholds (also equal or exchanged) and any number of buses, and for every
behaviour of network, service and station.

`StationSteps` shows that every behaviour of `EspBus` is, for its station, one of
`WifiLink`. `StationInv` lists, for each state of the link, what can be
in the queue and what the bit says: idle with a loss or the start event waiting,
perhaps behind a `gotIp`; connecting with nothing waiting; up with `gotIp` waiting or
handled. `StationTries`, `StationBitTrue` and `StationEvents` are read off it. They need
no assumption: the driver drops and refuses as often as it likes.

`GpioProofs` (368). `QuietTruth` rests, for the logic analyzer, on what the pipeline
pin, latch, handler, queue, `last_level` holds at each stage: unless an edge is still
pending or being served, the newest level in it, if its record was not dropped, is
the level of the pin. For `simple_example.c`, whose records say nothing, it is that an
edge after the task's last read leaves something behind: a latch, a handler or a
record. `EdgesCountedOnce` is a balance that every step keeps. Any size of queue, any
number of edges.

`SoftLcdProofs` (6610). `SyncedOrError` becomes inductive with `Expected`: the modes the
controller may be in before each nibble of `lcd_reset`, which shrink to one, and
after it the half of a byte it holds. What the controller does with a byte it did
not expect matters only for its mode (`Interface`): the lemmas `CommandMode`,
`DataMode` and `ExecuteMode` say that no byte but a function set changes it, and
`JobBytes` that the driver sends none that does. Any contents of `lcd_ram`, and any
controller that is not at half a byte in 8-bit mode, which has no halves.

`EveryRowShown` (`FrameRight`) goes on from there. `Picture` says what the panel has at
every nibble while no transfer has failed: which instructions of `lcd_init` it has
executed (`Arranged`), where its address counter is, and which characters of the
frame it has, each in the cell the counter had when it came. The counter moves from cell
39 to cell 64 and from 103 to 0, which is why one address is enough for 80 characters
and why the rows are stored in the order 1, 3, 2, 4. `Ram` is a constant here: how it changes
under a copy is the business of `LcdRefresh`. `FrameTypes` are the types of this half of `LcdLibrary`.

`LibraryShowsText` is the refinement of `TextScreen` by the other calls (`ShowsText`),
the longest proof here, and `LibraryTypes` the types of both halves. The inductive
invariant `TextInv` is short: what the descriptor says of the light and the switches is
true of the light and the controller, and a controller under a living descriptor is
`Ready`: in step, 4-bit interface, lines as asked, moving to the right, and with its
address counter on a cell of the text. It holds between calls; inside `lcd_create_char`
the counter is among the characters, and the call puts it back. The proof goes up in
layers:

- Bytes. `_replace_UTF8_chars` walks over bytes, and the screen has letters.
  `LettersCopied` says that after the bytes of the first k letters the copy has the
  cells of the first k letters: a pair that the table replaces is always a whole letter,
  never the end of one and the beginning of the next (`LetterShape`). `TextShown` is the
  text that fits; for one that does not, `CutShown` finds the letter in which
  `vsnprintf` cut it and shows that what is left of that letter is printed as it is.
- Addresses. The controller counts 0 to 39 and 64 to 103, or 0 to 79; the screen has a
  cursor in rows of 20, 40 or 80 cells. `PlaceIs` and `NextAddress` relate the two, for
  each number of lines, including the ends of rows: row 1 of four goes on in row 3.
- Pages. A page is what the screen shows of a controller. `PutcPage` says that a byte of
  data types a cell on it (or, for a new line, moves to the next row: `NextLinePage`),
  `CreateCharPage` that drawing one of the eight characters changes a picture and
  nothing else, `NinthCharPage` that drawing the ninth types its rows from the
  first cell on (`CreateCharRuns` is common to both), `ConfiguredPage`
  that `lcd_create` ends with an empty one and the cursor at its beginning.
- Steps. Each call of `LcdText` is then a step of `TextScreen` or changes nothing it
  has; `lcd_create_char` is `Draw`, `Spill` or nothing, by its number.

The loops of the library are recursive functions in the model. What one computes is
found without an induction theorem: `LoopExists` makes the loop as a function from
rounds to states, `RunsOnce` shows that there is only one, and `UpTo` that a set with 0
and every successor has all rounds. All three rest on `LeastNumber`, which is about sets
and so can be cited. Assumed is `TextAssumption`: displays of 1, 2 or 4 lines; letters
that have the shape of UTF-8, one byte or a first byte and the ones that continue it;
and that a letter looks like its substitute in the table or like its bytes. Any texts,
columns and pictures, any integer as the number of a character, any length of the buffer.

`BeeperProofs` (346). `OwnedInv`: while the channel sounds, some task is in a beep and
will stop it; so no task, no sound (`LastOneSilences`). `SoloInv`: a task that has met
no other has no other beside it, and in its beep the sound is its own (`AloneItSounds`). The
types are not inductive alone: a counter stays in its pattern because a task outside
the pause has a beep left. Any number of tasks at a time, and alerts as close together
as `PollGap` allows, whatever it is.

`SensorProofs` (3059). `AddressAfterReset` needs the stages of the program beside those of
the driver (`Stage`): the driver's last transaction ends in a reset on every way out, and
`app_main` calls nothing that would use the bus in between. `ReportIsRight` follows the
scratchpad from the sensor to the report (`ValueInv`) and needs that the driver's
arithmetic undoes the sensor's, for every temperature in the range the property names
(`DecodeInvertsPadOf`). `ReportIsFresh` is the long one: that the measurement was waited for
depends on `dev->power`, so `SupplyKnown` says that on an untouched wire, where noise has not turned over the power
bit, a sensor without a supply is never taken for one with its own (the other mistake,
which `malloc` can bring about, costs a wait of fixed length, long enough for every sensor
that is not slow); that it was asked for at all depends
on who was listening after the reset (`ListenInv`); `MeasureInv` then holds from the convert
command to the reading. Any finite set of ROMs, any temperatures.

The noise is any that turns over an odd number of bits, or bits within eight that follow
each other (`NoiseAssumption`); that `crc8` tells it is proved. The register of `crc8`,
one bit later, has the remainder of one more step of the long division by x^8 + x^5 +
x^4 + 1 (`DivisionStep`), so what it has at the end is the remainder of the message:
`Crc8IsRemainder`, for messages of any length, by the loops of `SoftLcdProofs`. The
register is linear (`DifferenceRuns`): if what was sent and what arrives both pass,
their difference leaves it clear. An odd number of bits does not, since every step
keeps the parity (`ParityShifts`); bits within eight do not, since a step can
be taken back from a clear register (`ShiftBack`) until the register is the noise
itself. With `WholePasses`, the comment over `crc8` that a message with its code gives
0, that is `Crc8TellsNoise`, and `DeliveredAre` carries it to the driver: a scratchpad
that `ds1820_read_temp` accepts is the one the sensor had.

`HttpApiProofs` (154). The types include that the buffer is never overrun
(`TypeCorrect`). With `size` bytes of a body on the way, of which `sent` have
come, the handler has kept the smaller of `sent` and the room in the buffer; the
check of the content length then leaves no body that was cut. Whether the text in the
buffer is one body or a mixture follows from the same count. Any size of buffer, any
bodies, any chunks.

`EspnowBridgeProofs` (1098). In the gateway, the reader,
the queue and the callback form one sequence, the pipeline, which is the `waiting` of
`PacketChannel`: a packet enters at its back, moves along without changing it and
leaves at its front (`ReceivePipeline`, `EnqueuePipeline`, `TakePipeline`,
`PrintPipeline`). `ImplementsChannel` follows by appending to and taking from a
sequence, `EveryCopyOwned` by its being without repetitions; what comes down is new to
the heap because what is in the pipeline is no longer in the air (`Landed`). For the
script, the fate of a message is a function of where it is: the session of the broker,
the file, the batch, the hand of the client, the database. `ImplementsArchive` goes
through the branches of the loop and shows that each moves a message to another place
of the same fate, or makes one of the five steps of `Archive`; the invariant says which
places exclude each other. What a death takes along is among the first `released`
messages of the session, of which there are at most `InFlight`: that bounds its cost. `BridgeSteps` carries both results, and `TypeCorrect`, over
to the whole bridge. Any packets and messages, any size of queue, any number in flight, any
number of deaths.

Only model-checked: all liveness (`Mirrors` as a whole and the fairness in `HandsOn`,
`Recovers`, `Rejoins`, `AlertsEnd`, `GoesOn`, `Delivered`), which is out of the prover's
reach; and `FreshAnswer`, `AgeHonest`, `FarAwayTold`, `DrawingKeepsText` and `PanelRecovers`,
which the code does not keep.
The library's theorems about induction take an operator, which none of these provers can
instantiate; where a loop has to be followed (`LcdText`, `OneWireCrc`) the proofs go
by the least round at which a statement about a set of rounds would fail.


## Plan

The order so far: display refresh, then the bus task over the station, because the
rest of `esp_bus` meets there, then the parts below them, the thermometers and their
gateway; the abstract gateway, script and text display; the interrupt programs and
several sensors on a wire; then the proofs, of which those about loops (the text library,
`crc8`) came last. What could follow:

1. Liveness by hand: the arguments behind `Mirrors`, `Recovers` and `Rejoins` as ranking
   statements whose safety parts could be proved (a step of the display task brings
   `pos` nearer to the end, and so on).
2. Noise of two bits anywhere in the scratchpad, which `crc8` tells as well, since the
   register needs 127 steps to come back; the run has no such noise.
