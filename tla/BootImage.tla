------------------------------ MODULE BootImage ------------------------------
(***************************************************************************)
(* From the files to the memory the kernel starts with: the packer         *)
(* (Toolchain/ModulePacker/main.c) appends the modules to the kernel       *)
(* binary, and the kernel (moduleLoader.c, initializeKernelBinary) copies  *)
(* them out of its own end to where they run.                              *)
(*                                                                         *)
(* Memory is in cells of the size of a byte; a byte has Radix values and a *)
(* uint32_t takes Word cells.  That the boot loader reads the packed file  *)
(* into memory as it is, is taken from Pure64.                             *)
(*                                                                         *)
(* What the packer is given is assumed to suit the kernel, which nothing   *)
(* in either program tests: no more modules than it has addresses for, and *)
(* of a size that leaves the packed image below the first of them.         *)
(***************************************************************************)
EXTENDS Integers, Sequences

CONSTANTS
  Radix, Word,
  BUFFER_SIZE,       \* of write_file(), 128
  Kernel,            \* the kernel binary; it ends at endOfKernelBinary
  bss,               \* the next page behind it
  BssSize,           \* how far endOfKernel is behind bss
  Contents,          \* what a module may hold
  moduleAddresses,   \* 0x400000 and 0x500000
  memoryModuleAddress, \* 0x600000, where the heap begins
  Top                \* bound: cells of memory

VARIABLES
  files,          \* what the modules given to the packer hold
  readable,       \* whether access() lets all of them be read
  target,         \* the packed file
  memory,
  currentModule,  \* where the loader reads, and moduleCount once it is read
  moduleCount,
  module,         \* the loop of buildImage(), then that of loadModules()
  phase

imageVars == <<files, readable, target, memory, currentModule, moduleCount, module, phase>>
loader == <<memory, currentModule, moduleCount>>
packer == <<files, readable, target>>

\* What the k-th byte of a number counts, from 0.
Weight[k \in 0..Word] == IF k = 0 THEN 1 ELSE Radix * Weight[k - 1]

\* The memory map: kernel, packed modules and bss lie before the first module, the
\* modules in order before the heap.  Sizes and the count fit a uint32_t.
ImageAssumption ==
  /\ Radix \in Nat /\ Radix > 1 /\ Word \in Nat \ {0}
  /\ BUFFER_SIZE \in Nat \ {0} /\ bss \in Nat /\ BssSize \in Nat
  /\ Kernel \in Seq(0..(Radix - 1)) /\ Contents \subseteq Seq(0..(Radix - 1))
  /\ moduleAddresses \in Seq(Nat) /\ moduleAddresses # << >>
  /\ \A m, n \in DOMAIN moduleAddresses : m < n => moduleAddresses[m] < moduleAddresses[n]
  /\ \A m \in DOMAIN moduleAddresses : moduleAddresses[m] < memoryModuleAddress
  /\ memoryModuleAddress \in Nat /\ Top \in Nat /\ memoryModuleAddress < Top
  /\ Len(Kernel) <= bss /\ bss + BssSize <= moduleAddresses[1]
  /\ Len(moduleAddresses) < Weight[Word]
  /\ \E size \in 0..moduleAddresses[1] :
       /\ \A c \in Contents : Len(c) <= size
       /\ size < Weight[Word]
       /\ Len(Kernel) + Word + Len(moduleAddresses) * (Word + size) <= moduleAddresses[1]

endOfKernelBinary == Len(Kernel)
Addresses == 0..(Top - 1)

\* What parse_opt is assumed to read: as many modules as there are addresses for,
\* or fewer.
ImageInit ==
  /\ files \in UNION {[1..n -> Contents] : n \in 0..Len(moduleAddresses)}
  /\ readable \in BOOLEAN
  /\ target = << >>
  /\ memory = [a \in Addresses |-> 0]
  /\ currentModule = endOfKernelBinary /\ moduleCount = 0
  /\ module = 1 /\ phase = "check"

-----------------------------------------------------------------------------
(* The packer.                                                             *)

\* A number as it is written: cut to a uint32_t, the low byte first.
Bytes(n) == [k \in 1..Word |-> (n \div Weight[k - 1]) % Radix]

\* The loop of write_file: a read that fills the buffer does not set feof, so
\* that a file of full buffers is followed by an empty read.
\* Mutant: the loop ends when the last read came back short or empty, and what
\* that read holds is not written.
write_file_mutant(source) ==
  LET from[p \in 0..Len(source)] ==
        IF Len(source) - p < BUFFER_SIZE THEN << >>
        ELSE SubSeq(source, p + 1, p + BUFFER_SIZE) \o from[p + BUFFER_SIZE]
  IN  from[0]
write_file(source) ==
  LET from[p \in 0..Len(source)] ==
        IF Len(source) - p < BUFFER_SIZE THEN SubSeq(source, p + 1, Len(source))
        ELSE SubSeq(source, p + 1, p + BUFFER_SIZE) \o from[p + BUFFER_SIZE]
  IN  from[0]

write_size(source) == Bytes(Len(source))

checkFiles ==
  /\ phase = "check"
  /\ phase' = IF readable THEN "kernel" ELSE "failed"
  /\ UNCHANGED <<packer, loader, module>>

\* The target may not let itself be created.
buildKernel ==
  /\ phase = "kernel"
  /\ \/ /\ target' = write_file(Kernel) \o Bytes(Len(files))
        /\ phase' = "modules"
     \/ phase' = "failed" /\ UNCHANGED target
  /\ UNCHANGED <<files, readable, loader, module>>

buildModule ==
  /\ phase = "modules" /\ module <= Len(files)
  /\ target' = target \o write_size(files[module]) \o write_file(files[module])
  /\ module' = module + 1
  /\ UNCHANGED <<files, readable, loader, phase>>

\* The image is closed, and read at the start of the machine.
boot ==
  /\ phase = "modules" /\ module > Len(files)
  /\ memory' = [a \in Addresses |-> IF a < Len(target) THEN target[a + 1] ELSE 0]
  /\ phase' = "count" /\ module' = 1
  /\ UNCHANGED <<packer, currentModule, moduleCount>>

-----------------------------------------------------------------------------
(* The kernel, initializeKernelBinary().                                   *)

\* The number whose low byte is at the address.
readUint32(address) ==
  LET low[k \in 0..Word] ==
        IF k = 0 THEN 0 ELSE low[k - 1] + memory[address + k - 1] * Weight[k - 1]
  IN  low[Word]

\* memcpy copies words when all is aligned and bytes otherwise, to the same end.
memcpy(destination, source, length) ==
  [a \in Addresses |-> IF a \in destination..(destination + length - 1)
                       THEN memory[source + a - destination] ELSE memory[a]]

memset(destination, c, length) ==
  [a \in Addresses |-> IF a \in destination..(destination + length - 1) THEN c ELSE memory[a]]

readCount ==
  /\ phase = "count"
  /\ moduleCount' = readUint32(currentModule)
  /\ currentModule' = currentModule + Word
  /\ phase' = "load"
  /\ UNCHANGED <<packer, memory, module>>

loadModule ==
  /\ phase = "load" /\ module <= moduleCount
  /\ LET moduleSize == readUint32(currentModule)
     IN  /\ memory' = memcpy(moduleAddresses[module], currentModule + Word, moduleSize)
         /\ currentModule' = currentModule + Word + moduleSize
  /\ module' = module + 1
  /\ UNCHANGED <<packer, moduleCount, phase>>

\* The bss may lie over the packed modules: it is cleared after they are copied.
clearBSS ==
  /\ phase = "load" /\ module > moduleCount
  /\ memory' = memset(bss, 0, BssSize)
  /\ phase' = "memory"
  /\ UNCHANGED <<packer, currentModule, moduleCount, module>>

\* The manager writes the head of its first block.
initMemoryManager ==
  /\ phase = "memory"
  /\ memory' = memset(memoryModuleAddress, 0, 1)
  /\ phase' = "main"
  /\ UNCHANGED <<packer, currentModule, moduleCount, module>>

ImageNext ==
  \/ checkFiles \/ buildKernel \/ buildModule \/ boot
  \/ readCount \/ loadModule \/ clearBSS \/ initMemoryManager

ImageSpec == ImageInit /\ [][ImageNext]_imageVars

-----------------------------------------------------------------------------
\* Where a module has to end: at the next address, the last one at the heap.
End(m) ==
  IF m = Len(moduleAddresses) THEN memoryModuleAddress ELSE moduleAddresses[m + 1]

Fits(m) == moduleAddresses[m] + Len(files[m]) <= End(m)

\* When main() starts, the kernel is as it was linked and each module that fits
\* before what follows it is at its address as its file was, whatever the sizes
\* of the files are to the packer's buffer, and although the bss that is cleared
\* lies over the packed modules.
LoadedAsPacked ==
  phase = "main" =>
    /\ \A a \in 0..(endOfKernelBinary - 1) : memory[a] = Kernel[a + 1]
    /\ \A m \in DOMAIN files : (\A n \in DOMAIN files : Fits(n)) =>
         \A k \in DOMAIN files[m] : memory[moduleAddresses[m] + k - 1] = files[m][k]
=============================================================================
