------------------------------- MODULE FsDevice --------------------------------
(*****************************************************************************)
(* Devices, paths and file descriptors (fs_Device.cpp) over the devices of   *)
(* file systems (fs_FspImpl.cpp).  A file's contents are its size: the       *)
(* properties are about which file a descriptor names and where it stands.   *)
(* The file system service is external.  A call that fails changes nothing   *)
(* but what is said here.                                                    *)
(*****************************************************************************)
EXTENDS Integers, SequencesExt

CONSTANTS
  Names,         \* mount names as they are spelled
  Lower,         \* what strcasecmp compares of them
  FileSystems,   \* what can be mounted
  Paths,         \* the paths of files on each
  Lengths,       \* the lengths that are read and written
  Moves,         \* the distances of seeks
  Half,          \* 2^31: an int is at least -Half and less than Half
  MaxFiles,      \* bound: how many descriptors are held
  MaxPos         \* bound: the largest file, and the largest position

ASSUME LowerAssumption == DOMAIN Lower = Names
ASSUME BoundsAssumption == MaxFiles \in Nat /\ MaxPos \in Nat
ASSUME LengthsAssumption == Lengths \subseteq Nat /\ Moves \subseteq Int
ASSUME HalfAssumption == Half \in Nat \ {0}

VARIABLES
  devices,       \* _inner_DeviceList
  files,         \* _inner_FileList: file and offset
  size,          \* external: the size of each file, -1 if there is none
  mounted,       \* history: the file system that each name stands for, or none
  held           \* history: what the program knows of its descriptors

fsvars == <<devices, files, size, mounted, held>>

None == "none"
Nowhere == [on |-> None, path |-> None]
File == [on : FileSystems, path : Paths]

FsInit ==
  /\ devices = <<>> /\ files = <<>>
  /\ size \in [File -> {-1, 1}]
  /\ mounted = [w \in {Lower[n] : n \in Names} |-> None]
  /\ held = [d \in {} |-> Nowhere]

-------------------------------------------------------------------------------
(* Mount: refused when the name is in use, in either case of its letters. *)
Mount(n, fs) ==
  /\ \A i \in DOMAIN devices : Lower[devices[i].mount] # Lower[n]
  /\ devices' = Append(devices, [mount |-> n, on |-> fs])
  /\ mounted' = [mounted EXCEPT ![Lower[n]] = fs]
  /\ UNCHANGED <<files, size, held>>

Unmount(n) ==
  /\ devices' = RemoveFirstMatch(devices, LAMBDA d : Lower[d.mount] = Lower[n])
  /\ mounted' = [mounted EXCEPT ![Lower[n]] = None]
  /\ UNCHANGED <<files, size, held>>

(* UnmountAll, also of fs::Finalize: the files stay open. *)
UnmountAll ==
  /\ devices' = <<>> /\ mounted' = [w \in DOMAIN mounted |-> None]
  /\ UNCHANGED <<files, size, held>>

(* 0 when there is none. *)
SearchDevice(n) == SelectInSeq(devices, LAMBDA d : Lower[d.mount] = Lower[n])

-------------------------------------------------------------------------------
(* OpenFile of the device.  CreateFile, which O_CREAT calls, is refused for  *)
(* a file that there is; O_TRUNC sets the size of a file that is opened for  *)
(* writing.  The result is the size after it, or -1 when it fails.           *)
OpenFile(f, creat, trunc) ==
  IF creat THEN IF size[f] = -1 THEN 0 ELSE -1
           ELSE IF size[f] # -1 /\ trunc THEN 0 ELSE size[f]

(* Faulty variant: the number is that of the next file. *)
Number_Next(list) == Len(list) + 200

(* The number of the file that was put at the end. *)
Number(list) == Len(list) - 1 + 200

(* _open_r *)
Open(n, p, creat, trunc) ==
  LET i == SearchDevice(n)
      f == [on |-> devices[i].on, path |-> p]
  IN  /\ i # 0 /\ OpenFile(f, creat, trunc) # -1
      /\ files' = Append(files, [file |-> f, offset |-> 0])
      /\ size' = [size EXCEPT ![f] = OpenFile(f, creat, trunc)]
      /\ Number(files') < 200 + MaxFiles
      /\ held' = [d \in DOMAIN held \cup {Number(files')} |->
                    IF d # Number(files') THEN held[d]
                    ELSE [file |-> [on |-> mounted[Lower[n]], path |-> p],
                          pos |-> 0, sure |-> TRUE, shifted |-> FALSE]]
      /\ UNCHANGED <<devices, mounted>>

(* _open_r that fails when O_CREAT has made the file: it stays. *)
OpenFails(n, p) ==
  LET i == SearchDevice(n)
      f == [on |-> devices[i].on, path |-> p]
  IN  /\ i # 0 /\ size[f] = -1
      /\ size' = [size EXCEPT ![f] = 0]
      /\ UNCHANGED <<devices, files, mounted, held>>

(* A number that leads to a file; below 200 it wraps around and does not. *)
Index(d) == d - 200 + 1
IsFile(d) == Index(d) \in DOMAIN files
At(d) == files[Index(d)]

(* What the program would say of its descriptor d: where it stands, if it is *)
(* sure of that.  A shifted one stands anywhere.                             *)
Know(d, pos, sure) ==
  held' = IF held[d].shifted THEN held
          ELSE [held EXCEPT ![d].pos = IF sure THEN pos ELSE 0, ![d].sure = sure]
Shifted == [file |-> Nowhere, pos |-> 0, sure |-> FALSE, shifted |-> TRUE]

(* The conversion of off_t and u64 to int, when Seek is called. *)
Fits(pos) == pos \in (-Half)..(Half - 1)
ToInt(pos) == ((pos + Half) % (2 * Half)) - Half

(* FileSystemDeviceFile::Seek, from the offset, the start or the end; before *)
(* the start it is refused.                                                  *)
Seek(d, pos, base) ==
  /\ base + ToInt(pos) \in 0..MaxPos
  /\ files' = [files EXCEPT ![Index(d)].offset = base + ToInt(pos)]

(* _lseek_r.  If the service does not tell the size, which is not looked at, *)
(* the end is 0.                                                             *)
Lseek(d, pos, whence) ==
  /\ IsFile(d)
  /\ \/ /\ whence = "set" /\ Seek(d, pos, 0)
        /\ Know(d, pos, Fits(pos))
     \/ /\ whence = "cur" /\ Seek(d, pos, At(d).offset)
        /\ Know(d, held[d].pos + pos, held[d].sure /\ Fits(pos))
     \/ /\ whence = "end" /\ Seek(d, pos, size[At(d).file])
        /\ Know(d, size[At(d).file] + pos, Fits(pos))
     \/ /\ whence = "end" /\ Seek(d, pos, 0)
        /\ Know(d, 0, FALSE)
  /\ UNCHANGED <<devices, size, mounted>>

Got(d, len) ==
  IF len < size[At(d).file] - At(d).offset THEN len ELSE size[At(d).file] - At(d).offset

(* Faulty variant: the offset moves by what was asked for. *)
Read_Asked(d, len) ==
  /\ IsFile(d) /\ At(d).offset <= size[At(d).file]
  /\ Seek(d, len, At(d).offset)
  /\ Know(d, held[d].pos + Got(d, len), held[d].sure /\ Fits(Got(d, len)))
  /\ UNCHANGED <<devices, size, mounted>>

(* _read_r: the offset moves by what was read.  Past the end the service     *)
(* refuses.                                                                  *)
Read(d, len) ==
  /\ IsFile(d) /\ At(d).offset <= size[At(d).file]
  /\ Seek(d, Got(d, len), At(d).offset)
  /\ Know(d, held[d].pos + Got(d, len), held[d].sure /\ Fits(Got(d, len)))
  /\ UNCHANGED <<devices, size, mounted>>

(* _write_r: the offset moves by ret, which is 0 until it returns.  The      *)
(* program would say that it moved by what was written, and is wrong until   *)
(* it seeks from the start or the end.                                       *)
Write(d, len) ==
  /\ IsFile(d) /\ At(d).offset + len <= MaxPos
  /\ size' = [size EXCEPT ![At(d).file] = IF At(d).offset + len > @ THEN At(d).offset + len ELSE @]
  /\ Seek(d, 0, At(d).offset)
  /\ Know(d, 0, FALSE)
  /\ UNCHANGED <<devices, mounted>>

(* _close_r: the files behind it move down.  A number that leads nowhere is  *)
(* EBADF.  The program forgets it either way.                                *)
CloseFile(d) ==
  /\ files' = IF IsFile(d) THEN RemoveAt(files, Index(d)) ELSE files
  /\ held' = [e \in DOMAIN held \ {d} |->
                IF IsFile(d) /\ e > d THEN Shifted ELSE held[e]]
  /\ UNCHANGED <<devices, size, mounted>>

-------------------------------------------------------------------------------
FsNext ==
  \/ \E n \in Names : \/ \E fs \in FileSystems : Mount(n, fs)
                      \/ Unmount(n)
                      \/ \E p \in Paths, creat, trunc \in BOOLEAN : Open(n, p, creat, trunc)
                      \/ \E p \in Paths : OpenFails(n, p)
  \/ UnmountAll
  \/ \E d \in DOMAIN held :
       \/ CloseFile(d)
       \/ \E len \in Lengths : Read(d, len) \/ Write(d, len)
       \/ \E pos \in Moves, whence \in {"set", "cur", "end"} : Lseek(d, pos, whence)

FsSpec == FsInit /\ [][FsNext]_fsvars

-------------------------------------------------------------------------------
(* A descriptor names the file it was opened for, on the file system that    *)
(* its name stood for then, whatever was mounted, unmounted, opened and      *)
(* closed since, as long as no descriptor below it was closed.  (_close_r    *)
(* moves the files behind the closed one down, and their numbers then lead   *)
(* to other files.)                                                          *)
DescriptorNamesItsFile ==
  \A d \in DOMAIN held : ~held[d].shifted => IsFile(d) /\ At(d).file = held[d].file

(* Reads and seeks leave a descriptor where the program takes it to be, so   *)
(* that successive reads return successive parts of the file, over any       *)
(* number of them and of other descriptors on the same file that change its  *)
(* size.  Two things are left out, which the code gets wrong: _write_r does  *)
(* not move the offset by what it wrote, and a distance that does not fit an *)
(* int is cut to one; after them the program cannot be sure until it seeks   *)
(* from the start or the end.                                                *)
OffsetIsPosition ==
  \A d \in DOMAIN held : ~held[d].shifted /\ held[d].sure => At(d).offset = held[d].pos
===============================================================================
