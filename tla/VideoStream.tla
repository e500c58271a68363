---------------------------- MODULE VideoStream ----------------------------
(***************************************************************************)
(* The image stream beside a data link: UartStream of datalinkuart.cpp     *)
(* (an FFmpeg input under m_streamMutex) and EbusStream of                 *)
(* datalinkebus.cpp (a pipeline of the vendor library, without a lock).    *)
(* One thread reads images.  Any thread starts the stream or stops it at   *)
(* any time: the user of the stream, a reset of the camera, the close of   *)
(* the link.                                                               *)
(***************************************************************************)
EXTENDS Naturals

CONSTANT MaxStarts  \* bound: calls of startStream

VARIABLES
    input,    \* m_inputContext, or m_streamData with its pipeline: the type it delivers
    dataType, \* m_dataType, or m_streamData->dataType
    codec,    \* m_codecContext: "none", "allocated", "open"
    device,   \* the device a stream holds (EbusStream::m_device) is there
    reading,  \* where the client is in readImageData: the type it labels the image with, the
              \* branch it takes, and (history) whether a start or stop has disturbed it
    image,    \* what the last readImageData returned; disturbed as above
    starts    \* bound

streamVars == <<input, dataType, codec, device, reading, image, starts>>

ImageTypes == {"raw", "yuyv", "rgb"}
NotReading == [at |-> "idle", type |-> "none", branch |-> "none", disturbed |-> FALSE]
NoImage == [result |-> "none", type |-> "none", data |-> "none", disturbed |-> FALSE]

StreamInit ==
    /\ input = "none" /\ dataType = "raw" /\ codec = "none" /\ device = TRUE
    /\ reading = NotReading /\ image = NoImage

IsRunning == input # "none"

\* The pixel format that is asked of the camera for a type of image.
Delivered(type) == IF type = "raw" THEN "raw" ELSE "yuyv"

\* A null pointer is dereferenced (or an assertion fails): the program ends.
Crash == reading' = [NotReading EXCEPT !.at = "crashed"]
Alive == reading.at # "crashed"

\* History: a read under way is disturbed.
Disturb(does) ==
    reading' = [reading EXCEPT !.disturbed = @ \/ (reading.at # "idle" /\ does)]

\* Nothing keeps a start out of a read, not even out of the one of a serial port: it
\* notes the type outside the mutex.
CanStart == Alive /\ starts < MaxStarts /\ starts' = starts + 1

\* startStream of a serial port.  The type is noted first; an input that could
\* be opened stays open when a later step fails.
StartUartStream ==
    \E type \in ImageTypes :
        /\ CanStart
        /\ dataType' = type
        /\ \/ input' = "none" /\ UNCHANGED codec          \* avformat_open_input fails
           \/ /\ input' = Delivered(type)
              /\ \/ codec' = codec
                 \/ type = "rgb" /\ codec' \in {"allocated", "open"}
        /\ Disturb(type # reading.type)
        /\ UNCHANGED <<device, image>>

\* startStream of eBUS: nothing to do for the type that runs, otherwise the
\* stream is stopped, and runs again only when every step succeeds.  A device
\* that is disconnected is given up before it is looked for again; when it was
\* not found, the next start reaches through the null pointer.
StartEbusStream ==
    \E type \in {"raw", "yuyv"} :
        /\ CanStart
        /\ \/ IsRunning /\ dataType = type /\ UNCHANGED <<input, dataType, device, reading>>
           \/ ~(IsRunning /\ dataType = type) /\ ~device /\ Crash /\ UNCHANGED <<input, dataType, device>>
           \/ /\ ~(IsRunning /\ dataType = type) /\ device
              /\ Disturb(TRUE)
              /\ \/ input' = "none" /\ device' \in BOOLEAN /\ UNCHANGED dataType
                 \/ input' = Delivered(type) /\ dataType' = type /\ UNCHANGED device
        /\ UNCHANGED <<codec, image>>

\* stopStream.
StopUartStream ==
    /\ Alive
    /\ input' = "none" /\ codec' = "none"
    /\ UNCHANGED <<dataType, device, reading, image, starts>>

\* A stream of eBUS whose device is not connected is left as it is.
StopEbusStream(connected) ==
    /\ Alive
    /\ input' = IF connected /\ device THEN "none" ELSE input
    /\ Disturb(connected /\ device)
    /\ UNCHANGED <<dataType, codec, device, image, starts>>

\* readImageData labels the image, outside the mutex.  (eBUS goes by its stream data
\* from here on, and labels the image in the end.)
ReadBegins ==
    /\ reading = NotReading
    /\ reading' = [NotReading EXCEPT !.at = "noted", !.type = dataType]
    /\ UNCHANGED <<input, dataType, codec, device, image, starts>>

\* It reads m_dataType once more to choose between a frame as it is and a conversion ...
ReadChooses ==
    /\ reading.at = "noted"
    /\ reading' = [reading EXCEPT !.at = "chosen", !.branch = dataType]
    /\ UNCHANGED <<input, dataType, codec, device, image, starts>>

\* A frame is taken as it is, or converted from YUYV.
FrameData ==
    IF reading.branch # "rgb" THEN input ELSE IF input = "yuyv" THEN "rgb" ELSE "damaged"

Image(type, data) == [result |-> "ok", type |-> type, data |-> data, disturbed |-> reading.disturbed]
ReadFails == reading' = NotReading /\ image' = [NoImage EXCEPT !.result = "error"]

\* Fault: the stream is known to run from before the mutex.
ReadUartFrame_NotTested ==
    /\ reading.at = "chosen"
    /\ \/ ReadFails
       \/ reading' = NotReading /\ image' = Image(reading.type, FrameData)
    /\ UNCHANGED <<input, dataType, codec, device, starts>>

\* ... and reads a frame under the mutex, if the stream still runs.  The conversion takes
\* it for granted that there is a codec (an assertion): a start for RGB that failed after the
\* input was opened, or one for another type within this read, leaves none.
ReadUartFrame ==
    /\ reading.at = "chosen"
    /\ \/ ReadFails
       \/ /\ IsRunning /\ (reading.branch = "rgb" => codec = "open")
          /\ reading' = NotReading /\ image' = Image(reading.type, FrameData)
       \/ IsRunning /\ reading.branch = "rgb" /\ codec = "none" /\ Crash /\ UNCHANGED image
    /\ UNCHANGED <<input, dataType, codec, device, starts>>

\* An image of eBUS is waited for through a reference to the stream data; when the stream is
\* stopped or started anew meanwhile, what is copied and its label are anything.
ReadEbusFrame ==
    /\ reading.at = "noted"
    /\ \/ ReadFails
       \/ /\ ~reading.disturbed
          /\ reading' = NotReading /\ image' = Image(dataType, input)
       \/ /\ reading.disturbed
          /\ \/ Crash /\ UNCHANGED image
             \/ /\ reading' = NotReading
                /\ \E type \in ImageTypes, data \in ImageTypes : image' = Image(type, data)
    /\ UNCHANGED <<input, dataType, codec, device, starts>>
=============================================================================
